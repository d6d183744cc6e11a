------------------------------- MODULE Rubrics -------------------------------
(***************************************************************************)
(* The versions of one rubric, and the tasks that are graded against them. *)
(* (services/rubrics.py, create_tasks in routers/tasks.py, and what        *)
(* routing.py and grading.py do with rubric_id and pinned_rubric_id.)      *)
(*                                                                         *)
(* Publishing a version and creating tasks read a version without locking  *)
(* it, so each is two steps.  A claim, a release, a grade and a rejection  *)
(* lock the task when they first read it, and the UPDATE by which a        *)
(* publication moves the queue waits for that lock: one step each.         *)
(***************************************************************************)
EXTENDS Integers, FiniteSets

CONSTANTS
  Tasks,
  Required,       \* required_grades, per task
  MaxVersions,    \* bound: versions of the rubric
  MaxPublishing,  \* bound: publications open at the same time
  MaxOpen         \* bound: publications and creations open at the same time

RubricsAssumption ==
  /\ Required \in [Tasks -> Nat \ {0}]
  /\ MaxVersions \in Nat \ {0}
  /\ MaxPublishing \in Nat /\ MaxOpen \in Nat

ASSUME RubricsAssumption

VARIABLES
  latest,      \* the highest version: the versions are 1 .. latest
  successor,   \* superseded_by_id per version, 0 while the version is current
  state,       \* where each task is; "absent" before it is created
  received,    \* tasks.grades_received
  rubric,      \* tasks.rubric_id, as a version; 0 for an absent task
  pinned,      \* tasks.pinned_rubric_id, 0 for NULL
  graded,      \* the versions of the task's unrejected grades
  publishing,  \* open publications: the version each has loaded
  creating,    \* open creations: a task, and the version that was found current
  made         \* what the audit event of each publication records, with its history

taskVars == <<state, received, rubric, pinned, graded>>
vars     == <<latest, successor, taskVars, publishing, creating, made>>

Versions == 1 .. MaxVersions
States   == {"absent", "queued", "assigned", "complete"}

\* Publications are told apart by a number, for two may have loaded the same version.
\* Beside the version, the newest one of that moment is kept: it guards nothing.
PublishTx == [id : 1 .. MaxPublishing, from : Versions, seen : Versions]
\* The previous version, and the newest one when that was loaded; 0 for a version that
\* no publication has made.
MadeFrom  == [from : 0 .. MaxVersions, seen : 0 .. MaxVersions]
CreateTx  == [task : Tasks, version : Versions]

\* With the foreign keys: what a task or a version refers to exists.
TypeOK ==
  /\ latest \in Versions
  /\ successor \in [Versions -> 0 .. latest]
  /\ state \in [Tasks -> States]
  /\ received \in [Tasks -> Nat]
  /\ rubric \in [Tasks -> 0 .. latest]
  /\ pinned \in [Tasks -> 0 .. latest]
  /\ graded \in [Tasks -> SUBSET (1 .. latest)]
  /\ publishing \subseteq PublishTx
  /\ creating \subseteq CreateTx
  /\ made \in [Versions -> MadeFrom]

Init ==
  /\ latest = 1
  /\ successor = [v \in Versions |-> 0]
  /\ state = [t \in Tasks |-> "absent"]
  /\ received = [t \in Tasks |-> 0]
  /\ rubric = [t \in Tasks |-> 0]
  /\ pinned = [t \in Tasks |-> 0]
  /\ graded = [t \in Tasks |-> {}]
  /\ publishing = {} /\ creating = {}
  /\ made = [v \in Versions |-> [from |-> 0, seen |-> 0]]

MayOpen == Cardinality(publishing) + Cardinality(creating) < MaxOpen

\* The version exists and is not superseded.
Current(v) == v <= latest /\ successor[v] = 0

-----------------------------------------------------------------------------
(* Versions.                                                               *)

\* Faulty variant of BeginPublish: any version can be published from.
BeginPublishAny(i, v) ==
  /\ MayOpen
  /\ \A x \in publishing : x.id # i
  /\ v <= latest
  /\ publishing' = publishing \cup {[id |-> i, from |-> v, seen |-> latest]}
  /\ UNCHANGED <<latest, successor, taskVars, creating, made>>

\* The previous version is loaded and found current.
BeginPublish(i, v) ==
  /\ MayOpen
  /\ \A x \in publishing : x.id # i
  /\ Current(v)
  /\ publishing' = publishing \cup {[id |-> i, from |-> v, seen |-> latest]}
  /\ UNCHANGED <<latest, successor, taskVars, creating, made>>

\* Faulty variants of Movable: partly graded tasks move too; no task moves.
MovablePartly(v) == {t \in Tasks : rubric[t] = v /\ state[t] = "queued"}
MovableNone(v)   == {}

\* The tasks that a publication moves from version v to its own.
Movable(v) == {t \in Tasks : rubric[t] = v /\ state[t] = "queued" /\ received[t] = 0}

\* Faulty variant of Superseded: a version that has a successor keeps it.
SupersededFirst(v, new) == IF successor[v] # 0 THEN successor[v] ELSE new

\* The successor that a publication writes to its previous version, whatever was
\* committed there since it was loaded.
Superseded(v, new) == new

\* The new version is one more than the highest of now; when another publication takes
\* that number first, the unique constraint rolls this one back.  The previous version
\* is not loaded again: it may have been superseded meanwhile.
FinishPublish(x) ==
  /\ latest < MaxVersions
  /\ publishing' = publishing \ {x}
  /\ latest' = latest + 1
  /\ successor' = [successor EXCEPT ![x.from] = Superseded(x.from, latest + 1)]
  /\ made' = [made EXCEPT ![latest + 1] = [from |-> x.from, seen |-> x.seen]]
  /\ rubric' = [t \in Tasks |-> IF t \in Movable(x.from) THEN latest + 1 ELSE rubric[t]]
  /\ UNCHANGED <<state, received, pinned, graded, creating>>

RollbackPublish(x) ==
  /\ publishing' = publishing \ {x}
  /\ UNCHANGED <<latest, successor, taskVars, creating, made>>

-----------------------------------------------------------------------------
(* Tasks.                                                                  *)

\* POST /tasks: the version is found not superseded.
BeginCreate(t, v) ==
  /\ MayOpen
  /\ state[t] = "absent"
  /\ \A x \in creating : x.task # t
  /\ Current(v)
  /\ creating' = creating \cup {[task |-> t, version |-> v]}
  /\ UNCHANGED <<latest, successor, taskVars, publishing, made>>

FinishCreate(x) ==
  /\ creating' = creating \ {x}
  /\ state' = [state EXCEPT ![x.task] = "queued"]
  /\ rubric' = [rubric EXCEPT ![x.task] = x.version]
  /\ UNCHANGED <<latest, successor, received, pinned, graded, publishing, made>>

RollbackCreate(x) ==
  /\ creating' = creating \ {x}
  /\ UNCHANGED <<latest, successor, taskVars, publishing, made>>

\* _assign pins the version that the expert is shown.
Claim(t) ==
  /\ state[t] = "queued"
  /\ state' = [state EXCEPT ![t] = "assigned"]
  /\ pinned' = [pinned EXCEPT ![t] = rubric[t]]
  /\ UNCHANGED <<latest, successor, received, rubric, graded, publishing, creating, made>>

\* release, or reclaim_expired; the pin is left as it is.
Return(t) ==
  /\ state[t] = "assigned"
  /\ state' = [state EXCEPT ![t] = "queued"]
  /\ UNCHANGED <<latest, successor, received, rubric, pinned, graded, publishing, creating, made>>

\* Faulty variant of GradedVersion: the newest version, whatever was claimed.
GradedVersionNow(t) == latest

\* submit grades against the pinned version.
GradedVersion(t) == IF pinned[t] # 0 THEN pinned[t] ELSE rubric[t]

Submit(t) ==
  /\ state[t] = "assigned"
  /\ received' = [received EXCEPT ![t] = @ + 1]
  /\ graded' = [graded EXCEPT ![t] = @ \cup {GradedVersion(t)}]
  /\ state' = [state EXCEPT ![t] =
                 IF received[t] + 1 < Required[t] THEN "queued" ELSE "complete"]
  /\ UNCHANGED <<latest, successor, rubric, pinned, publishing, creating, made>>

\* _requeue: the rejected grade of a single-grader task is no longer in play.
Requeue(t) ==
  /\ state[t] = "complete"
  /\ Required[t] = 1
  /\ state' = [state EXCEPT ![t] = "queued"]
  /\ received' = [received EXCEPT ![t] = 0]
  /\ graded' = [graded EXCEPT ![t] = {}]
  /\ UNCHANGED <<latest, successor, rubric, pinned, publishing, creating, made>>

-----------------------------------------------------------------------------
Next ==
  \/ \E i \in 1 .. MaxPublishing, v \in Versions : BeginPublish(i, v)
  \/ \E x \in publishing : FinishPublish(x) \/ RollbackPublish(x)
  \/ \E t \in Tasks, v \in Versions : BeginCreate(t, v)
  \/ \E x \in creating : FinishCreate(x) \/ RollbackCreate(x)
  \/ \E t \in Tasks : Claim(t) \/ Return(t) \/ Submit(t) \/ Requeue(t)

Spec == Init /\ [][Next]_vars

-----------------------------------------------------------------------------
(* Properties.                                                             *)

\* The grades that a consensus round compares are all of one version, whatever is
\* published while the task goes from one grader to the next (publish, submit).
OneVersionPerTask == \A t \in Tasks : Cardinality(graded[t]) <= 1

\* An expert grades the version they were shown: no publication changes the pin of a
\* claimed task, and the grade is of that version (_assign, submit).
ShownIsGraded ==
  [][\A t \in Tasks : state[t] = "assigned" =>
       /\ state'[t] = "assigned" => pinned'[t] = pinned[t]
       /\ received'[t] > received[t] => pinned[t] \in graded'[t]]_vars

\* Two versions have been published from one.
Siblings(v, w) == v < w /\ made[v].from = made[w].from

\* The newest version is current, and a superseded version names the newest one that was
\* published from it.  As long as none is superseded twice the versions form a chain; a
\* version is superseded again only by a publication that loaded it before (publish).
Chain ==
  /\ TypeOK
  /\ Current(latest)
  /\ \A v \in 2 .. latest : v <= successor[made[v].from]
  /\ \A v \in 1 .. latest : successor[v] # 0 => made[successor[v]].from = v
  /\ \A v, w \in 2 .. latest : Siblings(v, w) => made[w].seen < v
  /\ (\A v, w \in 2 .. latest : ~Siblings(v, w)) =>
       \A v \in 1 .. latest - 1 : successor[v] = v + 1

\* A task does not fall behind while it waits in the queue without a grade: one that is
\* there on a superseded version was leased, graded or created around the publication
\* (publish).
QueuedKeepUp ==
  [][\A t \in Tasks :
       /\ state[t] = "queued" /\ received[t] = 0 /\ Current(rubric[t])
       /\ state'[t] = "queued"
       => Current(rubric[t])']_vars
==============================================================================
