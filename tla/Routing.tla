------------------------------ MODULE Routing ------------------------------
(***************************************************************************)
(* Claims under row locks.  (services/routing.py, and what submit of       *)
(* grading.py does to the task's row.)                                     *)
(*                                                                         *)
(* TaskFlow takes a claim as one step.  Here it is the statements that the *)
(* database executes.  The UPDATE of reclaim_expired finds its rows in a   *)
(* snapshot, waits for those that are locked, and checks each again when   *)
(* it has its lock; SELECT ... FOR UPDATE SKIP LOCKED passes over the      *)
(* locked ones, and is one step here.  Locks are held, and changes unseen  *)
(* by others, until the transaction ends.                                  *)
(*                                                                         *)
(* The tasks are those of one queue, the golden or the regular one.  How   *)
(* many grades a task needs is not known here: a graded task may go back   *)
(* to the queue or leave it, and a review may put it back.                 *)
(***************************************************************************)
EXTENDS Naturals, FiniteSets

CONSTANTS
  Tasks,
  Experts,
  NoOne,      \* NULL in assigned_expert_id; the sweep has no expert
  NoTask,
  Place,      \* each task's place by priority, deadline and seq
  Sessions    \* bound: the database sessions, each with one open transaction at most

RoutingAssumption ==
  /\ NoOne \notin Experts
  /\ NoTask \notin Tasks
  /\ Place \in [Tasks -> Nat]
  /\ \A t, u \in Tasks : Place[t] = Place[u] => t = u

ASSUME RoutingAssumption

VARIABLES
  status,  \* tasks.status; "out" is every status in which it waits for no grader
  holder,  \* tasks.assigned_expert_id
  live,    \* whether lease_expires_at is in the future
  graded,  \* the experts who have graded each task
  open     \* the open transactions

row  == <<status, holder, live>>
vars == <<row, graded, open>>

Statuses == {"queued", "assigned", "out"}

(***************************************************************************)
(* A transaction is a claim, the sweep of POST /tasks/reclaim or the tick, *)
(* or the submission or release by which a holder gives a task up.  It has *)
(* the rows that its UPDATE has still to visit, those it has reclaimed,    *)
(* and the one it has selected.                                            *)
(***************************************************************************)
Kinds  == {"next", "by_id", "sweep", "submit", "release"}
Claims == {"next", "by_id"}
Tx == [session : Sessions, kind : Kinds, expert : Experts \cup {NoOne},
       todo : SUBSET Tasks, reclaimed : SUBSET Tasks, pick : Tasks \cup {NoTask}]

TypeOK ==
  /\ status \in [Tasks -> Statuses]
  /\ holder \in [Tasks -> Experts \cup {NoOne}]
  /\ live \in [Tasks -> BOOLEAN]
  /\ graded \in [Tasks -> SUBSET Experts]
  /\ open \subseteq Tx

Init ==
  /\ status = [t \in Tasks |-> "queued"]
  /\ holder = [t \in Tasks |-> NoOne]
  /\ live = [t \in Tasks |-> FALSE]
  /\ graded = [t \in Tasks |-> {}]
  /\ open = {}

-----------------------------------------------------------------------------
(* Row locks.                                                              *)

\* The rows whose locks a transaction holds.
Rows(x) == x.reclaimed \cup ({x.pick} \cap Tasks)

Unlocked(t, others) == \A y \in others : t \notin Rows(y)

Idle(s) == \A x \in open : x.session # s

Step(x, y) == open' = (open \ {x}) \cup {y}

-----------------------------------------------------------------------------
(* The clock, and reviews.                                                 *)

\* A lease is long: it does not pass while an UPDATE waits for its row.
Expire(t) ==
  /\ live[t]
  /\ \A x \in open : t \notin x.todo
  /\ live' = [live EXCEPT ![t] = FALSE]
  /\ UNCHANGED <<status, holder, graded, open>>

\* A rejection puts a task back into the queue.
Requeue(t) ==
  /\ status[t] = "out"
  /\ status' = [status EXCEPT ![t] = "queued"]
  /\ UNCHANGED <<holder, live, graded, open>>

-----------------------------------------------------------------------------
(* Reclaiming.                                                             *)

Overdue(t) == status[t] = "assigned" /\ ~live[t]

\* A claim or a sweep begins with reclaim_expired, which takes its snapshot.  (An expert
\* who is not active gets no further than an Abort.)
Begin(s, kind, e) ==
  /\ Idle(s)
  /\ open' = open \cup {[session |-> s, kind |-> kind, expert |-> e, reclaimed |-> {},
                         todo |-> {t \in Tasks : Overdue(t)}, pick |-> NoTask]}
  /\ UNCHANGED <<row, graded>>

\* Faulty variant of StillOverdue: the row is changed by what the snapshot has shown.
InSnapshot(t) == TRUE

\* Once the lock is there, the row is checked again.
StillOverdue(t) == Overdue(t)

\* The UPDATE gets the lock of a row.
ReclaimRow(x, t) ==
  /\ t \in x.todo
  /\ Unlocked(t, open \ {x})
  /\ Step(x, [x EXCEPT !.todo = @ \ {t},
                       !.reclaimed = IF StillOverdue(t) THEN @ \cup {t} ELSE @])
  /\ UNCHANGED <<row, graded>>

-----------------------------------------------------------------------------
(* Claiming.                                                               *)

\* What the claim sees in the queue: its own changes and what is committed.
Queued(x, t) == t \in x.reclaimed \/ status[t] = "queued"

\* Faulty variant of Selectable: the SELECT takes no lock, and heeds none.
SelectableLocked(x, t) == Queued(x, t)

\* A queued row whose lock can be had without waiting.
Selectable(x, t) == Queued(x, t) /\ Unlocked(t, open \ {x})

MaySelect(x) == x.kind \in Claims /\ x.todo = {} /\ x.pick = NoTask

\* Faulty variant of Eligible: the grades the expert has given are not looked at.
EligibleAny(x) == {t \in Tasks : Selectable(x, t)}

\* The rows that _eligibility lets pass.
Eligible(x) == {t \in Tasks : Selectable(x, t) /\ x.expert \notin graded[t]}

\* _pick: the first of them.
PickNext(x) ==
  /\ MaySelect(x)
  /\ x.kind = "next"
  /\ \E t \in Eligible(x) :
       /\ \A u \in Eligible(x) : Place[t] <= Place[u]
       /\ Step(x, [x EXCEPT !.pick = t])
  /\ UNCHANGED <<row, graded>>

\* claim_by_id; a locked row, or one that is not queued, is answered by 409 (Abort).
PickById(x, t) ==
  /\ MaySelect(x)
  /\ x.kind = "by_id"
  /\ Selectable(x, t)
  /\ Step(x, [x EXCEPT !.pick = t])
  /\ UNCHANGED <<row, graded>>

\* The reclaimed rows become visible, and with them the lease of the selected one.  A
\* claim_next that has found no task commits what it has reclaimed.
Commit(x) ==
  /\ x.kind \in Claims \cup {"sweep"}
  /\ x.todo = {}
  /\ x.pick # NoTask \/ x.kind = "sweep" \/ (x.kind = "next" /\ Eligible(x) = {})
  /\ status' = [t \in Tasks |-> IF t = x.pick THEN "assigned"
                                ELSE IF t \in x.reclaimed THEN "queued" ELSE status[t]]
  /\ holder' = [t \in Tasks |-> IF t = x.pick THEN x.expert
                                ELSE IF t \in x.reclaimed THEN NoOne ELSE holder[t]]
  /\ live' = [t \in Tasks |-> IF t = x.pick THEN TRUE
                              ELSE IF t \in x.reclaimed THEN FALSE ELSE live[t]]
  /\ open' = open \ {x}
  /\ UNCHANGED graded

-----------------------------------------------------------------------------
(* Giving a task up.                                                       *)

\* Faulty variant of HeldBy: the row is read without its lock.
HeldUnlocked(t, e) == status[t] = "assigned" /\ holder[t] = e

\* The row is locked, and then found to be the expert's.
HeldBy(t, e) == Unlocked(t, open) /\ status[t] = "assigned" /\ holder[t] = e

\* submit and release begin alike.
BeginGivingUp(s, kind, e, t) ==
  /\ Idle(s)
  /\ HeldBy(t, e)
  /\ kind = "submit" => e \notin graded[t]
  /\ open' = open \cup {[session |-> s, kind |-> kind, expert |-> e, reclaimed |-> {},
                         todo |-> {}, pick |-> t]}
  /\ UNCHANGED <<row, graded>>

GiveUp(x) ==
  /\ x.kind \in {"submit", "release"}
  /\ \/ x.kind = "submit" /\ graded' = [graded EXCEPT ![x.pick] = @ \cup {x.expert}]
     \/ x.kind = "release" /\ UNCHANGED graded
  /\ \E new \in IF x.kind = "submit" THEN {"queued", "out"} ELSE {"queued"} :
       status' = [status EXCEPT ![x.pick] = new]
  /\ holder' = [holder EXCEPT ![x.pick] = NoOne]
  /\ live' = [live EXCEPT ![x.pick] = FALSE]
  /\ open' = open \ {x}

\* An error response, a crash, or a deadlock that the database breaks.
Abort(x) ==
  /\ open' = open \ {x}
  /\ UNCHANGED <<row, graded>>

-----------------------------------------------------------------------------
Next ==
  \/ \E t \in Tasks : Expire(t) \/ Requeue(t)
  \/ \E s \in Sessions :
       \/ \E kind \in Claims, e \in Experts : Begin(s, kind, e)
       \/ Begin(s, "sweep", NoOne)
       \/ \E kind \in {"submit", "release"}, e \in Experts, t \in Tasks :
            BeginGivingUp(s, kind, e, t)
  \/ \E x \in open :
       \/ \E t \in Tasks : ReclaimRow(x, t) \/ PickById(x, t)
       \/ PickNext(x) \/ Commit(x) \/ GiveUp(x) \/ Abort(x)

Spec == Init /\ [][Next]_vars

-----------------------------------------------------------------------------
(* Properties.                                                             *)

\* The leases, as the experts see them.
Lease == [t \in Tasks |-> IF status[t] = "assigned"
                          THEN [by |-> {holder[t]}, live |-> live[t]]
                          ELSE [by |-> {}, live |-> FALSE]]

L == INSTANCE Leases WITH lease <- Lease

\* The statements and their locks implement the leases: no two claims get one task, and
\* no reclaim takes a task from under a submission or a claim it waited for.
LeasesSpec == L!Spec

\* A row is locked once.
LockedOnce ==
  /\ \A x, y \in open : x.session = y.session => x = y
  /\ \A x, y \in open : Rows(x) \cap Rows(y) # {} => x = y

\* A leased row has a holder.
LeasesHeld ==
  \A t \in Tasks : /\ live[t] => status[t] = "assigned"
                   /\ status[t] = "assigned" => holder[t] \in Experts

\* What a transaction has read of the rows it has locked is still so.
Stands(x) ==
  /\ \A t \in x.reclaimed : Overdue(t)
  /\ x.kind = "sweep" => x.pick = NoTask
  /\ x.kind \in Claims =>
       x.expert \in Experts /\ (x.pick # NoTask => Queued(x, x.pick))
  /\ x.kind \in {"submit", "release"} =>
       /\ x.pick \in Tasks /\ x.reclaimed = {} /\ x.todo = {}
       /\ status[x.pick] = "assigned" /\ holder[x.pick] = x.expert
  /\ x.kind \in {"next", "submit"} =>
       (x.pick # NoTask => x.expert \notin graded[x.pick])

\* Row locks do what the handlers rely on: nothing that a transaction has found behind a
\* lock changes before it ends (claim_next, claim_by_id, submit, release).
IInv == TypeOK /\ LockedOnce /\ LeasesHeld /\ \A x \in open : Stands(x)

\* A live lease ends only by a submission or a release of its own holder, whatever the
\* claims and sweeps around it have seen in their snapshots (reclaim_expired).
LiveLeaseKept ==
  [][\A t \in Tasks : live[t] /\ status'[t] # "assigned" =>
       \E x \in open \ open' :
         x.kind \in {"submit", "release"} /\ x.pick = t /\ x.expert = holder[t]]_vars

\* POST /tasks/next never gives a task to an expert who has graded it, also when they
\* have several requests under way (_eligibility).
NextServesNew ==
  [][\A x \in open \ open' : x.kind = "next" /\ x.pick # NoTask =>
       x.expert \notin graded[x.pick]]_vars
==============================================================================
