--------------------------- MODULE Routing_proofs ---------------------------
(***************************************************************************)
(* Proofs about the claims: for any tasks and experts, and for any number  *)
(* of sessions.                                                            *)
(***************************************************************************)
EXTENDS Routing, TLAPS

USE RoutingAssumption DEF RoutingAssumption

-----------------------------------------------------------------------------
(* The invariant.                                                          *)

LEMMA InitIInv == Init => IInv
<1> SUFFICES ASSUME Init PROVE IInv
  OBVIOUS
<1>1. TypeOK
  BY DEF Init, TypeOK, Statuses
<1>2. LockedOnce /\ LeasesHeld /\ open = {}
  BY DEF Init, LockedOnce, LeasesHeld
<1> QED
  BY <1>1, <1>2 DEF IInv

\* What a transaction has found depends on its own rows only.
LEMMA StandsElsewhere ==
  ASSUME NEW z \in Tx, Stands(z),
         \A t \in Rows(z) : /\ status'[t] = status[t] /\ holder'[t] = holder[t]
                            /\ live'[t] = live[t] /\ graded'[t] = graded[t]
  PROVE  Stands(z)'
<1>1. \A t \in z.reclaimed : t \in Rows(z)
  BY DEF Rows
<1>2. z.pick # NoTask => z.pick \in Rows(z)
  BY DEF Rows, Tx
<1>3. z.pick \in Tasks => z.pick # NoTask
  OBVIOUS
<1> QED
  BY <1>1, <1>2, <1>3 DEF Stands, Overdue, Queued

\* A transaction ends, and has changed only the rows that it has locked.
LEMMA EndKeeps ==
  ASSUME IInv, NEW x \in open, open' = open \ {x}, TypeOK', LeasesHeld',
         \A t \in Tasks \ Rows(x) :
           /\ status'[t] = status[t] /\ holder'[t] = holder[t]
           /\ live'[t] = live[t] /\ graded'[t] = graded[t]
  PROVE  IInv'
<1>1. LockedOnce'
  BY DEF IInv, LockedOnce, Rows
<1>2. ASSUME NEW z \in open' PROVE Stands(z)'
  <2>1. z \in open /\ z # x /\ z \in Tx
    BY <1>2 DEF IInv, TypeOK
  <2>2. Rows(z) \cap Rows(x) = {} /\ Rows(z) \subseteq Tasks
    BY <2>1 DEF IInv, LockedOnce, Rows, Tx
  <2>3. Stands(z)
    BY <2>1 DEF IInv
  <2> QED
    BY <2>1, <2>2, <2>3, StandsElsewhere
<1> QED
  BY <1>1, <1>2 DEF IInv

\* A transaction goes on, or begins, without changing a row.
LEMMA StepKeeps ==
  ASSUME IInv, UNCHANGED <<row, graded>>, NEW others \in SUBSET open, NEW y \in Tx,
         open' = others \cup {y}, Stands(y),
         \A z \in others : z.session # y.session /\ Rows(z) \cap Rows(y) = {}
  PROVE  IInv'
<1>1. TypeOK' /\ LeasesHeld'
  BY DEF IInv, TypeOK, LeasesHeld, row
<1>2. LockedOnce'
  BY DEF IInv, LockedOnce, Rows
<1>3. ASSUME NEW z \in open' PROVE Stands(z)'
  <2>1. z \in Tx /\ Stands(z)
    BY <1>3 DEF IInv, TypeOK
  <2> QED
    BY <2>1, StandsElsewhere DEF row
<1> QED
  BY <1>1, <1>2, <1>3 DEF IInv

LEMMA ExpireKeeps ==
  ASSUME IInv, NEW t \in Tasks, Expire(t)
  PROVE  IInv'
<1>1. /\ live' = [live EXCEPT ![t] = FALSE]
      /\ UNCHANGED <<status, holder, graded, open>>
  BY DEF Expire
<1>2. TypeOK'
  BY <1>1 DEF IInv, TypeOK
<1>3. \A u \in Tasks : live'[u] => live[u]
  BY <1>1 DEF IInv, TypeOK
<1>4. LockedOnce' /\ LeasesHeld'
  BY <1>1, <1>3 DEF IInv, LockedOnce, LeasesHeld, Rows
<1>5. ASSUME NEW z \in open' PROVE Stands(z)'
  <2>1. z \in Tx /\ Stands(z)
    BY <1>1, <1>5 DEF IInv, TypeOK
  <2>2. \A u \in z.reclaimed : u \in Tasks
    BY <2>1 DEF Tx
  <2> QED
    BY <1>1, <1>3, <2>1, <2>2 DEF Stands, Overdue, Queued
<1> QED
  BY <1>2, <1>4, <1>5 DEF IInv

LEMMA RequeueKeeps ==
  ASSUME IInv, NEW t \in Tasks, Requeue(t)
  PROVE  IInv'
<1>1. /\ status' = [status EXCEPT ![t] = "queued"] /\ status[t] = "out"
      /\ UNCHANGED <<holder, live, graded, open>>
  BY DEF Requeue
<1>2. TypeOK'
  BY <1>1 DEF IInv, TypeOK, Statuses
<1>3. \A u \in Tasks : status'[u] = status[u] \/ (status[u] = "out" /\ status'[u] = "queued")
  BY <1>1 DEF IInv, TypeOK
<1>4. LockedOnce' /\ LeasesHeld'
  BY <1>1, <1>3 DEF IInv, LockedOnce, LeasesHeld, Rows
<1>5. ASSUME NEW z \in open' PROVE Stands(z)'
  <2>1. z \in Tx /\ Stands(z)
    BY <1>1, <1>5 DEF IInv, TypeOK
  <2>2. z.reclaimed \subseteq Tasks /\ (z.pick # NoTask => z.pick \in Tasks)
    BY <2>1 DEF Tx
  <2> QED
    BY <1>1, <1>3, <2>1, <2>2 DEF Stands, Overdue, Queued
<1> QED
  BY <1>2, <1>4, <1>5 DEF IInv

LEMMA BeginKeeps ==
  ASSUME IInv, NEW s \in Sessions, NEW kind \in Claims \cup {"sweep"},
         NEW e \in Experts \cup {NoOne}, kind \in Claims => e \in Experts, Begin(s, kind, e)
  PROVE  IInv'
<1> DEFINE y == [session |-> s, kind |-> kind, expert |-> e, reclaimed |-> {},
                 todo |-> {t \in Tasks : Overdue(t)}, pick |-> NoTask]
<1>1. /\ open' = open \cup {y} /\ UNCHANGED <<row, graded>>
      /\ \A x \in open : x.session # s
  BY DEF Begin, Idle
<1>2. y \in Tx
  BY DEF Tx, Kinds, Claims
<1>3. y.session = s /\ Rows(y) = {} /\ Stands(y)
  BY DEF Rows, Stands, Claims
<1> HIDE DEF y
<1> QED
  BY <1>1, <1>2, <1>3, StepKeeps

LEMMA ReclaimRowKeeps ==
  ASSUME IInv, NEW x \in open, NEW t \in Tasks, ReclaimRow(x, t)
  PROVE  IInv'
<1> DEFINE new == IF StillOverdue(t) THEN x.reclaimed \cup {t} ELSE x.reclaimed
           y == [x EXCEPT !.todo = @ \ {t}, !.reclaimed = new]
<1>1. /\ open' = (open \ {x}) \cup {y} /\ UNCHANGED <<row, graded>>
      /\ Unlocked(t, open \ {x}) /\ t \in x.todo
  BY DEF ReclaimRow, Step
<1>2. x \in Tx /\ Stands(x)
  BY DEF IInv, TypeOK
<1>3. /\ x.reclaimed \subseteq new /\ new \subseteq x.reclaimed \cup {t}
      /\ \A u \in new : Overdue(u)
  BY <1>2 DEF StillOverdue, Stands
<1>4. new \in SUBSET Tasks
  BY <1>2, <1>3 DEF Tx
<1> HIDE DEF new
<1>5. /\ y \in Tx /\ y.session = x.session /\ y.kind = x.kind /\ y.expert = x.expert
      /\ y.pick = x.pick /\ y.reclaimed = new
  BY <1>2, <1>4 DEF Tx
<1> HIDE DEF y
<1>6. x.kind \notin {"submit", "release"}
  BY <1>1, <1>2 DEF Stands
<1>7. Stands(y)
  BY <1>2, <1>3, <1>5, <1>6 DEF Stands, Queued
<1>8. Rows(y) \subseteq Rows(x) \cup {t}
  BY <1>3, <1>5 DEF Rows
<1>9. ASSUME NEW z \in open \ {x}
      PROVE  z.session # y.session /\ Rows(z) \cap Rows(y) = {}
  BY <1>1, <1>5, <1>8 DEF IInv, LockedOnce, Unlocked
<1> QED
  BY <1>1, <1>5, <1>7, <1>9, StepKeeps

\* A claim selects a row that no other transaction has locked.
LEMMA PickKeeps ==
  ASSUME IInv, NEW x \in open, NEW t \in Tasks, MaySelect(x), Selectable(x, t),
         x.kind = "next" => x.expert \notin graded[t],
         Step(x, [x EXCEPT !.pick = t]), UNCHANGED <<row, graded>>
  PROVE  IInv'
<1> DEFINE y == [x EXCEPT !.pick = t]
<1>1. open' = (open \ {x}) \cup {y} /\ Queued(x, t) /\ Unlocked(t, open \ {x})
  BY DEF Step, Selectable
<1>2. x \in Tx /\ Stands(x) /\ x.kind \in Claims
  BY DEF IInv, TypeOK, MaySelect
<1>3. /\ y \in Tx /\ y.session = x.session /\ y.kind = x.kind /\ y.expert = x.expert
      /\ y.pick = t /\ y.reclaimed = x.reclaimed
  BY <1>2 DEF Tx
<1> HIDE DEF y
<1>4. Stands(y)
  BY <1>1, <1>2, <1>3 DEF Stands, Queued, Claims
<1>5. Rows(y) \subseteq Rows(x) \cup {t}
  BY <1>3 DEF Rows
<1>6. ASSUME NEW z \in open \ {x}
      PROVE  z.session # y.session /\ Rows(z) \cap Rows(y) = {}
  BY <1>1, <1>3, <1>5 DEF IInv, LockedOnce, Unlocked
<1> QED
  BY <1>1, <1>3, <1>4, <1>6, StepKeeps

LEMMA PickNextKeeps ==
  ASSUME IInv, NEW x \in open, PickNext(x)
  PROVE  IInv'
<1>1. PICK t \in Eligible(x) : Step(x, [x EXCEPT !.pick = t])
  BY DEF PickNext
<1> QED
  BY <1>1, PickKeeps DEF PickNext, Eligible

LEMMA PickByIdKeeps ==
  ASSUME IInv, NEW x \in open, NEW t \in Tasks, PickById(x, t)
  PROVE  IInv'
BY PickKeeps DEF PickById

LEMMA CommitKeeps ==
  ASSUME IInv, NEW x \in open, Commit(x)
  PROVE  IInv'
<1>1. x \in Tx /\ Stands(x)
  BY DEF IInv, TypeOK
<1>2. x.pick # NoTask => x.pick \in Tasks /\ x.expert \in Experts
  BY <1>1 DEF Commit, Stands, Claims, Tx
<1>3. TypeOK'
  BY <1>2 DEF Commit, IInv, TypeOK, Statuses
<1>4. LeasesHeld'
  BY <1>2 DEF Commit, IInv, TypeOK, LeasesHeld
<1>5. \A t \in Tasks \ Rows(x) :
        /\ status'[t] = status[t] /\ holder'[t] = holder[t]
        /\ live'[t] = live[t] /\ graded'[t] = graded[t]
  BY DEF Commit, Rows
<1>6. open' = open \ {x}
  BY DEF Commit
<1> QED
  BY <1>3, <1>4, <1>5, <1>6, EndKeeps

LEMMA BeginGivingUpKeeps ==
  ASSUME IInv, NEW s \in Sessions, NEW kind \in {"submit", "release"},
         NEW e \in Experts, NEW t \in Tasks, BeginGivingUp(s, kind, e, t)
  PROVE  IInv'
<1> DEFINE y == [session |-> s, kind |-> kind, expert |-> e, reclaimed |-> {},
                 todo |-> {}, pick |-> t]
<1>1. /\ open' = open \cup {y} /\ UNCHANGED <<row, graded>>
      /\ \A x \in open : x.session # s
      /\ Unlocked(t, open) /\ status[t] = "assigned" /\ holder[t] = e
      /\ kind = "submit" => e \notin graded[t]
  BY DEF BeginGivingUp, Idle, HeldBy
<1>2. y \in Tx
  BY DEF Tx, Kinds
<1>3. y.session = s /\ Rows(y) = {t}
  BY DEF Rows
<1>4. Stands(y)
  BY <1>1 DEF Stands, Claims
<1> HIDE DEF y
<1> QED
  BY <1>1, <1>2, <1>3, <1>4, StepKeeps DEF Unlocked

LEMMA GiveUpKeeps ==
  ASSUME IInv, NEW x \in open, GiveUp(x)
  PROVE  IInv'
<1>1. x \in Tx /\ Stands(x)
  BY DEF IInv, TypeOK
<1>2. x.pick \in Tasks /\ x.expert \in Experts
  BY <1>1 DEF GiveUp, Stands, IInv, LeasesHeld
<1>3. PICK new \in {"queued", "out"} : status' = [status EXCEPT ![x.pick] = new]
  BY DEF GiveUp
<1>4. /\ holder' = [holder EXCEPT ![x.pick] = NoOne]
      /\ live' = [live EXCEPT ![x.pick] = FALSE]
      /\ open' = open \ {x}
      /\ graded' = [graded EXCEPT ![x.pick] = @ \cup {x.expert}] \/ graded' = graded
  BY DEF GiveUp
<1>5. TypeOK'
  BY <1>2, <1>3, <1>4 DEF IInv, TypeOK, Statuses
<1>6. LeasesHeld'
  BY <1>2, <1>3, <1>4 DEF IInv, TypeOK, LeasesHeld
<1>7. \A t \in Tasks \ Rows(x) :
        /\ status'[t] = status[t] /\ holder'[t] = holder[t]
        /\ live'[t] = live[t] /\ graded'[t] = graded[t]
  BY <1>2, <1>3, <1>4 DEF Rows, IInv, TypeOK
<1> QED
  BY <1>4, <1>5, <1>6, <1>7, EndKeeps

LEMMA AbortKeeps ==
  ASSUME IInv, NEW x \in open, Abort(x)
  PROVE  IInv'
<1>1. open' = open \ {x} /\ UNCHANGED <<row, graded>>
  BY DEF Abort
<1>2. TypeOK' /\ LeasesHeld'
  BY <1>1 DEF IInv, TypeOK, LeasesHeld, row
<1> QED
  BY <1>1, <1>2, EndKeeps DEF row

LEMMA NextIInv == IInv /\ [Next]_vars => IInv'
<1> SUFFICES ASSUME IInv, [Next]_vars PROVE IInv'
  OBVIOUS
<1>1. ASSUME NEW t \in Tasks, Expire(t) \/ Requeue(t) PROVE IInv'
  BY <1>1, ExpireKeeps, RequeueKeeps
<1>2. ASSUME NEW s \in Sessions,
             (\E kind \in Claims, e \in Experts : Begin(s, kind, e)) \/ Begin(s, "sweep", NoOne)
      PROVE  IInv'
  BY <1>2, BeginKeeps DEF Claims
<1>3. ASSUME NEW s \in Sessions, NEW kind \in {"submit", "release"}, NEW e \in Experts,
             NEW t \in Tasks, BeginGivingUp(s, kind, e, t)
      PROVE  IInv'
  BY <1>3, BeginGivingUpKeeps
<1>4. ASSUME NEW x \in open, NEW t \in Tasks, ReclaimRow(x, t) \/ PickById(x, t)
      PROVE  IInv'
  BY <1>4, ReclaimRowKeeps, PickByIdKeeps
<1>5. ASSUME NEW x \in open, PickNext(x) \/ Commit(x) \/ GiveUp(x) \/ Abort(x)
      PROVE  IInv'
  BY <1>5, PickNextKeeps, CommitKeeps, GiveUpKeeps, AbortKeeps
<1>6. CASE UNCHANGED vars
  <2>1. UNCHANGED <<status, holder, live, graded, open>>
    BY <1>6 DEF vars, row
  <2> QED
    BY <2>1 DEF IInv, TypeOK, LockedOnce, LeasesHeld, Stands, Overdue, Queued, Rows
<1> QED
  BY <1>1, <1>2, <1>3, <1>4, <1>5, <1>6 DEF Next

\* What a transaction has found behind a row lock stands until it ends: the handlers
\* (claim_next, claim_by_id, submit, release) may rely on it.
THEOREM RoutingInvariant == Spec => []IInv
<1>1. Init => IInv
  BY InitIInv
<1>2. IInv /\ [Next]_vars => IInv'
  BY NextIInv
<1> QED
  BY <1>1, <1>2, PTL DEF Spec

-----------------------------------------------------------------------------
(* The leases.                                                             *)

LEMMA LeaseOf ==
  ASSUME NEW t \in Tasks
  PROVE  Lease[t] = IF status[t] = "assigned" THEN [by |-> {holder[t]}, live |-> live[t]]
                    ELSE L!Free
BY DEF Lease, L!Free

LEMMA LeaseOfNext ==
  ASSUME NEW t \in Tasks
  PROVE  Lease'[t] = IF status'[t] = "assigned" THEN [by |-> {holder'[t]}, live |-> live'[t]]
                     ELSE L!Free
BY DEF Lease, L!Free

LEMMA LeasesInit == Init => L!Init
BY DEF Init, L!Init, Lease, L!Free

\* The row of a task does not change, and with it the lease.
LEMMA LeaseStays ==
  ASSUME status' = status, holder' = holder, live' = live
  PROVE  Lease' = Lease
BY DEF Lease

LEMMA LeaseFree ==
  ASSUME TypeOK, NEW t \in Tasks
  PROVE  /\ Lease[t].by = {} <=> status[t] # "assigned"
         /\ status[t] # "assigned" => Lease[t] = L!Free
         /\ Overdue(t) => t \in L!Overdue
         /\ status[t] = "assigned" => Lease[t] = [by |-> {holder[t]}, live |-> live[t]]
<1>1. Lease[t] = IF status[t] = "assigned" THEN [by |-> {holder[t]}, live |-> live[t]]
                 ELSE L!Free
  BY LeaseOf
<1>2. L!Free.by = {}
  BY DEF L!Free
<1> QED
  BY <1>1, <1>2 DEF Overdue, L!Overdue

LEMMA ExpireLeases ==
  ASSUME IInv, NEW t \in Tasks, Expire(t)
  PROVE  L!Expire(t)
<1>1. live[t] /\ live' = [live EXCEPT ![t] = FALSE] /\ UNCHANGED <<status, holder, graded>>
  BY DEF Expire
<1>2. status[t] = "assigned"
  BY <1>1 DEF IInv, LeasesHeld
<1>3. Lease[t].live
  BY <1>1, <1>2 DEF Lease
<1>4. Lease' = [Lease EXCEPT ![t].live = FALSE]
  <2>1. ASSUME NEW u \in Tasks, u # t PROVE Lease'[u] = Lease[u]
    BY <1>1, <2>1 DEF Lease, IInv, TypeOK
  <2>2. Lease'[t] = [by |-> {holder[t]}, live |-> FALSE]
    BY <1>1, <1>2 DEF Lease, IInv, TypeOK
  <2>3. Lease[t] = [by |-> {holder[t]}, live |-> live[t]]
    BY <1>2 DEF Lease
  <2>4. Lease' = [u \in Tasks |-> Lease'[u]] /\ Lease = [u \in Tasks |-> Lease[u]]
    BY DEF Lease
  <2> QED
    BY <2>1, <2>2, <2>3, <2>4
<1> QED
  BY <1>1, <1>3, <1>4 DEF L!Expire

LEMMA RequeueLeases ==
  ASSUME IInv, NEW t \in Tasks, Requeue(t)
  PROVE  UNCHANGED L!vars
<1>1. ASSUME NEW u \in Tasks
      PROVE  status'[u] = status[u] \/ (status[u] # "assigned" /\ status'[u] # "assigned")
  BY DEF Requeue, IInv, TypeOK
<1>2. Lease' = Lease
  BY <1>1 DEF Requeue, Lease
<1> QED
  BY <1>2 DEF Requeue, L!vars

LEMMA CommitLeases ==
  ASSUME IInv, NEW x \in open, Commit(x)
  PROVE  L!Next
<1>1. x \in Tx /\ Stands(x) /\ TypeOK
  BY DEF IInv, TypeOK
<1>2. x.reclaimed \in SUBSET L!Overdue
  BY <1>1, LeaseFree DEF Stands, Tx
<1>3. ASSUME NEW t \in Tasks, t # x.pick
      PROVE  Lease'[t] = IF t \in x.reclaimed THEN L!Free ELSE Lease[t]
  <2>1. CASE t \in x.reclaimed
    BY <1>3, <2>1, LeaseOfNext DEF Commit
  <2>2. CASE t \notin x.reclaimed
    BY <1>3, <2>2, LeaseOf, LeaseOfNext DEF Commit
  <2> QED
    BY <2>1, <2>2
<1>4. Lease' = [t \in Tasks |-> Lease'[t]] /\ graded' = graded
  BY DEF Lease, Commit
<1>5. CASE x.pick = NoTask
  <2>1. Lease' = [t \in Tasks |-> IF t \in x.reclaimed THEN L!Free ELSE Lease[t]]
    BY <1>3, <1>4, <1>5
  <2>2. L!Reclaim(x.reclaimed)
    BY <1>4, <2>1 DEF L!Reclaim
  <2> QED
    BY <1>2, <2>2 DEF L!Next
<1>6. CASE x.pick # NoTask
  <2>1. x.pick \in Tasks /\ x.expert \in Experts /\ Queued(x, x.pick)
    BY <1>1, <1>6 DEF Commit, Stands, Claims, Tx
  <2>2. Lease'[x.pick] = [by |-> {x.expert}, live |-> TRUE]
    BY <2>1, LeaseOfNext DEF Commit
  <2>3. Lease[x.pick] = L!Free \/ x.pick \in x.reclaimed
    BY <1>1, <2>1, LeaseFree DEF Queued
  <2>4. Lease' = [t \in Tasks |-> IF t = x.pick THEN [by |-> {x.expert}, live |-> TRUE]
                                  ELSE IF t \in x.reclaimed THEN L!Free ELSE Lease[t]]
    BY <1>3, <1>4, <2>2
  <2>5. L!Serve(x.reclaimed, x.expert, x.pick)
    BY <1>4, <2>3, <2>4 DEF L!Serve
  <2> QED
    BY <1>2, <2>1, <2>5 DEF L!Next
<1> QED
  BY <1>5, <1>6

LEMMA GiveUpLeases ==
  ASSUME IInv, NEW x \in open, GiveUp(x)
  PROVE  L!Next
<1>1. x \in Tx /\ Stands(x) /\ TypeOK
  BY DEF IInv, TypeOK
<1>2. /\ x.pick \in Tasks /\ status[x.pick] = "assigned" /\ holder[x.pick] = x.expert
      /\ x.expert \in Experts
      /\ x.kind = "submit" => x.expert \notin graded[x.pick]
  BY <1>1 DEF GiveUp, Stands, IInv, LeasesHeld
<1>3. PICK new \in {"queued", "out"} : status' = [status EXCEPT ![x.pick] = new]
  BY DEF GiveUp
<1>4. ASSUME NEW t \in Tasks
      PROVE  Lease'[t] = IF t = x.pick THEN L!Free ELSE Lease[t]
  <2>1. CASE t = x.pick
    BY <1>1, <1>2, <1>3, <2>1, LeaseOfNext DEF TypeOK
  <2>2. CASE t # x.pick
    BY <1>1, <1>2, <1>3, <2>2, LeaseOf, LeaseOfNext DEF TypeOK, GiveUp
  <2> QED
    BY <2>1, <2>2
<1>5. Lease' = [t \in Tasks |-> Lease'[t]] /\ Lease = [t \in Tasks |-> Lease[t]]
  BY DEF Lease
<1>6. Lease' = [Lease EXCEPT ![x.pick] = L!Free]
  BY <1>4, <1>5
<1>7. Lease[x.pick].by = {x.expert}
  <2>1. Lease[x.pick] = [by |-> {holder[x.pick]}, live |-> live[x.pick]]
    BY <1>1, <1>2, LeaseFree
  <2> QED
    BY <1>2, <2>1
<1>8. CASE x.kind = "submit"
  <2>1. L!Grade(x.expert, x.pick)
    BY <1>2, <1>6, <1>7, <1>8 DEF L!Grade, GiveUp
  <2> QED
    BY <1>2, <2>1 DEF L!Next
<1>9. CASE x.kind = "release"
  <2>1. L!GiveBack(x.expert, x.pick)
    BY <1>6, <1>7, <1>9 DEF L!GiveBack, GiveUp
  <2> QED
    BY <1>2, <2>1 DEF L!Next
<1> QED
  BY <1>8, <1>9 DEF GiveUp

\* A step that changes no row changes no lease.
LEMMA OtherLeases ==
  ASSUME UNCHANGED <<row, graded>>
  PROVE  UNCHANGED L!vars
BY LeaseStays DEF row, L!vars

LEMMA NextLeases == IInv /\ [Next]_vars => [L!Next]_(L!vars)
<1> SUFFICES ASSUME IInv, [Next]_vars PROVE L!Next \/ UNCHANGED L!vars
  OBVIOUS
<1>1. ASSUME NEW t \in Tasks, Expire(t) PROVE L!Next
  BY <1>1, ExpireLeases DEF L!Next
<1>2. ASSUME NEW t \in Tasks, Requeue(t) PROVE UNCHANGED L!vars
  BY <1>2, RequeueLeases
<1>3. ASSUME NEW s \in Sessions,
             \/ \E kind \in Claims, e \in Experts : Begin(s, kind, e)
             \/ Begin(s, "sweep", NoOne)
             \/ \E kind \in {"submit", "release"}, e \in Experts, t \in Tasks :
                  BeginGivingUp(s, kind, e, t)
      PROVE  UNCHANGED <<row, graded>>
  BY <1>3 DEF Begin, BeginGivingUp
<1>4. ASSUME NEW x \in open,
             \/ \E t \in Tasks : ReclaimRow(x, t) \/ PickById(x, t)
             \/ PickNext(x) \/ Abort(x)
      PROVE  UNCHANGED <<row, graded>>
  BY <1>4 DEF ReclaimRow, PickById, PickNext, Abort
<1>5. ASSUME NEW x \in open, Commit(x) \/ GiveUp(x) PROVE L!Next
  BY <1>5, CommitLeases, GiveUpLeases
<1>6. CASE UNCHANGED vars
  BY <1>6, OtherLeases DEF vars
<1> QED
  BY <1>1, <1>2, <1>3, <1>4, <1>5, <1>6, OtherLeases DEF Next

\* The statements and their locks implement the leases: a task is leased to one expert at
\* a time, however the claims, sweeps and submissions interleave (claim_next,
\* claim_by_id, reclaim_expired, release, submit).
THEOREM LeasesImplemented == Spec => LeasesSpec
<1>1. IInv /\ [Next]_vars => [L!Next]_(L!vars)
  BY NextLeases
<1> QED
  BY <1>1, LeasesInit, RoutingInvariant, PTL DEF Spec, LeasesSpec, L!Spec

-----------------------------------------------------------------------------
(* Action properties.                                                      *)

\* A live lease is never reclaimed: only its holder ends it (reclaim_expired).
THEOREM LiveLeases == Spec => LiveLeaseKept
<1> DEFINE Kept == \A t \in Tasks : live[t] /\ status'[t] # "assigned" =>
             \E x \in open \ open' :
               x.kind \in {"submit", "release"} /\ x.pick = t /\ x.expert = holder[t]
<1>1. IInv /\ Next => Kept
  <2> SUFFICES ASSUME IInv, Next, NEW t \in Tasks, live[t], status'[t] # "assigned"
               PROVE  \E x \in open \ open' :
                        x.kind \in {"submit", "release"} /\ x.pick = t /\ x.expert = holder[t]
    OBVIOUS
  <2>1. status[t] = "assigned" /\ TypeOK
    BY DEF IInv, LeasesHeld
  <2>2. status' # status
    BY <2>1
  <2>3. ASSUME NEW u \in Tasks, Requeue(u) PROVE FALSE
    BY <2>1, <2>3 DEF Requeue, TypeOK
  <2>4. ASSUME NEW x \in open, Commit(x) PROVE FALSE
    <3>1. t # x.pick /\ t \in x.reclaimed
      BY <2>1, <2>4 DEF Commit
    <3>2. Stands(x)
      BY DEF IInv
    <3> QED
      BY <3>1, <3>2 DEF Stands, Overdue
  <2>5. ASSUME NEW x \in open, GiveUp(x)
        PROVE  x \in open \ open' /\ x.kind \in {"submit", "release"} /\ x.pick = t
               /\ x.expert = holder[t]
    <3>1. x.pick = t
      BY <2>1, <2>5 DEF GiveUp, TypeOK
    <3>2. Stands(x)
      BY DEF IInv
    <3> QED
      BY <2>5, <3>1, <3>2 DEF GiveUp, Stands
  <2>6. \E x \in open : GiveUp(x)
    BY <2>2, <2>3, <2>4 DEF Next, Expire, Begin, BeginGivingUp, ReclaimRow, PickNext,
       PickById, Abort, row
  <2> QED
    BY <2>5, <2>6
<1>2. IInv /\ [Next]_vars => [Kept]_vars
  BY <1>1
<1> QED
  BY <1>2, RoutingInvariant, PTL DEF Spec, LiveLeaseKept

\* claim_next never serves a task to an expert who has graded it, whatever requests of
\* theirs are under way (_eligibility).
THEOREM NeverServedTwice == Spec => NextServesNew
<1> DEFINE New == \A x \in open \ open' : x.kind = "next" /\ x.pick # NoTask =>
                    x.expert \notin graded[x.pick]
<1>1. IInv => New
  BY DEF IInv, Stands
<1>2. IInv /\ [Next]_vars => [New]_vars
  BY <1>1
<1> QED
  BY <1>2, RoutingInvariant, PTL DEF Spec, NextServesNew
==============================================================================
