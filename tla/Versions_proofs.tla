---------------------------- MODULE Versions_proofs ----------------------------
(***************************************************************************)
(* Proofs about what comes in versions.  The rubric: for every set of      *)
(* tasks, every number of grades that they take, and every number of       *)
(* versions.  The dataset: for any tasks, experts and tiers, and any       *)
(* number of exports that overlap, fail or are cut off by a crash.         *)
(***************************************************************************)
EXTENDS Rubrics, MCDelivery, Sequences, FiniteSetTheorems, TLAPS

-----------------------------------------------------------------------------
(* Rubrics.  The invariant: what an open creation has read, and what a     *)
(* task has been graded against.                                           *)

\* A task that is being created is absent, its version exists, and no one else creates it.
CreatingAbsent ==
  /\ \A x \in creating : state[x.task] = "absent" /\ x.version \in 1 .. latest
  /\ \A x, y \in creating : x.task = y.task => x = y

PublishingKnown == \A x \in publishing : x.from \in 1 .. latest /\ x.seen \in 1 .. latest

\* The grades of a task are of its version; a task without grades may change it.
GradedAgainst ==
  \A t \in Tasks :
    /\ graded[t] \subseteq {rubric[t]}
    /\ received[t] = 0 \/ state[t] = "absent" => graded[t] = {}
    /\ state[t] # "absent" => rubric[t] # 0

\* The expert who holds a task was shown the version that the task is on.
AssignedPinned == \A t \in Tasks : state[t] = "assigned" => pinned[t] = rubric[t]

IInv == TypeOK /\ CreatingAbsent /\ PublishingKnown /\ GradedAgainst /\ AssignedPinned

LEMMA InitIInv == Init => IInv
<1> SUFFICES ASSUME Init PROVE IInv
  OBVIOUS
<1>1. TypeOK
  <2>1. made \in [Versions -> MadeFrom]
    <3>1. [from |-> 0, seen |-> 0] \in MadeFrom
      BY RubricsAssumption DEF RubricsAssumption, MadeFrom
    <3> QED
      BY <3>1 DEF Init
  <2> QED
    BY <2>1, RubricsAssumption DEF RubricsAssumption, Init, TypeOK, Versions, States
<1> QED
  BY <1>1 DEF Init, IInv, CreatingAbsent, PublishingKnown, GradedAgainst, AssignedPinned

\* A step that changes nothing but the open transactions.
LEMMA OpenIInv ==
  ASSUME IInv, UNCHANGED <<latest, successor, state, received, rubric, pinned, graded, made>>,
         publishing' \subseteq PublishTx, creating' \subseteq CreateTx,
         \A x \in publishing' :
           x \in publishing \/ (x.from \in 1 .. latest /\ x.seen \in 1 .. latest),
         \A x \in creating' :
           x \in creating \/ (state[x.task] = "absent" /\ x.version \in 1 .. latest),
         \A x, y \in creating' : x.task = y.task => x = y
  PROVE  IInv'
<1>1. TypeOK'
  BY DEF IInv, TypeOK
<1>2. CreatingAbsent' /\ PublishingKnown'
  BY DEF IInv, CreatingAbsent, PublishingKnown
<1>3. GradedAgainst' /\ AssignedPinned'
  BY DEF IInv, GradedAgainst, AssignedPinned
<1> QED
  BY <1>1, <1>2, <1>3 DEF IInv

LEMMA BeginPublishIInv ==
  ASSUME IInv, NEW i \in 1 .. MaxPublishing, NEW v \in Versions, BeginPublish(i, v)
  PROVE  IInv'
<1> DEFINE n == [id |-> i, from |-> v, seen |-> latest]
<1>1. /\ publishing' = publishing \cup {n} /\ v <= latest
      /\ UNCHANGED <<latest, successor, state, received, rubric, pinned, graded, creating, made>>
  BY DEF BeginPublish, Current, taskVars
<1>2. /\ n \in PublishTx /\ n.from = v /\ v \in 1 .. latest
      /\ n.seen = latest /\ latest \in 1 .. latest
  BY <1>1 DEF PublishTx, Versions, IInv, TypeOK
<1>3. /\ publishing \subseteq PublishTx /\ creating \subseteq CreateTx
      /\ \A x, y \in creating : x.task = y.task => x = y
  BY DEF IInv, TypeOK, CreatingAbsent
<1> HIDE DEF n
<1> QED
  BY <1>1, <1>2, <1>3, OpenIInv

LEMMA BeginCreateIInv ==
  ASSUME IInv, NEW t \in Tasks, NEW v \in Versions, BeginCreate(t, v)
  PROVE  IInv'
<1> DEFINE n == [task |-> t, version |-> v]
<1>1. /\ creating' = creating \cup {n} /\ v <= latest /\ state[t] = "absent"
      /\ \A x \in creating : x.task # t
      /\ UNCHANGED <<latest, successor, state, received, rubric, pinned, graded, publishing,
                     made>>
  BY DEF BeginCreate, Current, taskVars
<1>2. n \in CreateTx /\ n.task = t /\ n.version = v /\ v \in 1 .. latest
  BY <1>1 DEF CreateTx, Versions, IInv, TypeOK
<1>3. /\ publishing \subseteq PublishTx /\ creating \subseteq CreateTx
      /\ \A x, y \in creating : x.task = y.task => x = y
  BY DEF IInv, TypeOK, CreatingAbsent
<1> HIDE DEF n
<1> QED
  BY <1>1, <1>2, <1>3, OpenIInv

\* A publication moves only tasks that wait without a grade: no one has been shown the
\* version they were on, or it is shown again when they are claimed.
LEMMA FinishPublishIInv ==
  ASSUME IInv, NEW x \in publishing, FinishPublish(x)
  PROVE  IInv'
<1>1. /\ TypeOK /\ x.from \in Versions /\ x.seen \in Versions /\ x.from \in 1 .. latest
      /\ latest \in Nat /\ latest < MaxVersions
  <2>1. TypeOK /\ x.from \in 1 .. latest
    BY DEF IInv, PublishingKnown
  <2>2. x \in PublishTx /\ latest \in Versions
    BY <2>1 DEF TypeOK
  <2>3. x.from \in Versions /\ x.seen \in Versions /\ latest \in Nat
    BY <2>2 DEF PublishTx, Versions
  <2>4. latest < MaxVersions
    BY DEF FinishPublish
  <2> QED
    BY <2>1, <2>3, <2>4
<1>2. /\ publishing' = publishing \ {x}
      /\ latest' = latest + 1
      /\ successor' = [successor EXCEPT ![x.from] = latest + 1]
      /\ made' = [made EXCEPT ![latest + 1] = [from |-> x.from, seen |-> x.seen]]
      /\ rubric' = [t \in Tasks |-> IF t \in Movable(x.from) THEN latest + 1 ELSE rubric[t]]
      /\ UNCHANGED <<state, received, pinned, graded, creating>>
  BY DEF FinishPublish, Superseded
<1>3. \A y : y \in 0 .. latest => y \in 0 .. latest'
  BY <1>1, <1>2
<1>4. \A y : y \in 1 .. latest => y \in 1 .. latest'
  BY <1>1, <1>2
<1>5. TypeOK'
  <2>1. latest' \in Versions /\ latest + 1 \in 0 .. latest'
    BY <1>1, <1>2, RubricsAssumption DEF RubricsAssumption, Versions
  <2>2. successor' \in [Versions -> 0 .. latest'] /\ rubric' \in [Tasks -> 0 .. latest']
    BY <1>1, <1>2, <1>3, <2>1 DEF TypeOK
  <2>3. pinned' \in [Tasks -> 0 .. latest'] /\ graded' \in [Tasks -> SUBSET (1 .. latest')]
    BY <1>1, <1>2, <1>3, <1>4 DEF TypeOK
  <2>4. made' \in [Versions -> MadeFrom]
    <3>1. [from |-> x.from, seen |-> x.seen] \in MadeFrom
      BY <1>1 DEF MadeFrom, Versions
    <3> QED
      BY <1>1, <1>2, <3>1 DEF TypeOK
  <2> QED
    BY <1>1, <1>2, <2>1, <2>2, <2>3, <2>4 DEF TypeOK
<1>6. CreatingAbsent' /\ PublishingKnown'
  BY <1>2, <1>4 DEF IInv, CreatingAbsent, PublishingKnown
<1>7. GradedAgainst'
  BY <1>1, <1>2 DEF IInv, GradedAgainst, Movable
<1>8. AssignedPinned'
  BY <1>2 DEF IInv, AssignedPinned, Movable
<1> QED
  BY <1>5, <1>6, <1>7, <1>8 DEF IInv

\* A task is created on the version that was found current, superseded or not by now.
LEMMA FinishCreateIInv ==
  ASSUME IInv, NEW x \in creating, FinishCreate(x)
  PROVE  IInv'
<1>1. /\ TypeOK /\ x.task \in Tasks /\ x.version \in 1 .. latest /\ state[x.task] = "absent"
      /\ latest \in Nat
  <2>1. TypeOK /\ CreatingAbsent
    BY DEF IInv
  <2>2. x \in CreateTx /\ latest \in Nat
    BY <2>1 DEF TypeOK, Versions
  <2>3. x.task \in Tasks
    BY <2>2 DEF CreateTx
  <2> QED
    BY <2>1, <2>2, <2>3 DEF CreatingAbsent
<1>2. /\ creating' = creating \ {x}
      /\ state' = [state EXCEPT ![x.task] = "queued"]
      /\ rubric' = [rubric EXCEPT ![x.task] = x.version]
      /\ UNCHANGED <<latest, successor, received, pinned, graded, publishing, made>>
  BY DEF FinishCreate
<1>3. TypeOK'
  BY <1>1, <1>2 DEF TypeOK, States
<1>4. CreatingAbsent' /\ PublishingKnown'
  BY <1>1, <1>2 DEF IInv, CreatingAbsent, PublishingKnown, TypeOK
<1>5. GradedAgainst'
  <2> SUFFICES ASSUME NEW t \in Tasks
               PROVE  /\ graded'[t] \subseteq {rubric'[t]}
                      /\ received'[t] = 0 \/ state'[t] = "absent" => graded'[t] = {}
                      /\ state'[t] # "absent" => rubric'[t] # 0
    BY DEF GradedAgainst
  <2>1. CASE t = x.task
    BY <1>1, <1>2, <2>1 DEF IInv, GradedAgainst, TypeOK
  <2>2. CASE t # x.task
    BY <1>1, <1>2, <2>2 DEF IInv, GradedAgainst, TypeOK
  <2> QED
    BY <2>1, <2>2
<1>6. AssignedPinned'
  BY <1>1, <1>2 DEF IInv, AssignedPinned, TypeOK
<1> QED
  BY <1>3, <1>4, <1>5, <1>6 DEF IInv

\* A claim pins the version that the task is on, and it is on one.
LEMMA ClaimIInv ==
  ASSUME IInv, NEW t \in Tasks, Claim(t)
  PROVE  IInv'
<1>1. /\ state[t] = "queued"
      /\ state' = [state EXCEPT ![t] = "assigned"]
      /\ pinned' = [pinned EXCEPT ![t] = rubric[t]]
      /\ UNCHANGED <<latest, successor, received, rubric, graded, publishing, creating, made>>
  BY DEF Claim
<1>2. TypeOK /\ CreatingAbsent /\ PublishingKnown /\ GradedAgainst /\ AssignedPinned
  BY DEF IInv
<1>3. TypeOK'
  BY <1>1, <1>2 DEF TypeOK, States
<1>4. \A x \in creating : state'[x.task] = state[x.task]
  BY <1>1, <1>2 DEF CreatingAbsent, TypeOK
<1>5. CreatingAbsent' /\ PublishingKnown'
  BY <1>1, <1>2, <1>4 DEF CreatingAbsent, PublishingKnown
<1>6. GradedAgainst' /\ AssignedPinned'
  BY <1>1, <1>2 DEF GradedAgainst, AssignedPinned, TypeOK
<1> QED
  BY <1>3, <1>5, <1>6 DEF IInv

LEMMA ReturnIInv ==
  ASSUME IInv, NEW t \in Tasks, Return(t)
  PROVE  IInv'
<1>1. /\ state[t] = "assigned"
      /\ state' = [state EXCEPT ![t] = "queued"]
      /\ UNCHANGED <<latest, successor, received, rubric, pinned, graded, publishing, creating,
                     made>>
  BY DEF Return
<1>2. TypeOK /\ CreatingAbsent /\ PublishingKnown /\ GradedAgainst /\ AssignedPinned
  BY DEF IInv
<1>3. TypeOK'
  BY <1>1, <1>2 DEF TypeOK, States
<1>4. \A x \in creating : state'[x.task] = state[x.task]
  BY <1>1, <1>2 DEF CreatingAbsent, TypeOK
<1>5. CreatingAbsent' /\ PublishingKnown'
  BY <1>1, <1>2, <1>4 DEF CreatingAbsent, PublishingKnown
<1>6. GradedAgainst' /\ AssignedPinned'
  BY <1>1, <1>2 DEF GradedAgainst, AssignedPinned, TypeOK
<1> QED
  BY <1>3, <1>5, <1>6 DEF IInv

\* The grade joins grades of the version that its expert was shown.
LEMMA SubmitIInv ==
  ASSUME IInv, NEW t \in Tasks, Submit(t)
  PROVE  IInv' /\ pinned[t] \in graded'[t]
<1>1. /\ state[t] = "assigned"
      /\ received' = [received EXCEPT ![t] = @ + 1]
      /\ graded' = [graded EXCEPT ![t] = @ \cup {GradedVersion(t)}]
      /\ state' = [state EXCEPT ![t] =
                     IF received[t] + 1 < Required[t] THEN "queued" ELSE "complete"]
      /\ UNCHANGED <<latest, successor, rubric, pinned, publishing, creating, made>>
  BY DEF Submit
<1>2. TypeOK /\ CreatingAbsent /\ PublishingKnown /\ GradedAgainst /\ AssignedPinned
  BY DEF IInv
<1>3. pinned[t] = rubric[t] /\ rubric[t] # 0 /\ GradedVersion(t) = rubric[t]
  BY <1>1, <1>2 DEF AssignedPinned, GradedAgainst, GradedVersion
<1>4. rubric[t] \in 1 .. latest
  BY <1>2, <1>3 DEF TypeOK, Versions
<1>5. TypeOK'
  <2>1. received' \in [Tasks -> Nat] /\ state' \in [Tasks -> States]
    BY <1>1, <1>2 DEF TypeOK, States
  <2>2. graded' \in [Tasks -> SUBSET (1 .. latest)]
    BY <1>1, <1>2, <1>3, <1>4 DEF TypeOK
  <2> QED
    BY <1>1, <1>2, <2>1, <2>2 DEF TypeOK
<1>6. \A x \in creating : state'[x.task] = state[x.task]
  BY <1>1, <1>2 DEF CreatingAbsent, TypeOK
<1>7. CreatingAbsent' /\ PublishingKnown'
  BY <1>1, <1>2, <1>6 DEF CreatingAbsent, PublishingKnown
<1>8. GradedAgainst'
  <2> SUFFICES ASSUME NEW u \in Tasks
               PROVE  /\ graded'[u] \subseteq {rubric'[u]}
                      /\ received'[u] = 0 \/ state'[u] = "absent" => graded'[u] = {}
                      /\ state'[u] # "absent" => rubric'[u] # 0
    BY DEF GradedAgainst
  <2>1. CASE u = t
    BY <1>1, <1>2, <1>3, <2>1 DEF GradedAgainst, TypeOK
  <2>2. CASE u # t
    BY <1>1, <1>2, <2>2 DEF GradedAgainst, TypeOK
  <2> QED
    BY <2>1, <2>2
<1>9. AssignedPinned'
  BY <1>1, <1>2 DEF AssignedPinned, TypeOK
<1>10. pinned[t] \in graded'[t]
  BY <1>1, <1>2, <1>3 DEF TypeOK
<1> QED
  BY <1>5, <1>7, <1>8, <1>9, <1>10 DEF IInv

LEMMA RequeueIInv ==
  ASSUME IInv, NEW t \in Tasks, Requeue(t)
  PROVE  IInv'
<1>1. /\ state[t] = "complete"
      /\ state' = [state EXCEPT ![t] = "queued"]
      /\ received' = [received EXCEPT ![t] = 0]
      /\ graded' = [graded EXCEPT ![t] = {}]
      /\ UNCHANGED <<latest, successor, rubric, pinned, publishing, creating, made>>
  BY DEF Requeue
<1>2. TypeOK /\ CreatingAbsent /\ PublishingKnown /\ GradedAgainst /\ AssignedPinned
  BY DEF IInv
<1>3. TypeOK'
  BY <1>1, <1>2 DEF TypeOK, States
<1>4. \A x \in creating : state'[x.task] = state[x.task]
  BY <1>1, <1>2 DEF CreatingAbsent, TypeOK
<1>5. CreatingAbsent' /\ PublishingKnown'
  BY <1>1, <1>2, <1>4 DEF CreatingAbsent, PublishingKnown
<1>6. GradedAgainst' /\ AssignedPinned'
  BY <1>1, <1>2 DEF GradedAgainst, AssignedPinned, TypeOK
<1> QED
  BY <1>3, <1>5, <1>6 DEF IInv

LEMMA NextIInv == IInv /\ [Next]_vars => IInv'
<1> SUFFICES ASSUME IInv, [Next]_vars PROVE IInv'
  OBVIOUS
<1>1. CASE \E i \in 1 .. MaxPublishing, v \in Versions : BeginPublish(i, v)
  BY <1>1, BeginPublishIInv
<1>2. ASSUME NEW x \in publishing, FinishPublish(x) PROVE IInv'
  BY <1>2, FinishPublishIInv
<1>3. CASE \E t \in Tasks, v \in Versions : BeginCreate(t, v)
  BY <1>3, BeginCreateIInv
<1>4. ASSUME NEW x \in creating, FinishCreate(x) PROVE IInv'
  BY <1>4, FinishCreateIInv
<1>5. ASSUME \/ \E x \in publishing : RollbackPublish(x)
             \/ \E x \in creating : RollbackCreate(x)
             \/ UNCHANGED vars
      PROVE  IInv'
  <2>1. /\ UNCHANGED <<latest, successor, state, received, rubric, pinned, graded, made>>
        /\ publishing' \subseteq publishing /\ creating' \subseteq creating
    BY <1>5 DEF RollbackPublish, RollbackCreate, vars, taskVars
  <2>2. /\ publishing \subseteq PublishTx /\ creating \subseteq CreateTx
        /\ \A x, y \in creating : x.task = y.task => x = y
    BY DEF IInv, TypeOK, CreatingAbsent
  <2> QED
    BY <2>1, <2>2, OpenIInv
<1>6. ASSUME NEW t \in Tasks, Claim(t) \/ Return(t) \/ Submit(t) \/ Requeue(t)
      PROVE  IInv'
  BY <1>6, ClaimIInv, ReturnIInv, SubmitIInv, RequeueIInv
<1> QED
  BY <1>1, <1>2, <1>3, <1>4, <1>5, <1>6 DEF Next

\* Every version that a task, a grade or an open transaction refers to exists, and the
\* grades of a task are of the version that the task is on.
THEOREM RubricInvariant == Spec => []IInv
BY InitIInv, NextIInv, PTL DEF Spec

-----------------------------------------------------------------------------
(* What graders see.                                                       *)

LEMMA GradedAgainstOne == IInv => OneVersionPerTask
<1> SUFFICES ASSUME IInv, NEW t \in Tasks PROVE Cardinality(graded[t]) <= 1
  BY DEF OneVersionPerTask
<1>1. graded[t] \subseteq {rubric[t]}
  BY DEF IInv, GradedAgainst
<1>2. IsFiniteSet({rubric[t]}) /\ Cardinality({rubric[t]}) = 1
  BY FS_Singleton
<1>3. Cardinality(graded[t]) <= Cardinality({rubric[t]})
  BY <1>1, <1>2, FS_Subset
<1> QED
  BY <1>2, <1>3

\* The grades that a consensus round compares are all of one version, however many
\* versions are published, by however many open publications (publish, submit).
THEOREM RoundsCompareOneVersion == Spec => []OneVersionPerTask
<1>1. IInv => OneVersionPerTask
  BY GradedAgainstOne
<1> QED
  BY <1>1, RubricInvariant, PTL

ShownStep ==
  \A t \in Tasks : state[t] = "assigned" =>
    /\ state'[t] = "assigned" => pinned'[t] = pinned[t]
    /\ received'[t] > received[t] => pinned[t] \in graded'[t]

LEMMA NextShown == IInv /\ [Next]_vars => ShownStep
<1> SUFFICES ASSUME IInv, [Next]_vars, NEW t \in Tasks, state[t] = "assigned"
             PROVE  /\ state'[t] = "assigned" => pinned'[t] = pinned[t]
                    /\ received'[t] > received[t] => pinned[t] \in graded'[t]
  BY DEF ShownStep
<1>1. TypeOK
  BY DEF IInv
<1>2. ASSUME UNCHANGED <<received, pinned>> PROVE
      pinned'[t] = pinned[t] /\ ~(received'[t] > received[t])
  BY <1>1, <1>2 DEF TypeOK
<1>3. CASE \/ \E i \in 1 .. MaxPublishing, v \in Versions : BeginPublish(i, v)
           \/ \E x \in publishing : FinishPublish(x) \/ RollbackPublish(x)
           \/ \E u \in Tasks, v \in Versions : BeginCreate(u, v)
           \/ \E x \in creating : FinishCreate(x) \/ RollbackCreate(x)
           \/ \E u \in Tasks : Return(u)
           \/ UNCHANGED vars
  <2>1. UNCHANGED <<received, pinned>>
    BY <1>3 DEF BeginPublish, FinishPublish, RollbackPublish, BeginCreate, FinishCreate,
                RollbackCreate, Return, vars, taskVars
  <2> QED
    BY <1>2, <2>1
<1>4. ASSUME NEW u \in Tasks, Claim(u)
      PROVE  pinned'[t] = pinned[t] /\ ~(received'[t] > received[t])
  BY <1>1, <1>4 DEF Claim, TypeOK
<1>5. ASSUME NEW u \in Tasks, Submit(u)
      PROVE  /\ state'[t] = "assigned" => pinned'[t] = pinned[t]
             /\ received'[t] > received[t] => pinned[t] \in graded'[t]
  <2>1. pinned'[t] = pinned[t] /\ received' = [received EXCEPT ![u] = @ + 1]
    BY <1>5 DEF Submit
  <2>2. CASE u = t
    BY <1>5, <2>1, <2>2, SubmitIInv
  <2>3. CASE u # t
    <3>1. received'[t] = received[t]
      BY <1>1, <2>1, <2>3 DEF TypeOK
    <3> QED
      BY <1>1, <2>1, <3>1 DEF TypeOK
  <2> QED
    BY <2>2, <2>3
<1>6. ASSUME NEW u \in Tasks, Requeue(u)
      PROVE  pinned'[t] = pinned[t] /\ ~(received'[t] > received[t])
  <2>1. u # t
    BY <1>6 DEF Requeue
  <2> QED
    BY <1>1, <1>6, <2>1 DEF Requeue, TypeOK
<1> QED
  BY <1>3, <1>4, <1>5, <1>6 DEF Next

\* An expert grades the version they were shown: no publication changes the pin of a
\* claimed task, and the grade is of that version (_assign, submit).
THEOREM ShownVersionIsGraded == Spec => ShownIsGraded
<1>1. IInv /\ [Next]_vars => [ShownStep]_vars
  BY NextShown
<1> QED
  BY <1>1, RubricInvariant, PTL DEF Spec, ShownIsGraded, ShownStep

-----------------------------------------------------------------------------
(* The chain of the versions, however many publications overlap.           *)

\* A version that is not published is not superseded, and whatever was published from the
\* version that an open publication has loaded came after it was loaded.
ChainInv ==
  /\ Chain
  /\ \A v \in Versions : v > latest => successor[v] = 0
  /\ \A x \in publishing : \A v \in 2 .. latest : made[v].from = x.from => x.seen < v

LEMMA InitChain == Init => ChainInv
<1> SUFFICES ASSUME Init PROVE ChainInv
  OBVIOUS
<1>1. TypeOK /\ latest = 1 /\ successor[1] = 0 /\ 2 .. latest = {} /\ publishing = {}
  BY InitIInv, RubricsAssumption DEF RubricsAssumption, IInv, Init, Versions
<1>2. \A v \in Versions : successor[v] = 0
  BY DEF Init
<1> QED
  BY <1>1, <1>2 DEF ChainInv, Chain, Current

LEMMA ChainKept ==
  ASSUME ChainInv, TypeOK', UNCHANGED <<latest, successor, made>>,
         publishing' \subseteq publishing
  PROVE  ChainInv'
BY DEF ChainInv, Chain, Current, Siblings

\* From a version that is found current none has been published.
LEMMA BeginPublishChain ==
  ASSUME ChainInv, IInv, IInv', NEW i \in 1 .. MaxPublishing, NEW u \in Versions,
         BeginPublish(i, u)
  PROVE  ChainInv'
<1> DEFINE n == [id |-> i, from |-> u, seen |-> latest]
<1>1. /\ publishing' = publishing \cup {n} /\ n.from = u
      /\ successor[u] = 0
      /\ UNCHANGED <<latest, successor, made>>
  BY DEF BeginPublish, Current
<1> HIDE DEF n
<1>2. \A v \in 2 .. latest : v <= successor[made[v].from]
  BY DEF ChainInv, Chain
<1>3. \A v \in 2 .. latest : made[v].from # u
  BY <1>1, <1>2
<1>4. Chain'
  BY <1>1 DEF ChainInv, Chain, IInv, Current, Siblings
<1> QED
  BY <1>1, <1>3, <1>4 DEF ChainInv

\* A publication adds one version, and supersedes the one it has loaded.
LEMMA FinishPublishChain ==
  ASSUME ChainInv, IInv, IInv', NEW x \in publishing, FinishPublish(x)
  PROVE  ChainInv'
<1>1. /\ latest' = latest + 1 /\ publishing' = publishing \ {x}
      /\ successor' = [successor EXCEPT ![x.from] = latest + 1]
      /\ made' = [made EXCEPT ![latest + 1] = [from |-> x.from, seen |-> x.seen]]
  BY DEF FinishPublish, Superseded
<1>2. /\ latest \in Nat /\ latest >= 1 /\ latest + 1 \in Versions
      /\ \A v \in 1 .. latest + 1 : v \in Versions
      /\ successor \in [Versions -> 0 .. latest] /\ made \in [Versions -> MadeFrom]
      /\ x.from \in 1 .. latest /\ x.seen \in 1 .. latest /\ TypeOK'
      /\ \A y \in publishing : y.seen \in 1 .. latest
  <2>1. /\ latest \in 1 .. MaxVersions /\ latest' \in 1 .. MaxVersions
        /\ successor \in [Versions -> 0 .. latest] /\ made \in [Versions -> MadeFrom] /\ TypeOK'
    BY DEF IInv, TypeOK, Versions
  <2>2. \A y \in publishing : y.from \in 1 .. latest /\ y.seen \in 1 .. latest
    BY DEF IInv, PublishingKnown
  <2>3. MaxVersions \in Nat /\ latest \in Nat /\ latest >= 1
    BY <2>1, RubricsAssumption DEF RubricsAssumption
  <2>4. latest + 1 \in 1 .. MaxVersions /\ \A v \in 1 .. latest + 1 : v \in 1 .. MaxVersions
    BY <1>1, <2>1, <2>3
  <2>5. x.from \in 1 .. latest /\ x.seen \in 1 .. latest
    BY <2>2
  <2> QED
    BY <2>1, <2>2, <2>3, <2>4, <2>5 DEF Versions
<1>3. /\ made'[latest + 1].from = x.from /\ made'[latest + 1].seen = x.seen
      /\ \A v \in 1 .. latest : made'[v] = made[v]
  BY <1>1, <1>2
<1>4. /\ successor'[x.from] = latest + 1
      /\ \A v \in Versions : v # x.from => successor'[v] = successor[v]
  BY <1>1, <1>2
<1>5. Current(latest)'
  <2>1. latest + 1 # x.from /\ latest + 1 > latest
    BY <1>2
  <2>2. successor'[latest + 1] = 0
    BY <1>2, <1>4, <2>1 DEF ChainInv
  <2> QED
    BY <1>1, <1>2, <2>2 DEF Current
<1>6. ASSUME NEW v \in 2 .. latest' PROVE v <= successor'[made'[v].from]
  <2>1. CASE v = latest + 1
    BY <1>3, <1>4, <2>1, <1>2
  <2>2. CASE v # latest + 1
    <3>1. v \in 2 .. latest /\ made'[v] = made[v] /\ v <= successor[made[v].from]
      BY <1>1, <1>2, <1>3, <2>2 DEF ChainInv, Chain
    <3>2. CASE made[v].from = x.from
      BY <1>2, <1>4, <3>1, <3>2
    <3>3. CASE made[v].from # x.from
      <4>1. successor'[made[v].from] = successor[made[v].from]
        BY <1>1, <3>3
      <4> QED
        BY <3>1, <4>1
    <3> QED
      BY <3>2, <3>3
  <2> QED
    BY <2>1, <2>2
<1>7. ASSUME NEW v \in 1 .. latest', successor'[v] # 0 PROVE made'[successor'[v]].from = v
  <2>1. CASE v = x.from
    BY <1>3, <1>4, <2>1
  <2>2. CASE v # x.from
    <3>1. v \in Versions /\ successor'[v] = successor[v]
      BY <1>1, <1>2, <1>4, <2>2
    <3>2. v # latest + 1
      BY <1>7, <1>2, <3>1 DEF ChainInv
    <3>3. v \in 1 .. latest /\ successor[v] \in 1 .. latest
      BY <1>1, <1>2, <1>7, <3>1, <3>2
    <3>4. made[successor[v]].from = v
      BY <1>7, <3>1, <3>3 DEF ChainInv, Chain
    <3> QED
      BY <1>3, <3>1, <3>3, <3>4
  <2> QED
    BY <2>1, <2>2
<1>8. ASSUME NEW v \in 2 .. latest', NEW w \in 2 .. latest', v < w, made'[v].from = made'[w].from
      PROVE  made'[w].seen < v
  <2>1. v \in 2 .. latest /\ made'[v] = made[v]
    BY <1>1, <1>2, <1>3, <1>8
  <2>2. CASE w = latest + 1
    BY <1>3, <1>8, <2>1, <2>2 DEF ChainInv
  <2>3. CASE w # latest + 1
    <3>1. w \in 2 .. latest /\ made'[w] = made[w]
      BY <1>1, <1>2, <1>3, <2>3
    <3> QED
      BY <1>8, <2>1, <3>1 DEF ChainInv, Chain, Siblings
  <2> QED
    BY <2>2, <2>3
<1>9. ASSUME \A v, w \in 2 .. latest' : ~(v < w /\ made'[v].from = made'[w].from),
             NEW v \in 1 .. latest' - 1
      PROVE  successor'[v] = v + 1
  <2>1. \A a, b \in 2 .. latest : ~Siblings(a, b)
    BY <1>1, <1>2, <1>3, <1>9 DEF Siblings
  <2>2. \A u \in 1 .. latest - 1 : successor[u] = u + 1
    BY <2>1 DEF ChainInv, Chain
  <2>3. x.from = latest
    <3> SUFFICES ASSUME x.from # latest PROVE FALSE
      OBVIOUS
    <3>1. x.from \in 1 .. latest - 1 /\ successor[x.from] = x.from + 1
      BY <1>2, <2>2
    <3>2. made[x.from + 1].from = x.from
      BY <1>2, <3>1 DEF ChainInv, Chain
    <3>3. /\ x.from + 1 \in 2 .. latest' /\ latest + 1 \in 2 .. latest'
          /\ x.from + 1 < latest + 1 /\ made'[x.from + 1] = made[x.from + 1]
      BY <1>1, <1>2, <1>3, <3>1
    <3> QED
      BY <1>3, <1>9, <3>2, <3>3
  <2>4. CASE v = latest
    BY <1>4, <2>3, <2>4
  <2>5. CASE v # latest
    <3>1. v \in 1 .. latest - 1 /\ v \in Versions
      BY <1>1, <1>2, <2>5
    <3> QED
      BY <1>4, <2>2, <2>3, <2>5, <3>1
  <2> QED
    BY <2>4, <2>5
<1>10. Chain'
  <2>1. TypeOK'
    BY DEF IInv
  <2>2. \A v, w \in 2 .. latest' : Siblings(v, w)' <=> v < w /\ made'[v].from = made'[w].from
    BY DEF Siblings
  <2> QED
    BY <1>5, <1>6, <1>7, <1>8, <1>9, <2>1, <2>2 DEF Chain
<1>11. ASSUME NEW v \in Versions, v > latest' PROVE successor'[v] = 0
  <2>1. v # x.from /\ v > latest
    BY <1>1, <1>2, <1>11 DEF Versions
  <2> QED
    BY <1>4, <2>1 DEF ChainInv
<1>12. ASSUME NEW y \in publishing', NEW v \in 2 .. latest', made'[v].from = y.from
       PROVE  y.seen < v
  <2>1. y \in publishing /\ y.seen \in 1 .. latest
    BY <1>1, <1>2
  <2>2. CASE v = latest + 1
    BY <1>2, <2>1, <2>2
  <2>3. CASE v # latest + 1
    <3>1. v \in 2 .. latest /\ made'[v] = made[v]
      BY <1>1, <1>2, <1>3, <2>3
    <3> QED
      BY <1>12, <2>1, <3>1 DEF ChainInv
  <2> QED
    BY <2>2, <2>3
<1> QED
  BY <1>10, <1>11, <1>12 DEF ChainInv

LEMMA NextChain == ChainInv /\ IInv /\ IInv' /\ [Next]_vars => ChainInv'
<1> SUFFICES ASSUME ChainInv, IInv, IInv', [Next]_vars PROVE ChainInv'
  OBVIOUS
<1>1. CASE \E i \in 1 .. MaxPublishing, v \in Versions : BeginPublish(i, v)
  BY <1>1, BeginPublishChain
<1>2. ASSUME NEW x \in publishing, FinishPublish(x) PROVE ChainInv'
  BY <1>2, FinishPublishChain
<1>3. CASE \/ \E x \in publishing : RollbackPublish(x)
           \/ \E t \in Tasks, v \in Versions : BeginCreate(t, v)
           \/ \E x \in creating : FinishCreate(x) \/ RollbackCreate(x)
           \/ \E t \in Tasks : Claim(t) \/ Return(t) \/ Submit(t) \/ Requeue(t)
           \/ UNCHANGED vars
  <2>1. UNCHANGED <<latest, successor, made>> /\ publishing' \subseteq publishing
    BY <1>3 DEF RollbackPublish, BeginCreate, FinishCreate, RollbackCreate, Claim, Return,
                Submit, Requeue, vars, taskVars
  <2> QED
    BY <2>1, ChainKept DEF IInv
<1> QED
  BY <1>1, <1>2, <1>3 DEF Next

LEMMA ChainHolds == Spec => [](IInv /\ ChainInv)
<1>1. ChainInv /\ IInv /\ IInv' /\ [Next]_vars => ChainInv'
  BY NextChain
<1> QED
  BY <1>1, InitChain, RubricInvariant, PTL DEF Spec

\* The newest version is current, a superseded version names the newest one that was
\* published from it, and a version is superseded twice only by publications that had
\* both loaded it before: however many of them overlap (publish).
THEOREM VersionsFormAChain == Spec => []Chain
<1>1. ChainInv => Chain
  BY DEF ChainInv
<1> QED
  BY <1>1, ChainHolds, PTL

KeepUpStep ==
  \A t \in Tasks :
    /\ state[t] = "queued" /\ received[t] = 0 /\ Current(rubric[t])
    /\ state'[t] = "queued"
    => Current(rubric[t])'

LEMMA NextKeepUp == IInv /\ ChainInv /\ [Next]_vars => KeepUpStep
<1> SUFFICES ASSUME IInv, ChainInv, [Next]_vars, NEW t \in Tasks,
                    state[t] = "queued", received[t] = 0, Current(rubric[t])
             PROVE  Current(rubric[t])'
  BY DEF KeepUpStep
<1>0. /\ rubric[t] <= latest /\ successor[rubric[t]] = 0
      /\ latest \in Nat /\ latest \in Versions /\ rubric[t] \in 1 .. latest
      /\ successor \in [Versions -> 0 .. latest]
  <2>1. latest \in 1 .. MaxVersions /\ rubric[t] \in 0 .. latest /\ rubric[t] # 0
    BY DEF IInv, TypeOK, GradedAgainst, Versions
  <2> QED
    BY <2>1 DEF Current, IInv, TypeOK, Versions
<1>1. ASSUME NEW x \in publishing, FinishPublish(x) PROVE Current(rubric[t])'
  <2>1. /\ latest' = latest + 1 /\ successor' = [successor EXCEPT ![x.from] = latest + 1]
        /\ rubric'[t] = IF t \in Movable(x.from) THEN latest + 1 ELSE rubric[t]
        /\ latest + 1 \in Versions
    BY <1>0, <1>1, RubricsAssumption DEF FinishPublish, Superseded, Versions, RubricsAssumption
  <2>2. x.from \in 1 .. latest
    BY DEF IInv, PublishingKnown
  <2>3. CASE rubric[t] = x.from
    <3>1. rubric'[t] = latest + 1
      BY <2>1, <2>3 DEF Movable
    <3>2. successor'[latest + 1] = successor[latest + 1] /\ successor[latest + 1] = 0
      BY <1>0, <2>1, <2>2 DEF ChainInv
    <3> QED
      BY <1>0, <2>1, <3>1, <3>2 DEF Current
  <2>4. CASE rubric[t] # x.from
    <3>1. rubric'[t] = rubric[t]
      BY <2>1, <2>4 DEF Movable
    <3>2. successor'[rubric[t]] = successor[rubric[t]]
      BY <1>0, <2>1, <2>4
    <3> QED
      BY <1>0, <2>1, <3>1, <3>2 DEF Current
  <2> QED
    BY <2>3, <2>4
<1>2. ASSUME NEW x \in creating, FinishCreate(x) PROVE Current(rubric[t])'
  <2>1. x.task # t /\ rubric \in [Tasks -> 0 .. latest]
    BY DEF IInv, CreatingAbsent, TypeOK
  <2> QED
    BY <1>0, <1>2, <2>1 DEF FinishCreate, Current
<1>3. CASE \/ \E i \in 1 .. MaxPublishing, v \in Versions : BeginPublish(i, v)
           \/ \E x \in publishing : RollbackPublish(x)
           \/ \E u \in Tasks, v \in Versions : BeginCreate(u, v)
           \/ \E x \in creating : RollbackCreate(x)
           \/ \E u \in Tasks : Claim(u) \/ Return(u) \/ Submit(u) \/ Requeue(u)
           \/ UNCHANGED vars
  <2>1. UNCHANGED <<latest, successor, rubric>>
    BY <1>3 DEF BeginPublish, RollbackPublish, BeginCreate, RollbackCreate, Claim, Return,
                Submit, Requeue, vars, taskVars
  <2> QED
    BY <1>0, <2>1 DEF Current
<1> QED
  BY <1>1, <1>2, <1>3 DEF Next

\* A task does not fall behind while it waits in the queue without a grade: the update
\* that moves the queue takes along every task that is on the version it supersedes,
\* however many publications overlap (publish).
THEOREM QueueKeepsUp == Spec => QueuedKeepUp
<1>1. IInv /\ ChainInv /\ [Next]_vars => [KeepUpStep]_vars
  BY NextKeepUp
<1> QED
  BY <1>1, ChainHolds, PTL DEF Spec, QueuedKeepUp, KeepUpStep

-----------------------------------------------------------------------------
(* Exports.  Lemmas about the operators of the model.                      *)

\* The highest version of a table without gaps.
LEMMA NewestOf ==
  ASSUME NEW n \in Nat, NEW S, S = 1 .. n
  PROVE  (CHOOSE v \in S \cup {0} : \A w \in S : w <= v) = n
<1>1. n \in S \cup {0} /\ \A w \in S : w <= n
  OBVIOUS
<1>2. ASSUME NEW v \in S \cup {0}, \A w \in S : w <= v
      PROVE  v = n
  <2>1. CASE n = 0
    BY <1>2, <2>1
  <2>2. CASE n # 0
    <3>1. n <= v
      BY <1>2, <2>2
    <3>2. v <= n /\ v \in Nat
      BY <1>2
    <3> QED
      BY <3>1, <3>2
  <2> QED
    BY <2>1, <2>2
<1> QED
  BY <1>1, <1>2

\* The body that an export builds from its rows.
LEMMA BodyType ==
  ASSUME E!TypeOK, NEW S \in SUBSET E!Rows
  PROVE  /\ [r \in S |-> tier[r[2]]] \in E!Bodies
         /\ DOMAIN [r \in S |-> tier[r[2]]] = S
<1>1. \A r \in S : tier[r[2]] \in Tiers
  BY DEF E!TypeOK, E!Rows
<1>2. [r \in S |-> tier[r[2]]] \in [S -> Tiers]
  BY <1>1
<1> QED
  BY <1>2 DEF E!Bodies

\* The empty body.
LEMMA EmptyBody == <<>> \in E!Bodies
<1>1. <<>> \in [{} -> Tiers]
  OBVIOUS
<1>2. {} \in SUBSET E!Rows
  OBVIOUS
<1> QED
  BY <1>1, <1>2 DEF E!Bodies

-----------------------------------------------------------------------------
(* Exports.  The invariant.                                                *)

LEMMA InitDelivery == E!Init => E!IInv
<1> SUFFICES ASSUME E!Init PROVE E!IInv
  OBVIOUS
<1>0. /\ rows = {} /\ tier \in [Experts -> Tiers] /\ exports = {}
      /\ DOMAIN objects = {} /\ DOMAIN deliveries = {}
  BY DEF E!Init, E!D!Init
<1>1. E!Newest = 0
  <2>1. DOMAIN deliveries = 1 .. 0
    BY <1>0
  <2> QED
    BY <2>1, NewestOf DEF E!Newest
<1>2. E!TypeOK
  BY <1>0 DEF E!TypeOK
<1>3. E!Numbered
  BY <1>0, <1>1 DEF E!Numbered
<1>4. E!ReadsBack
  BY <1>0 DEF E!ReadsBack
<1>5. E!Complete
  BY <1>0 DEF E!Complete, E!LacksOnlyOverlapping
<1> QED
  BY <1>2, <1>3, <1>4, <1>5 DEF E!IInv

\* The environment adds rows and moves tiers.
LEMMA EnvironmentKeeps ==
  ASSUME E!IInv, UNCHANGED <<exports, objects, deliveries>>,
         rows \subseteq rows', rows' \subseteq E!Rows, tier' \in [Experts -> Tiers]
  PROVE  E!IInv'
<1>1. E!Newest' = E!Newest
  BY DEF E!Newest
<1>2. E!TypeOK'
  BY DEF E!IInv, E!TypeOK
<1>3. E!Numbered'
  BY <1>1 DEF E!IInv, E!Numbered
<1>4. E!ReadsBack'
  BY DEF E!IInv, E!ReadsBack
<1>5. E!Complete'
  BY <1>1 DEF E!IInv, E!Complete, E!LacksOnlyOverlapping
<1> QED
  BY <1>2, <1>3, <1>4, <1>5 DEF E!IInv

LEMMA SelectKeeps ==
  ASSUME E!IInv, NEW i \in 1 .. MaxExports, E!Select(i)
  PROVE  E!IInv'
<1> DEFINE y == [id |-> i, step |-> "selected", began |-> E!Newest,
                 rows |-> E!Selected, body |-> <<>>, version |-> 0]
<1>0. /\ exports' = exports \cup {y}
      /\ UNCHANGED <<rows, tier, objects, deliveries>>
  BY DEF E!Select
<1>1. E!Newest' = E!Newest /\ E!Newest \in Nat /\ DOMAIN deliveries = 1 .. E!Newest
  BY <1>0 DEF E!Newest, E!IInv, E!Numbered
<1>2. E!TypeOK'
  <2>1. y \in E!ExportTx
    BY <1>1, EmptyBody DEF E!ExportTx, E!Selected, E!IInv, E!TypeOK
  <2> QED
    BY <1>0, <2>1 DEF E!IInv, E!TypeOK
<1>3. E!Numbered'
  BY <1>0, <1>1 DEF E!IInv, E!Numbered
<1>4. E!ReadsBack'
  BY <1>0 DEF E!IInv, E!ReadsBack
<1>5. E!Complete'
  <2>1. /\ y.began <= E!Newest /\ y.rows \subseteq rows
        /\ \A v \in 1 .. y.began : DOMAIN deliveries[v].checksum \subseteq y.rows
    BY <1>1 DEF E!IInv, E!Complete, E!Selected
  <2> QED
    BY <1>0, <1>1, <2>1 DEF E!IInv, E!Complete, E!LacksOnlyOverlapping
<1> QED
  BY <1>2, <1>3, <1>4, <1>5 DEF E!IInv

LEMMA BuildKeeps ==
  ASSUME E!IInv, NEW x \in exports, E!Build(x)
  PROVE  E!IInv'
<1> DEFINE body == [r \in x.rows |-> tier[r[2]]]
           y == [x EXCEPT !.step = "built", !.body = body]
<1>0. /\ exports' = (exports \ {x}) \cup {y}
      /\ UNCHANGED <<rows, tier, objects, deliveries>>
  BY DEF E!Build, E!Replace
<1>1. x \in E!ExportTx
  BY DEF E!IInv, E!TypeOK
<1>2. body \in E!Bodies /\ DOMAIN body = x.rows
  BY <1>1, BodyType DEF E!IInv, E!ExportTx
<1> HIDE DEF body
<1>3. /\ y \in E!ExportTx /\ y.step = "built"
      /\ y.began = x.began /\ y.rows = x.rows /\ y.body = body
  BY <1>1, <1>2 DEF E!ExportTx
<1>4. E!Newest' = E!Newest
  BY <1>0 DEF E!Newest
<1>5. E!TypeOK'
  BY <1>0, <1>3 DEF E!IInv, E!TypeOK
<1>6. E!Numbered'
  BY <1>0, <1>3, <1>4 DEF E!IInv, E!Numbered
<1>7. E!ReadsBack'
  BY <1>0, <1>3 DEF E!IInv, E!ReadsBack
<1>8. E!Complete'
  BY <1>0, <1>2, <1>3, <1>4 DEF E!IInv, E!Complete, E!LacksOnlyOverlapping
<1> QED
  BY <1>5, <1>6, <1>7, <1>8 DEF E!IInv

LEMMA NumberKeeps ==
  ASSUME E!IInv, NEW x \in exports, E!Number(x)
  PROVE  E!IInv'
<1> DEFINE y == [x EXCEPT !.step = "numbered", !.version = E!Newest + 1]
<1>0. /\ exports' = (exports \ {x}) \cup {y}
      /\ UNCHANGED <<rows, tier, objects, deliveries>>
      /\ x.step = "built"
  BY DEF E!Number, E!Replace
<1>1. x \in E!ExportTx /\ E!Newest \in Nat
  BY DEF E!IInv, E!TypeOK, E!Numbered
<1>3. /\ y \in E!ExportTx /\ y.step = "numbered" /\ y.version = E!Newest + 1
      /\ y.began = x.began /\ y.rows = x.rows /\ y.body = x.body
  <2>1. E!Newest + 1 \in Nat
    BY <1>1
  <2> QED
    BY <1>1, <2>1 DEF E!ExportTx
<1> HIDE DEF y
<1>4. E!Newest' = E!Newest
  BY <1>0 DEF E!Newest
<1>5. E!TypeOK'
  BY <1>0, <1>3 DEF E!IInv, E!TypeOK
<1>6. E!Numbered'
  <2>1. \A z \in exports : z.step \in {"numbered", "stored"} => z.version \in 1 .. E!Newest + 1
    BY DEF E!IInv, E!Numbered
  <2>2. E!Newest + 1 \in 1 .. E!Newest + 1
    BY <1>1
  <2>3. \A z \in exports' : z.step \in {"numbered", "stored"} => z.version \in 1 .. E!Newest + 1
    BY <1>0, <1>3, <2>1, <2>2
  <2> QED
    BY <1>0, <1>1, <1>4, <2>3 DEF E!IInv, E!Numbered
<1>7. E!ReadsBack'
  BY <1>0, <1>3 DEF E!IInv, E!ReadsBack
<1>8. E!Complete'
  BY <1>0, <1>3, <1>4 DEF E!IInv, E!Complete, E!LacksOnlyOverlapping
<1> QED
  BY <1>5, <1>6, <1>7, <1>8 DEF E!IInv

LEMMA StoreKeeps ==
  ASSUME E!IInv, NEW x \in exports, E!Store(x)
  PROVE  E!IInv'
<1> DEFINE y == [x EXCEPT !.step = "stored"]
           name == E!Name(x.version, x.body)
<1>0. /\ exports' = (exports \ {x}) \cup {y}
      /\ UNCHANGED <<rows, tier, deliveries>>
      /\ objects' = E!With(objects, name, x.body)
      /\ x.step = "numbered"
  BY DEF E!Store, E!Replace
<1>1. x \in E!ExportTx
  BY DEF E!IInv, E!TypeOK
<1>2. x.body \in E!Bodies /\ name.checksum = x.body
  BY <1>1 DEF E!ExportTx, E!Name
<1> HIDE DEF name
<1>3. /\ y \in E!ExportTx /\ y.step = "stored" /\ y.version = x.version
      /\ y.began = x.began /\ y.rows = x.rows /\ y.body = x.body
  BY <1>1 DEF E!ExportTx
<1>4. E!Newest' = E!Newest
  BY <1>0 DEF E!Newest
<1>5. /\ DOMAIN objects' = DOMAIN objects \cup {name}
      /\ objects'[name] = x.body
      /\ \A n \in DOMAIN objects : n # name => objects'[n] = objects[n]
  BY <1>0 DEF E!With
<1>6. E!TypeOK'
  <2>1. \A n \in DOMAIN objects' : objects'[n] \in E!Bodies
    BY <1>2, <1>5 DEF E!IInv, E!TypeOK
  <2> QED
    BY <1>0, <1>3, <1>5, <2>1 DEF E!IInv, E!TypeOK
<1>7. E!Numbered'
  BY <1>0, <1>3, <1>4 DEF E!IInv, E!Numbered
<1>8. E!ReadsBack'
  <2>1. \A n \in DOMAIN objects' : objects'[n] = n.checksum
    BY <1>2, <1>5 DEF E!IInv, E!ReadsBack
  <2>2. E!Name(y.version, y.body) \in DOMAIN objects'
    BY <1>3, <1>5 DEF name
  <2>3. \A z \in exports' : z.step = "stored" => E!Name(z.version, z.body) \in DOMAIN objects'
    BY <1>0, <1>5, <2>2 DEF E!IInv, E!ReadsBack
  <2>4. (\A v \in DOMAIN deliveries :
           deliveries[v].location = E!Name(v, deliveries[v].checksum))'
    BY <1>0 DEF E!IInv, E!ReadsBack, E!Name
  <2> QED
    BY <2>1, <2>3, <2>4 DEF E!ReadsBack, E!Name
<1>9. E!Complete'
  BY <1>0, <1>3, <1>4 DEF E!IInv, E!Complete, E!LacksOnlyOverlapping
<1> QED
  BY <1>6, <1>7, <1>8, <1>9 DEF E!IInv

\* What a commit adds to the table: the version after the newest.
LEMMA CommitAdds ==
  ASSUME E!IInv, NEW x \in exports, E!Commit(x)
  PROVE  /\ x.version = E!Newest + 1
         /\ E!Newest' = E!Newest + 1
         /\ DOMAIN deliveries' = 1 .. E!Newest + 1
         /\ deliveries'[E!Newest + 1] =
              [checksum |-> x.body, location |-> E!Name(x.version, x.body), began |-> x.began]
         /\ \A v \in 1 .. E!Newest : deliveries'[v] = deliveries[v]
<1>0. /\ x \in E!ExportTx /\ x.step = "stored" /\ x.version \notin DOMAIN deliveries
      /\ deliveries' = E!With(deliveries, x.version,
                            [checksum |-> x.body, location |-> E!Name(x.version, x.body),
                             began |-> x.began])
  BY DEF E!IInv, E!TypeOK, E!Commit, E!Ready
<1>1. E!Newest \in Nat /\ DOMAIN deliveries = 1 .. E!Newest /\ x.version \in 1 .. E!Newest + 1
  BY <1>0 DEF E!IInv, E!Numbered
<1>2. x.version = E!Newest + 1
  BY <1>0, <1>1
<1>3. DOMAIN deliveries' = 1 .. E!Newest + 1
  BY <1>0, <1>1, <1>2 DEF E!With
<1>4. /\ deliveries'[E!Newest + 1] =
           [checksum |-> x.body, location |-> E!Name(x.version, x.body), began |-> x.began]
      /\ \A v \in 1 .. E!Newest : deliveries'[v] = deliveries[v]
  BY <1>0, <1>1, <1>2 DEF E!With
<1>5. E!Newest' = E!Newest + 1
  <2>1. E!Newest + 1 \in Nat
    BY <1>1
  <2> QED
    BY <1>3, <2>1, NewestOf DEF E!Newest
<1> QED
  BY <1>2, <1>3, <1>4, <1>5

LEMMA CommitKeeps ==
  ASSUME E!IInv, NEW x \in exports, E!Commit(x)
  PROVE  E!IInv'
<1> DEFINE row == [checksum |-> x.body, location |-> E!Name(x.version, x.body),
                   began |-> x.began]
<1>0. /\ exports' = exports \ {x}
      /\ UNCHANGED <<rows, tier, objects>>
      /\ x \in E!ExportTx /\ x.step = "stored"
  BY DEF E!Commit, E!Ready, E!IInv, E!TypeOK
<1>1. /\ x.version = E!Newest + 1 /\ E!Newest' = E!Newest + 1 /\ E!Newest \in Nat
      /\ DOMAIN deliveries = 1 .. E!Newest /\ DOMAIN deliveries' = 1 .. E!Newest + 1
      /\ deliveries'[E!Newest + 1] = row
      /\ \A v \in 1 .. E!Newest : deliveries'[v] = deliveries[v]
  BY CommitAdds DEF E!IInv, E!Numbered
<1>2. /\ row.checksum = x.body /\ row.location = E!Name(x.version, x.body)
      /\ row.began = x.began
  OBVIOUS
<1>3. /\ x.body \in E!Bodies /\ E!Name(x.version, x.body) \in DOMAIN objects
      /\ DOMAIN x.body = x.rows /\ x.rows \subseteq rows
      /\ x.began \in Nat /\ x.began <= E!Newest
  BY <1>0 DEF E!IInv, E!ReadsBack, E!Complete, E!ExportTx
<1> HIDE DEF row
<1>4. \A v \in 1 .. E!Newest + 1 : v \in 1 .. E!Newest \/ v = E!Newest + 1
  BY <1>1
<1>5. E!TypeOK'
  <2>1. \A v \in DOMAIN deliveries' : deliveries'[v].checksum \in E!Bodies
                                      /\ deliveries'[v].location \in DOMAIN objects
                                      /\ deliveries'[v].began \in Nat
    BY <1>1, <1>2, <1>3, <1>4 DEF E!IInv, E!TypeOK
  <2> QED
    BY <1>0, <1>1, <2>1 DEF E!IInv, E!TypeOK
<1>6. E!Numbered'
  BY <1>0, <1>1 DEF E!IInv, E!Numbered
<1>7. E!ReadsBack'
  <2>1. \A v \in DOMAIN deliveries' :
          deliveries'[v].location = E!Name(v, deliveries'[v].checksum)
    BY <1>1, <1>2, <1>4 DEF E!IInv, E!ReadsBack
  <2> QED
    BY <1>0, <2>1 DEF E!IInv, E!ReadsBack, E!Name
<1>8. E!Complete'
  <2>1. \A v \in DOMAIN deliveries' :
          DOMAIN deliveries'[v].checksum \subseteq rows /\ deliveries'[v].began < v
    BY <1>1, <1>2, <1>3, <1>4 DEF E!IInv, E!Complete
  <2>2. ASSUME NEW z \in exports'
        PROVE  /\ z.began <= E!Newest'
               /\ z.rows \subseteq rows
               /\ z.step # "selected" => DOMAIN z.body = z.rows
               /\ \A v \in 1 .. z.began : DOMAIN deliveries'[v].checksum \subseteq z.rows
    <3>1. z \in exports /\ z \in E!ExportTx /\ z.began \in Nat /\ z.began <= E!Newest
      BY <1>0, <2>2 DEF E!IInv, E!TypeOK, E!Complete, E!ExportTx
    <3>2. \A v \in 1 .. z.began : v \in 1 .. E!Newest
      BY <1>1, <3>1
    <3> QED
      BY <1>1, <3>1, <3>2 DEF E!IInv, E!Complete
  <2>3. ASSUME NEW v \in DOMAIN deliveries', NEW w \in DOMAIN deliveries',
               v <= deliveries'[w].began
        PROVE  DOMAIN deliveries'[v].checksum \subseteq DOMAIN deliveries'[w].checksum
    <3>1. CASE w = E!Newest + 1
      <4>1. v \in 1 .. x.began /\ v \in 1 .. E!Newest
        BY <1>1, <1>2, <1>3, <2>3, <3>1
      <4>2. DOMAIN deliveries[v].checksum \subseteq x.rows
        BY <4>1 DEF E!IInv, E!Complete
      <4> QED
        BY <1>1, <1>2, <1>3, <3>1, <4>1, <4>2
    <3>2. CASE w \in 1 .. E!Newest
      <4>1. v \in 1 .. E!Newest
        <5>1. deliveries'[w] = deliveries[w] /\ deliveries[w].began \in Nat
          BY <1>1, <3>2 DEF E!IInv, E!TypeOK
        <5>2. deliveries[w].began < w
          BY <1>1, <3>2 DEF E!IInv, E!Complete
        <5> QED
          BY <1>1, <2>3, <3>2, <5>1, <5>2
      <4> QED
        BY <1>1, <2>3, <3>2, <4>1 DEF E!IInv, E!Complete, E!LacksOnlyOverlapping
    <3> QED
      BY <1>1, <1>4, <2>3, <3>1, <3>2
  <2> QED
    BY <1>0, <2>1, <2>2, <2>3 DEF E!Complete, E!LacksOnlyOverlapping
<1> QED
  BY <1>5, <1>6, <1>7, <1>8 DEF E!IInv

LEMMA FailKeeps ==
  ASSUME E!IInv, NEW x \in exports, E!Fail(x)
  PROVE  E!IInv'
<1>0. exports' = exports \ {x} /\ UNCHANGED <<rows, tier, objects, deliveries>>
  BY DEF E!Fail
<1>1. E!Newest' = E!Newest
  BY <1>0 DEF E!Newest
<1>2. E!TypeOK'
  BY <1>0 DEF E!IInv, E!TypeOK
<1>3. E!Numbered'
  BY <1>0, <1>1 DEF E!IInv, E!Numbered
<1>4. E!ReadsBack'
  BY <1>0 DEF E!IInv, E!ReadsBack
<1>5. E!Complete'
  BY <1>0, <1>1 DEF E!IInv, E!Complete, E!LacksOnlyOverlapping
<1> QED
  BY <1>2, <1>3, <1>4, <1>5 DEF E!IInv

LEMMA NextDelivery == E!IInv /\ [E!Next]_(E!vars) => E!IInv'
<1> SUFFICES ASSUME E!IInv, [E!Next]_(E!vars) PROVE E!IInv'
  OBVIOUS
<1>1. ASSUME NEW t \in Delivered, NEW e \in Experts, E!Approve(t, e) PROVE E!IInv'
  <2>1. /\ UNCHANGED <<exports, objects, deliveries>> /\ tier' = tier
        /\ rows' = rows \cup {<<t, e>>}
    BY <1>1 DEF E!Approve, E!D!Ship
  <2> QED
    BY <2>1, EnvironmentKeeps DEF E!IInv, E!TypeOK, E!Rows
<1>2. ASSUME NEW e \in Experts, NEW new \in Tiers, E!Move(e, new) PROVE E!IInv'
  <2>1. /\ UNCHANGED <<rows, exports, objects, deliveries>>
        /\ tier' \in [Experts -> Tiers]
    BY <1>2 DEF E!Move, E!IInv, E!TypeOK
  <2> QED
    BY <2>1, EnvironmentKeeps DEF E!IInv, E!TypeOK
<1>3. ASSUME NEW i \in 1 .. MaxExports, E!Select(i) PROVE E!IInv'
  BY <1>3, SelectKeeps
<1>4. ASSUME NEW x \in exports, E!Build(x) \/ E!Number(x) \/ E!Store(x) \/ E!Commit(x) \/ E!Fail(x)
      PROVE  E!IInv'
  BY <1>4, BuildKeeps, NumberKeeps, StoreKeeps, CommitKeeps, FailKeeps
<1>5. CASE UNCHANGED E!vars
  BY <1>5, EnvironmentKeeps DEF E!vars, E!IInv, E!TypeOK
<1> QED
  BY <1>1, <1>2, <1>3, <1>4, <1>5 DEF E!Next

\* Every committed version can be read back as its row describes it, and its rows are in
\* every version whose export began after its commit (export, _store, verify).
THEOREM DeliveryInvariant == DeliverySpec => []E!IInv
BY InitDelivery, NextDelivery, PTL DEF DeliverySpec, E!Spec

-----------------------------------------------------------------------------
(* Exports.  The refinement of Archive.                                    *)

\* What is read under a version is what its row describes.
LEMMA ReadBackIs == E!IInv => E!ReadBack = [v \in 1 .. E!Newest |-> deliveries[v].checksum]
<1> SUFFICES ASSUME E!IInv PROVE E!ReadBack = [v \in 1 .. E!Newest |-> deliveries[v].checksum]
  OBVIOUS
<1>1. DOMAIN deliveries = 1 .. E!Newest
  BY DEF E!IInv, E!Numbered
<1>2. ASSUME NEW v \in DOMAIN deliveries
      PROVE  objects[deliveries[v].location] = deliveries[v].checksum
  <2>1. deliveries[v].location \in DOMAIN objects
    BY DEF E!IInv, E!TypeOK
  <2>2. deliveries[v].location.checksum = deliveries[v].checksum
    <3>1. deliveries[v].location = E!Name(v, deliveries[v].checksum)
      BY DEF E!IInv, E!ReadsBack
    <3>2. E!Name(v, deliveries[v].checksum).checksum = deliveries[v].checksum
      BY DEF E!Name
    <3> QED
      BY <3>1, <3>2
  <2>3. \A n \in DOMAIN objects : objects[n] = n.checksum
    BY DEF E!IInv, E!ReadsBack
  <2> QED
    BY <2>1, <2>2, <2>3
<1> QED
  BY <1>1, <1>2 DEF E!ReadBack

\* The same after a step.
LEMMA ReadBackNext == (E!IInv => E!ReadBack = [v \in 1 .. E!Newest |-> deliveries[v].checksum])'
BY ReadBackIs, PTL

\* Appending to a sequence given as a function.
LEMMA AppendIs ==
  ASSUME NEW n \in Nat, NEW f, NEW g, NEW e,
         DOMAIN f = 1 .. n, f = [v \in 1 .. n |-> f[v]],
         g = [v \in 1 .. n + 1 |-> IF v <= n THEN f[v] ELSE e]
  PROVE  g = Append(f, e)
<1> DEFINE S == {f[v] : v \in 1 .. n} \cup {e}
<1>1. f \in [1 .. n -> S]
  OBVIOUS
<1>2. f \in Seq(S) /\ Len(f) = n
  BY <1>1
<1> QED
  BY <1>2

\* A commit appends a version to the archive.
LEMMA CommitPublishes ==
  ASSUME E!IInv, E!IInv', NEW x \in exports, E!Commit(x)
  PROVE  E!A!Publish(x.body)
<1>1. /\ E!Newest \in Nat /\ E!Newest' = E!Newest + 1
      /\ deliveries'[E!Newest + 1] =
           [checksum |-> x.body, location |-> E!Name(x.version, x.body), began |-> x.began]
      /\ \A v \in 1 .. E!Newest : deliveries'[v] = deliveries[v]
  BY CommitAdds DEF E!IInv, E!Numbered
<1>2. E!ReadBack = [v \in 1 .. E!Newest |-> deliveries[v].checksum]
  BY ReadBackIs
<1>3. E!ReadBack' = [v \in 1 .. E!Newest + 1 |-> deliveries'[v].checksum]
  BY <1>1, ReadBackNext
<1>4. \A v \in 1 .. E!Newest + 1 :
        deliveries'[v].checksum = IF v <= E!Newest THEN E!ReadBack[v] ELSE x.body
  BY <1>1, <1>2
<1>5. E!ReadBack' = [v \in 1 .. E!Newest + 1 |-> IF v <= E!Newest THEN E!ReadBack[v] ELSE x.body]
  BY <1>3, <1>4
<1> QED
  BY <1>1, <1>2, <1>5, AppendIs DEF E!A!Publish

\* Every other step leaves the archive as it is.
LEMMA OthersKeepReadBack ==
  ASSUME E!IInv, E!IInv', deliveries' = deliveries
  PROVE  E!ReadBack' = E!ReadBack
<1>1. E!Newest' = E!Newest
  BY DEF E!Newest
<1> QED
  BY <1>1, ReadBackIs, ReadBackNext

LEMMA StepPublishes == E!IInv /\ E!IInv' /\ [E!Next]_(E!vars) => [E!A!Next]_(E!ReadBack)
<1> SUFFICES ASSUME E!IInv, E!IInv', [E!Next]_(E!vars) PROVE [E!A!Next]_(E!ReadBack)
  OBVIOUS
<1>1. ASSUME NEW x \in exports, E!Commit(x) PROVE E!A!Next
  <2>1. x.body \in E!Bodies
    BY DEF E!IInv, E!TypeOK, E!ExportTx
  <2> QED
    BY <1>1, <2>1, CommitPublishes DEF E!A!Next
<1>2. CASE deliveries' = deliveries
  BY <1>2, OthersKeepReadBack
<1> QED
  BY <1>1, <1>2 DEF E!Next, E!vars, E!Approve, E!Move, E!Select, E!Build, E!Number, E!Store, E!Fail

LEMMA InitArchive == E!Init => E!A!Init
BY DEF E!Init, E!A!Init, E!ReadBack

\* The deliveries implement the archive: the versions have no gap, and what is read under
\* one of them never changes (export, _store).
THEOREM ArchiveImplemented == DeliverySpec => ArchiveSpec
<1>1. E!Init => E!A!Init
  BY InitArchive
<1>2. E!IInv /\ E!IInv' /\ [E!Next]_(E!vars) => [E!A!Next]_(E!ReadBack)
  BY StepPublishes
<1> QED
  BY <1>1, <1>2, DeliveryInvariant, PTL DEF DeliverySpec, ArchiveSpec, E!Spec, E!ArchiveSpec, E!A!Spec

\* A version lacks rows of an older one only when that was committed while its own export
\* was under way: what an export finds committed when it selects, it has (export).
THEOREM LackingMeansOverlapping == DeliverySpec => []LacksOnlyOverlapping
<1>1. E!IInv => LacksOnlyOverlapping
  BY DEF E!IInv, E!Complete, LacksOnlyOverlapping
<1> QED
  BY <1>1, DeliveryInvariant, PTL
==============================================================================
