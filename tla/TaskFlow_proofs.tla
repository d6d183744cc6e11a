-------------------------- MODULE TaskFlow_proofs ---------------------------
(***************************************************************************)
(* Proofs about the selection of the delivered grade, the task life cycle  *)
(* and the reports that rest on it, for every set of tasks and experts and *)
(* for any number of reviews in flight.  The invariant has three layers:   *)
(* one keeps reviews and the queue apart, then come the counts of grades,  *)
(* and then the rounds.                                                    *)
(***************************************************************************)
EXTENDS Agreement, Sums

USE TaskFlowAssumption DEF TaskFlowAssumption

-----------------------------------------------------------------------------
(* The selection of a consensus round, for every set of grades.            *)

\* Every non-empty set of naturals has a least element.
LEMMA LeastNatural ==
  ASSUME NEW T \in SUBSET Nat, T # {}
  PROVE  \E x \in T : \A y \in T : x <= y
<1>1. PICK x \in T : \A y \in T : ~ (<<y, x>> \in OpToRel(<, Nat))
  BY NatLessThanWellFounded, WFMin
<1>2. \A y \in T : ~ (y < x)
  BY <1>1 DEF OpToRel
<1> QED
  BY <1>2

\* The distance from the mean, scaled by the number of grades, is a natural.
LEMMA OffMeanType ==
  ASSUME NEW S, IsFiniteSet(S), NEW g, \A e \in S : g[e] \in Nat, NEW e \in S
  PROVE  OffMean(g, S, e) \in Nat
<1>1. TotalScore(g, S) \in Int
  BY SumType DEF TotalScore
<1>2. Cardinality(S) \in Nat
  BY FS_CardinalityType
<1>3. Cardinality(S) * g[e] - TotalScore(g, S) \in Int
  BY <1>1, <1>2
<1> QED
  BY <1>3 DEF OffMean

\* min(grades, key): among finitely many grades one sorts first, and it is the one picked.
THEOREM ClosestToMeanPicks ==
  ASSUME NEW S, IsFiniteSet(S), S # {}, NEW g, NEW p,
         \A e \in S : g[e] \in Nat /\ p[e] \in Nat
  PROVE  /\ ClosestToMean(g, p, S) \in S
         /\ \A f \in S : SortsFirst(g, p, S, ClosestToMean(g, p, S), f)
<1> DEFINE Off(e) == OffMean(g, S, e)
<1>1. \A e \in S : Off(e) \in Nat
  BY OffMeanType
<1> HIDE DEF Off
<1>2. PICK a \in S : \A f \in S : Off(a) <= Off(f)
  <2> DEFINE T == {Off(e) : e \in S}
  <2>1. T \in SUBSET Nat /\ T # {}
    BY <1>1
  <2>2. \A e \in S : Off(e) \in T
    OBVIOUS
  <2>3. \A n \in T : \E e \in S : n = Off(e)
    OBVIOUS
  <2> HIDE DEF T
  <2>4. PICK n \in T : \A m \in T : n <= m
    BY <2>1, LeastNatural
  <2> QED
    BY <2>2, <2>3, <2>4
<1> DEFINE Nearest == {e \in S : Off(e) = Off(a)}
<1>3. PICK b \in Nearest : \A f \in Nearest : p[b] <= p[f]
  <2> DEFINE T == {p[e] : e \in Nearest}
  <2>1. T \in SUBSET Nat /\ T # {}
    OBVIOUS
  <2>2. \A e \in Nearest : p[e] \in T
    OBVIOUS
  <2>3. \A n \in T : \E e \in Nearest : n = p[e]
    OBVIOUS
  <2> HIDE DEF T, Nearest
  <2>4. PICK n \in T : \A m \in T : n <= m
    BY <2>1, LeastNatural
  <2> QED
    BY <2>2, <2>3, <2>4
<1>4. \A f \in S : Off(b) < Off(f) \/ (Off(b) = Off(f) /\ p[b] <= p[f])
  BY <1>1, <1>2, <1>3
<1>5. b \in S /\ \A f \in S : SortsFirst(g, p, S, b, f)
  BY <1>4 DEF SortsFirst, Off
<1> QED
  BY <1>5 DEF ClosestToMean

-----------------------------------------------------------------------------
(* Lemmas about the operators of the model.                                *)

\* A set of graders is a finite set of experts.
LEMMA GradersFinite ==
  ASSUME NEW S \in SUBSET Experts
  PROVE  IsFiniteSet(S) /\ Cardinality(S) \in Nat
BY FS_Subset, FS_CardinalityType

\* _closest_to_mean returns one of the grades it is given.
LEMMA ClosestIsCandidate ==
  ASSUME NEW S \in SUBSET Experts, S # {},
         NEW g \in [Experts -> Nat], NEW p \in [Experts -> Nat]
  PROVE  ClosestToMean(g, p, S) \in S
BY GradersFinite, ClosestToMeanPicks

\* Scores and positions are naturals.
LEMMA GradeTypes ==
  ASSUME TypeOK, NEW t \in Tasks
  PROVE  score[t] \in [Experts -> Nat] /\ position[t] \in [Experts -> Nat]
<1>1. score[t] \in [Experts -> Scores \cup {0}] /\ position[t] \in [Experts -> Nat]
  BY DEF TypeOK
<1>2. Scores \cup {0} \subseteq Nat
  OBVIOUS
<1> QED
  BY <1>1, <1>2

\* redeliver picks a grade that is not rejected, or nothing when there is none.
LEMMA RedeliveryPicks ==
  ASSUME TypeOK, NEW t \in Tasks, NEW v \in [Experts -> Decisions \cup {"none"}]
  PROVE  /\ Redelivery(t, v) \in Experts \cup {NoExpert}
         /\ Redelivery(t, v) \in Experts =>
              Redelivery(t, v) \in Graders(t) /\ v[Redelivery(t, v)] # "reject"
<1> DEFINE pool == {e \in Graders(t) : v[e] # "reject"}
           approved == {e \in pool : v[e] = "approve"}
           S == Candidates(approved, pool)
<1>1. score[t] \in [Experts -> Nat] /\ position[t] \in [Experts -> Nat]
  BY GradeTypes
<1>2. S \in SUBSET Experts /\ S \subseteq pool
  BY DEF Candidates, Graders
<1>3. Redelivery(t, v) = IF S = {} THEN NoExpert
                         ELSE ClosestToMean(score[t], position[t], S)
  BY DEF Redelivery, Repick
<1>4. S # {} => ClosestToMean(score[t], position[t], S) \in S
  BY <1>1, <1>2, ClosestIsCandidate
<1> QED
  BY <1>2, <1>3, <1>4

-----------------------------------------------------------------------------
(* Type correctness.                                                       *)

LEMMA TypeInit == Init => TypeOK
BY DEF Init, TypeOK, Statuses, Leases, Decisions, Rounds, ReviewTx

\* A claim and the reclaim it starts with keep the types of the task's columns.
LEMMA TypeAssign ==
  ASSUME TypeOK, NEW e \in Experts, NEW t \in Tasks, Assign(e, t)
  PROVE  TypeOK'
BY DEF Assign, Reclaimed, TypeOK, Statuses, Leases, gradeVars, roundVars

\* evaluate delivers one of the task's grades, or opens an adjudication.
LEMMA TypeEvaluate ==
  ASSUME TypeOK, NEW t \in Tasks,
         NEW g \in [Experts -> Nat], NEW p \in [Experts -> Nat],
         NEW pool \in SUBSET Experts, Evaluate(t, g, p, pool)
  PROVE  /\ status' \in [Tasks -> Statuses]
         /\ round' \in [Tasks -> Rounds]
         /\ delivered' \in [Tasks -> Experts \cup {NoExpert}]
<1>1. CASE status' = [status EXCEPT ![t] = "submitted"] /\ UNCHANGED roundVars
  BY <1>1 DEF TypeOK, Statuses, roundVars
<1>2. CASE /\ Cardinality(pool) >= 2
           /\ status' = [status EXCEPT ![t] = "submitted"]
           /\ round' = [round EXCEPT ![t] = "agreed"]
           /\ delivered' = [delivered EXCEPT ![t] = ClosestToMean(g, p, pool)]
  <2>1. pool # {}
    <3> SUFFICES ASSUME pool = {} PROVE FALSE
      OBVIOUS
    <3>1. Cardinality(pool) = 0
      BY FS_EmptySet
    <3> QED
      BY <1>2, <3>1
  <2>2. ClosestToMean(g, p, pool) \in Experts
    BY <2>1, ClosestIsCandidate
  <2> QED
    BY <1>2, <2>2 DEF TypeOK, Statuses, Rounds
<1>3. CASE /\ status' = [status EXCEPT ![t] = "adjudication"]
           /\ round' = [round EXCEPT ![t] = "adjudicating"]
           /\ UNCHANGED delivered
  BY <1>3 DEF TypeOK, Statuses, Rounds
<1> QED
  BY <1>1, <1>2, <1>3 DEF Evaluate

LEMMA TypeSubmit ==
  ASSUME TypeOK, NEW e \in Experts, NEW t \in Tasks, NEW s \in Scores, Submit(e, t, s)
  PROVE  TypeOK'
<1> DEFINE g == [score[t] EXCEPT ![e] = s]
           p == [position[t] EXCEPT ![e] = Cardinality(Graders(t)) + 1]
<1>1. g \in [Experts -> Scores \cup {0}] /\ g \in [Experts -> Nat]
  BY GradeTypes DEF TypeOK
<1>2. Cardinality(Graders(t)) \in Nat
  BY GradersFinite DEF Graders
<1>3. p \in [Experts -> Nat]
  BY <1>2 DEF TypeOK
<1>4. /\ score' = [score EXCEPT ![t] = g]
      /\ position' = [position EXCEPT ![t] = p]
      /\ received' = [received EXCEPT ![t] = @ + 1]
      /\ holder' = [holder EXCEPT ![t] = NoExpert]
      /\ lease' = [lease EXCEPT ![t] = "none"]
      /\ UNCHANGED <<verdict, reviewing>>
      /\ \/ status' = [status EXCEPT ![t] = "queued"] /\ UNCHANGED roundVars
         \/ Evaluate(t, g, p, Unrejected(t) \cup {e})
  BY DEF Submit
<1>5. Unrejected(t) \cup {e} \in SUBSET Experts
  BY DEF Unrejected, Graders
<1>6. /\ status' \in [Tasks -> Statuses]
      /\ round' \in [Tasks -> Rounds]
      /\ delivered' \in [Tasks -> Experts \cup {NoExpert}]
  <2>1. CASE status' = [status EXCEPT ![t] = "queued"] /\ UNCHANGED roundVars
    BY <2>1 DEF TypeOK, Statuses, roundVars
  <2>2. CASE Evaluate(t, g, p, Unrejected(t) \cup {e})
    BY <2>2, <1>1, <1>3, <1>5, TypeEvaluate
  <2> QED
    BY <1>4, <2>1, <2>2
<1> HIDE DEF g, p
<1>7. /\ holder' \in [Tasks -> Experts \cup {NoExpert}]
      /\ lease' \in [Tasks -> Leases]
      /\ received' \in [Tasks -> Nat]
  BY <1>4 DEF TypeOK, Leases
<1>8. /\ score' \in [Tasks -> [Experts -> Scores \cup {0}]]
      /\ position' \in [Tasks -> [Experts -> Nat]]
  BY <1>1, <1>3, <1>4 DEF TypeOK
<1> QED
  BY <1>4, <1>6, <1>7, <1>8 DEF TypeOK

\* What a decision writes to the task's row.
LEMMA TypeJudge ==
  ASSUME TypeOK, NEW r \in reviewing, Judge(r)
  PROVE  status' \in [Tasks -> Statuses] /\ received' \in [Tasks -> Nat]
<1>1. r \in ReviewTx
  BY DEF TypeOK
<1>2. \A new \in Statuses : Written(r, new) \in [Tasks -> Statuses]
  BY DEF Written, TypeOK
<1>3. PutBack(r) \in [Tasks -> Nat]
  BY <1>1 DEF PutBack, TypeOK, ReviewTx
<1> QED
  BY <1>2, <1>3 DEF Judge, TypeOK, Statuses

LEMMA TypeFinishReview ==
  ASSUME TypeOK, NEW r \in reviewing, FinishReview(r)
  PROVE  TypeOK'
<1> DEFINE v == [verdict[r.task] EXCEPT ![r.expert] = r.decision]
<1>1. r.task \in Tasks /\ r.expert \in Experts /\ r.decision \in Decisions
  BY DEF TypeOK, ReviewTx
<1>2. v \in [Experts -> Decisions \cup {"none"}]
  BY <1>1 DEF TypeOK
<1>3. status' \in [Tasks -> Statuses] /\ received' \in [Tasks -> Nat]
  BY TypeJudge DEF FinishReview
<1>4. /\ reviewing' = reviewing \ {r}
      /\ verdict' = [verdict EXCEPT ![r.task] = v]
      /\ Redeliver(r, v)
      /\ UNCHANGED <<holder, lease, gradeVars, round>>
  BY DEF FinishReview
<1> HIDE DEF v
<1>5. Redelivery(r.task, v) \in Experts \cup {NoExpert}
  BY <1>1, <1>2, RedeliveryPicks
<1>6. delivered' \in [Tasks -> Experts \cup {NoExpert}]
  <2>1. delivered \in [Tasks -> Experts \cup {NoExpert}]
    BY DEF TypeOK
  <2>2. \/ delivered' = [delivered EXCEPT ![r.task] = Redelivery(r.task, v)]
        \/ UNCHANGED delivered
    BY <1>4 DEF Redeliver
  <2> QED
    BY <1>5, <2>1, <2>2
<1> QED
  BY <1>2, <1>3, <1>4, <1>6 DEF TypeOK, gradeVars

\* Every step keeps the types.
LEMMA TypeNext == TypeOK /\ [Next]_vars => TypeOK'
<1> SUFFICES ASSUME TypeOK, [Next]_vars PROVE TypeOK'
  OBVIOUS
<1>1. CASE ReclaimExpired
  BY <1>1 DEF ReclaimExpired, Reclaimed, TypeOK, Statuses, Leases, gradeVars, roundVars
<1>2. ASSUME NEW t \in Tasks, Expire(t) PROVE TypeOK'
  BY <1>2 DEF Expire, TypeOK, Leases, gradeVars, roundVars
<1>3. ASSUME NEW e \in Experts, NEW t \in Tasks, NEW row \in ExpertRows,
             ClaimNext(e, row, t) \/ ClaimById(e, row, t)
      PROVE  TypeOK'
  BY <1>3, TypeAssign DEF ClaimNext, ClaimById
<1>4. ASSUME NEW e \in Experts, NEW t \in Tasks, Release(e, t) PROVE TypeOK'
  BY <1>4 DEF Release, TypeOK, Statuses, Leases, gradeVars, roundVars
<1>5. ASSUME NEW e \in Experts, NEW t \in Tasks, Resolve(t, e) PROVE TypeOK'
  BY <1>5 DEF Resolve, TypeOK, Statuses, Decisions, Rounds, taskVars, gradeVars
<1>6. ASSUME NEW e \in Experts, NEW t \in Tasks, NEW s \in Scores, Submit(e, t, s)
      PROVE  TypeOK'
  BY <1>6, TypeSubmit
<1>7. ASSUME NEW e \in Experts, NEW t \in Tasks, NEW d \in Decisions, StartReview(t, e, d)
      PROVE  TypeOK'
  BY <1>7 DEF StartReview, TypeOK, ReviewTx, taskVars, gradeVars, roundVars
<1>8. ASSUME NEW r \in reviewing, FinishReview(r) PROVE TypeOK'
  BY <1>8, TypeFinishReview
<1>9. ASSUME NEW r \in reviewing, AbortReview(r) PROVE TypeOK'
  BY <1>9 DEF AbortReview, TypeOK, taskVars, gradeVars, roundVars
<1>10. CASE UNCHANGED vars
  BY <1>10 DEF vars, TypeOK
<1> QED
  BY <1>1, <1>2, <1>3, <1>4, <1>5, <1>6, <1>7, <1>8, <1>9, <1>10 DEF Next

\* The columns of the four tables keep their domains in every behaviour; with it, that an
\* agreed round always has a grade to select (consensus.evaluate, consensus.redeliver).
THEOREM TypeCorrect == Spec => []TypeOK
BY TypeInit, TypeNext, PTL DEF Spec

-----------------------------------------------------------------------------
(* The inductive invariant.                                                *)

LEMMA IInvInit == Init => IInv
<1> SUFFICES ASSUME Init PROVE IInv
  OBVIOUS
<1>1. TypeOK
  BY TypeInit
<1>2. \A t \in Tasks : Waiting(t) /\ Graders(t) = {} /\ received[t] = 0 /\ round[t] = "none"
  BY DEF Init, Waiting, Graders
<1>3. reviewing = {} /\ \A t \in Tasks, e \in Experts : verdict[t][e] = "none"
  BY DEF Init
<1>4. ReviewsOfGrades /\ SingleWaits /\ AdjudicationWaits
  BY <1>2, <1>3 DEF ReviewsOfGrades, SingleWaits, AdjudicationWaits, Unrejected, Single, Regular
<1>5. SeveralWait
  BY <1>2, <1>3 DEF SeveralWait, Several, Single, Regular
<1> QED
  BY <1>1, <1>4, <1>5 DEF IInv

\* A step of routing: it changes no grade, review or round, takes no task out of the
\* waiting ones and puts none among them.
Quiet ==
  /\ UNCHANGED <<received, score, position, verdict, round, delivered, reviewing>>
  /\ \A t \in Tasks : Waiting(t) <=> Waiting(t)'
  /\ \A t \in Tasks : ~Waiting(t) => status'[t] = status[t]

LEMMA AssignQuiet ==
  ASSUME TypeOK, NEW e \in Experts, NEW t \in Tasks,
         Reclaimed(status, "queued")[t] = "queued", Assign(e, t)
  PROVE  Quiet
BY DEF Assign, Reclaimed, Expired, TypeOK, Waiting, Quiet, gradeVars, roundVars

LEMMA QuietKeeps ==
  ASSUME IInv, TypeOK', Quiet
  PROVE  IInv'
<1>1. \A t \in Tasks : Graders(t)' = Graders(t) /\ Unrejected(t)' = Unrejected(t)
  BY DEF Quiet, Graders, Unrejected
<1>2. ReviewsOfGrades'
  BY <1>1 DEF IInv, Quiet, ReviewsOfGrades, TypeOK, ReviewTx
<1>3. SingleWaits'
  BY <1>1 DEF IInv, Quiet, SingleWaits, Single, Regular
<1>4. SeveralWait'
  BY <1>1 DEF IInv, Quiet, SeveralWait, Several, Single, Regular
<1>5. AdjudicationWaits'
  BY DEF IInv, Quiet, AdjudicationWaits, Waiting
<1> QED
  BY <1>2, <1>3, <1>4, <1>5 DEF IInv

\* A submitted grade joins the graders of its task; no verdict and no review changes.
LEMMA SubmitGrades ==
  ASSUME TypeOK, NEW e \in Experts, NEW t \in Tasks, NEW s \in Scores, Submit(e, t, s)
  PROVE  /\ Graders(t)' = Graders(t) \cup {e}
         /\ \A u \in Tasks \ {t} : Graders(u)' = Graders(u) /\ Unrejected(u)' = Unrejected(u)
         /\ Unrejected(t)' \subseteq Unrejected(t) \cup {e}
         /\ e \notin Graders(t) /\ Waiting(t)
         /\ \A u \in Tasks \ {t} : status'[u] = status[u] /\ round'[u] = round[u]
         /\ \A u \in Tasks \ {t} : received'[u] = received[u]
         /\ received'[t] = received[t] + 1
         /\ UNCHANGED <<verdict, reviewing>>
<1>1. /\ score' = [score EXCEPT ![t] = [score[t] EXCEPT ![e] = s]]
      /\ received' = [received EXCEPT ![t] = @ + 1]
      /\ e \notin Graders(t) /\ Holds(e, t)
      /\ UNCHANGED <<verdict, reviewing>>
  BY DEF Submit
<1>2. s # 0
  OBVIOUS
<1>3. Graders(t)' = Graders(t) \cup {e}
  BY <1>1, <1>2 DEF Graders, TypeOK
<1>4. \A u \in Tasks \ {t} : Graders(u)' = Graders(u)
  BY <1>1 DEF Graders, TypeOK
<1>5. \A u \in Tasks \ {t} : status'[u] = status[u] /\ round'[u] = round[u]
  BY DEF Submit, Evaluate, TypeOK, roundVars
<1>6. received'[t] = received[t] + 1 /\ \A u \in Tasks \ {t} : received'[u] = received[u]
  BY <1>1 DEF TypeOK
<1>7. Waiting(t)
  BY <1>1 DEF Holds, Waiting
<1> QED
  BY <1>1, <1>3, <1>4, <1>5, <1>6, <1>7 DEF Unrejected

\* What submit leaves behind: a task that still waits is short of grades; a task that does
\* not has a round if it has several graders, and no adjudication without one.
LEMMA SubmitOutcome ==
  ASSUME IInv, NEW e \in Experts, NEW t \in Tasks, NEW s \in Scores, Submit(e, t, s)
  PROVE  /\ t \in Single => ~Waiting(t)' /\ round'[t] = round[t]
         /\ t \in Several => \/ /\ Waiting(t)' /\ received'[t] < Required[t]
                                /\ round'[t] = round[t]
                             \/ /\ ~Waiting(t)' /\ round'[t] # "none"
                                /\ round'[t] = "adjudicating" => status'[t] = "adjudication"
         /\ t \in Golden => round'[t] = round[t]
<1> DEFINE g == [score[t] EXCEPT ![e] = s]
           p == [position[t] EXCEPT ![e] = Cardinality(Graders(t)) + 1]
           pool == Unrejected(t) \cup {e}
<1>1. TypeOK /\ Waiting(t) /\ e \notin Graders(t) /\ received'[t] = received[t] + 1
  BY SubmitGrades DEF IInv
<1>2. \/ ~Completes(t) /\ status' = [status EXCEPT ![t] = "queued"] /\ UNCHANGED roundVars
      \/ Completes(t) /\ Evaluate(t, g, p, pool)
  BY DEF Submit
<1>3. pool \in SUBSET Experts
  BY DEF Unrejected, Graders
<1>4. received[t] \in Nat /\ Required[t] \in Nat \ {0}
  BY <1>1 DEF TypeOK
<1>5. CASE t \in Single
  <2>1. Completes(t)
    BY <1>4, <1>5 DEF Completes, Single
  <2>2. pool = {e}
    BY <1>1, <1>5 DEF IInv, SingleWaits
  <2>3. Cardinality(pool) = 1
    BY <2>2, FS_Singleton
  <2>4. status' = [status EXCEPT ![t] = "submitted"] /\ UNCHANGED roundVars
    BY <1>2, <2>1, <2>3 DEF Evaluate
  <2> QED
    BY <1>1, <1>5, <2>4 DEF Waiting, TypeOK, roundVars, Several, Single, Regular
<1>6. CASE t \in Several /\ ~Completes(t)
  <2>1. received[t] + 1 < Required[t]
    BY <1>4, <1>6 DEF Completes, Several
  <2> QED
    BY <1>1, <1>2, <1>6, <2>1 DEF Waiting, TypeOK, roundVars, Several, Single, Regular
<1>7. CASE t \in Several /\ Completes(t)
  <2>1. received[t] >= 1
    BY <1>4, <1>7 DEF Completes, Several, Single
  <2>2. PICK f \in Graders(t) : verdict[t][f] = "none"
    BY <1>1, <1>7, <2>1 DEF IInv, SeveralWait, Graders
  <2>3. {e, f} \subseteq pool /\ e # f
    BY <1>1, <2>2 DEF Unrejected
  <2>4. Cardinality({e, f}) = 2
    <3>1. {e, f} = {e} \cup {f} /\ f \notin {e}
      BY <2>3
    <3>2. IsFiniteSet({e}) /\ Cardinality({e}) = 1
      BY FS_Singleton
    <3>3. Cardinality({e} \cup {f}) = Cardinality({e}) + 1
      BY <3>1, <3>2, FS_AddElement
    <3> QED
      BY <3>1, <3>2, <3>3
  <2>5. Cardinality(pool) >= 2
    BY <1>3, <2>3, <2>4, GradersFinite, FS_Subset
  <2>6. \/ /\ status' = [status EXCEPT ![t] = "submitted"]
           /\ round' = [round EXCEPT ![t] = "agreed"]
        \/ /\ status' = [status EXCEPT ![t] = "adjudication"]
           /\ round' = [round EXCEPT ![t] = "adjudicating"]
    BY <1>2, <1>3, <1>7, <2>5, GradersFinite DEF Evaluate
  <2> QED
    BY <1>1, <1>7, <2>6 DEF Waiting, TypeOK, Several, Single, Regular
<1>8. CASE t \in Golden
  BY <1>2, <1>8 DEF Completes, Regular, Single, Several, roundVars
<1> QED
  BY <1>5, <1>6, <1>7, <1>8 DEF Several, Regular

\* A review in flight is about a task and an expert.
LEMMA ReviewTyped ==
  ASSUME TypeOK, NEW r \in reviewing
  PROVE  r.task \in Tasks /\ r.expert \in Experts /\ r.decision \in Decisions
BY DEF TypeOK, ReviewTx

\* Several graders are two at least.
LEMMA SeveralRequire ==
  ASSUME TypeOK, NEW t \in Several
  PROVE  t \in Regular /\ received[t] \in Nat /\ Required[t] \in Nat /\ Required[t] >= 2
<1>1. t \in Tasks /\ t \in Regular /\ Required[t] # 1
  BY DEF Several, Single, Regular
<1>2. received[t] \in Nat /\ Required[t] \in Nat \ {0}
  BY <1>1 DEF TypeOK
<1> QED
  BY <1>1, <1>2

LEMMA IInvSubmit ==
  ASSUME IInv, TypeOK', NEW e \in Experts, NEW t \in Tasks, NEW s \in Scores, Submit(e, t, s)
  PROVE  IInv'
<1>1. TypeOK
  BY DEF IInv
<1>2. /\ Graders(t)' = Graders(t) \cup {e}
      /\ \A u \in Tasks \ {t} : Graders(u)' = Graders(u) /\ Unrejected(u)' = Unrejected(u)
      /\ Unrejected(t)' \subseteq Unrejected(t) \cup {e}
      /\ Waiting(t)
      /\ UNCHANGED <<verdict, reviewing>>
  BY <1>1, SubmitGrades
<1>3. \A u \in Tasks \ {t} : /\ status'[u] = status[u] /\ round'[u] = round[u]
                             /\ received'[u] = received[u] /\ (Waiting(u)' <=> Waiting(u))
  BY <1>1, SubmitGrades DEF Waiting
<1>4. ReviewsOfGrades'
  <2>1. \A u \in Tasks : Graders(u) \subseteq Graders(u)'
    BY <1>2
  <2>2. \A r \in reviewing : r.task \in Tasks
    BY <1>1, ReviewTyped
  <2>3. ReviewsOfGrades
    BY DEF IInv
  <2> QED
    BY <1>2, <2>1, <2>2, <2>3 DEF ReviewsOfGrades
<1>5. SingleWaits'
  <2> SUFFICES ASSUME NEW u \in Single
               PROVE  /\ Waiting(u)' => Unrejected(u)' = {}
                      /\ \A a, b \in Unrejected(u)' : a = b
    BY DEF SingleWaits, Single, Regular
  <2>1. CASE u = t
    <3>1. Unrejected(t)' \subseteq {e}
      BY <1>2, <2>1 DEF IInv, SingleWaits
    <3> QED
      BY <2>1, <3>1, SubmitOutcome
  <2>2. CASE u # t
    BY <1>2, <1>3, <2>2 DEF IInv, SingleWaits, Single, Regular
  <2> QED
    BY <2>1, <2>2
<1>6. SeveralWait'
  <2> SUFFICES ASSUME NEW u \in Several
               PROVE  /\ received'[u] >= 1 => Graders(u)' # {}
                      /\ ~Waiting(u)' => round'[u] # "none"
                      /\ Waiting(u)' => /\ received'[u] < Required[u]
                                        /\ \A a \in Experts : verdict'[u][a] = "none"
                                        /\ \A r \in reviewing' : r.task # u
    BY DEF SeveralWait, Several, Single, Regular
  <2>1. CASE u = t
    BY <1>2, <2>1, SubmitOutcome DEF IInv, SeveralWait
  <2>2. CASE u # t
    BY <1>2, <1>3, <2>2 DEF IInv, SeveralWait, Several, Regular
  <2> QED
    BY <2>1, <2>2
<1>7. AdjudicationWaits'
  <2> SUFFICES ASSUME NEW u \in Tasks, round'[u] = "adjudicating"
               PROVE  /\ u \in Several /\ status'[u] = "adjudication"
                      /\ \A a \in Experts : verdict'[u][a] = "none"
                      /\ \A r \in reviewing' : r.task # u
    BY DEF AdjudicationWaits
  <2>1. CASE u = t
    <3>1. round[t] # "adjudicating"
      BY <1>2 DEF IInv, AdjudicationWaits, Waiting
    <3>2. t \in Several /\ ~Waiting(t)'
      BY <2>1, <3>1, SubmitOutcome DEF Several, Regular
    <3>3. status'[t] = "adjudication"
      BY <2>1, <3>2, SubmitOutcome
    <3>4. /\ \A a \in Experts : verdict[t][a] = "none"
          /\ \A r \in reviewing : r.task # t
      BY <1>2, <3>2 DEF IInv, SeveralWait
    <3> QED
      BY <1>2, <2>1, <3>2, <3>3, <3>4
  <2>2. CASE u # t
    BY <1>2, <1>3, <2>2 DEF IInv, AdjudicationWaits
  <2> QED
    BY <2>1, <2>2
<1> QED
  BY <1>4, <1>5, <1>6, <1>7 DEF IInv

LEMMA IInvStartReview ==
  ASSUME IInv, TypeOK', NEW e \in Experts, NEW t \in Tasks, NEW d \in Decisions,
         StartReview(t, e, d)
  PROVE  IInv'
<1> DEFINE new == [task |-> t, expert |-> e, decision |-> d,
                   status |-> status[t], received |-> received[t]]
<1>1. /\ reviewing' = reviewing \cup {new}
      /\ e \in Graders(t) /\ verdict[t][e] = "none"
      /\ \A r \in reviewing : ~(r.task = t /\ r.expert = e)
      /\ UNCHANGED <<status, received, score, verdict, round>>
  BY DEF StartReview, taskVars, gradeVars, roundVars
<1>2. new.task = t /\ new.expert = e
  OBVIOUS
<1>3. t \in Several => ~Waiting(t) /\ status[t] # "adjudication"
  <2>1. ~ConsensusPending(t)
    BY DEF StartReview
  <2> SUFFICES ASSUME t \in Several PROVE ~Waiting(t) /\ status[t] # "adjudication"
    OBVIOUS
  <2>2. received[t] \in Nat /\ Required[t] \in Nat /\ Required[t] >= 2 /\ t \in Regular
    BY SeveralRequire DEF IInv
  <2>3. ~(received[t] < Required[t]) /\ status[t] # "adjudication"
    BY <2>1, <2>2 DEF ConsensusPending
  <2> QED
    BY <2>3 DEF IInv, SeveralWait
<1> HIDE DEF new
<1>4. \A u \in Tasks : Graders(u)' = Graders(u) /\ Unrejected(u)' = Unrejected(u)
  BY <1>1 DEF Graders, Unrejected
<1>5. \A u \in Tasks : Waiting(u)' <=> Waiting(u)
  BY <1>1 DEF Waiting
<1>6. ReviewsOfGrades'
  <2>1. \A r \in reviewing : r.task \in Tasks
    BY ReviewTyped DEF IInv
  <2>2. ReviewsOfGrades
    BY DEF IInv
  <2> QED
    BY <1>1, <1>2, <1>4, <2>1, <2>2 DEF ReviewsOfGrades
<1>7. SingleWaits'
  <2>1. SingleWaits
    BY DEF IInv
  <2> QED
    BY <1>4, <1>5, <2>1 DEF SingleWaits, Single, Regular
<1>8. SeveralWait'
  <2>1. SeveralWait
    BY DEF IInv
  <2> QED
    BY <1>1, <1>2, <1>3, <1>4, <1>5, <2>1 DEF SeveralWait, Several, Single, Regular
<1>9. AdjudicationWaits'
  BY <1>1, <1>2, <1>3 DEF IInv, AdjudicationWaits
<1> QED
  BY <1>6, <1>7, <1>8, <1>9 DEF IInv

LEMMA IInvAbortReview ==
  ASSUME IInv, TypeOK', NEW r0 \in reviewing, AbortReview(r0)
  PROVE  IInv'
<1>1. /\ reviewing' = reviewing \ {r0}
      /\ UNCHANGED <<status, received, score, verdict, round>>
  BY DEF AbortReview, taskVars, gradeVars, roundVars
<1>2. \A u \in Tasks : Graders(u)' = Graders(u) /\ Unrejected(u)' = Unrejected(u)
  BY <1>1 DEF Graders, Unrejected
<1>3. \A u \in Tasks : Waiting(u)' <=> Waiting(u)
  BY <1>1 DEF Waiting
<1>4. \A r \in reviewing : r.task \in Tasks
  BY ReviewTyped DEF IInv
<1>5. ReviewsOfGrades /\ SingleWaits /\ SeveralWait /\ AdjudicationWaits
  BY DEF IInv
<1>6. ReviewsOfGrades'
  BY <1>1, <1>2, <1>4, <1>5 DEF ReviewsOfGrades
<1>7. SingleWaits'
  BY <1>2, <1>3, <1>5 DEF SingleWaits, Single, Regular
<1>8. SeveralWait'
  BY <1>1, <1>2, <1>3, <1>5 DEF SeveralWait, Several, Single, Regular
<1>9. AdjudicationWaits'
  BY <1>1, <1>5 DEF AdjudicationWaits
<1> QED
  BY <1>6, <1>7, <1>8, <1>9 DEF IInv

\* A finished review decides one grade, on a task that does not wait.  Only a rejected
\* single-grader task waits afterwards, and an adjudication is not touched.
LEMMA FinishDecides ==
  ASSUME IInv, NEW r \in reviewing, FinishReview(r)
  PROVE  /\ r.expert \in Graders(r.task) /\ verdict[r.task][r.expert] = "none"
         /\ verdict'[r.task][r.expert] = r.decision
         /\ \A u \in Tasks, e \in Experts :
              ~(u = r.task /\ e = r.expert) => verdict'[u][e] = verdict[u][e]
         /\ reviewing' = reviewing \ {r}
         /\ UNCHANGED <<score, round>>
         /\ \A u \in Tasks \ {r.task} : status'[u] = status[u] /\ received'[u] = received[u]
         /\ r.task \in Several => ~Waiting(r.task) /\ ~Waiting(r.task)'
         /\ r.task \in Several => received'[r.task] = received[r.task]
         /\ r.task \in Single => ~Waiting(r.task)
         /\ r.task \in Single /\ r.decision = "approve" => ~Waiting(r.task)'
         /\ round[r.task] # "adjudicating"
<1>1. /\ r.task \in Tasks /\ r.expert \in Experts /\ r.decision \in Decisions
      /\ status \in [Tasks -> Statuses] /\ received \in [Tasks -> Nat]
      /\ verdict \in [Tasks -> [Experts -> Decisions \cup {"none"}]]
  BY ReviewTyped DEF IInv, TypeOK
<1>2. r.expert \in Graders(r.task) /\ verdict[r.task][r.expert] = "none"
  BY DEF IInv, ReviewsOfGrades
<1>3. /\ reviewing' = reviewing \ {r}
      /\ verdict' = [verdict EXCEPT ![r.task] =
                       [verdict[r.task] EXCEPT ![r.expert] = r.decision]]
      /\ Judge(r)
      /\ UNCHANGED <<score, round>>
  BY DEF FinishReview, gradeVars
<1>4. /\ verdict'[r.task][r.expert] = r.decision
      /\ \A u \in Tasks, e \in Experts :
           ~(u = r.task /\ e = r.expert) => verdict'[u][e] = verdict[u][e]
  BY <1>1, <1>3
<1>5. \A u \in Tasks \ {r.task} : status'[u] = status[u] /\ received'[u] = received[u]
  BY <1>1, <1>3 DEF Judge, Written, PutBack
<1>6. r.task \in Several => ~Waiting(r.task)
  BY DEF IInv, SeveralWait
<1>7. r.task \in Single => ~Waiting(r.task)
  BY <1>2 DEF IInv, SingleWaits, Unrejected
<1>8. r.task \in Several => ~Waiting(r.task)' /\ received'[r.task] = received[r.task]
  BY <1>1, <1>3, <1>6 DEF Judge, Written, Waiting, Several, Single, Regular
<1>9. r.task \in Single /\ r.decision = "approve" => ~Waiting(r.task)'
  BY <1>1, <1>3, <1>7 DEF Judge, Written, Waiting, Single, Regular
<1>10. round[r.task] # "adjudicating"
  BY <1>1 DEF IInv, AdjudicationWaits
<1> QED
  BY <1>2, <1>3, <1>4, <1>5, <1>6, <1>7, <1>8, <1>9, <1>10

LEMMA IInvFinishReview ==
  ASSUME IInv, TypeOK', NEW r0 \in reviewing, FinishReview(r0)
  PROVE  IInv'
<1>1. /\ r0.task \in Tasks /\ r0.expert \in Experts /\ r0.decision \in Decisions
      /\ \A r \in reviewing : r.task \in Tasks /\ r.expert \in Experts
  BY ReviewTyped DEF IInv
<1>2. ReviewsOfGrades /\ SingleWaits /\ SeveralWait /\ AdjudicationWaits
  BY DEF IInv
<1>3. /\ r0.expert \in Graders(r0.task)
      /\ \A u \in Tasks, e \in Experts :
           ~(u = r0.task /\ e = r0.expert) => verdict'[u][e] = verdict[u][e]
      /\ reviewing' = reviewing \ {r0}
      /\ UNCHANGED <<score, round>>
  BY FinishDecides
<1>4. \A u \in Tasks : Graders(u)' = Graders(u)
  BY <1>3 DEF Graders
<1>5. \A u \in Tasks \ {r0.task} : /\ Unrejected(u)' = Unrejected(u)
                                   /\ status'[u] = status[u] /\ received'[u] = received[u]
  BY <1>3, <1>4, FinishDecides DEF Unrejected, Graders
<1>6. \A u \in Tasks \ {r0.task} : Waiting(u)' <=> Waiting(u)
  BY <1>5 DEF Waiting
<1>7. ReviewsOfGrades'
  <2>1. \A u \in Tasks, e \in Experts : verdict'[u][e] # "none" => e \in Graders(u)'
    BY <1>2, <1>3, <1>4 DEF ReviewsOfGrades
  <2>2. \A r \in reviewing' : ~(r.task = r0.task /\ r.expert = r0.expert)
    BY <1>2, <1>3 DEF ReviewsOfGrades
  <2>3. \A r \in reviewing' :
          r.expert \in Graders(r.task)' /\ verdict'[r.task][r.expert] = "none"
    BY <1>1, <1>2, <1>3, <1>4, <2>2 DEF ReviewsOfGrades
  <2>4. \A r, q \in reviewing' : r.task = q.task /\ r.expert = q.expert => r = q
    BY <1>2, <1>3 DEF ReviewsOfGrades
  <2> QED
    BY <2>1, <2>3, <2>4 DEF ReviewsOfGrades
<1>8. SingleWaits'
  <2> SUFFICES ASSUME NEW u \in Single
               PROVE  /\ Waiting(u)' => Unrejected(u)' = {}
                      /\ \A a, b \in Unrejected(u)' : a = b
    BY DEF SingleWaits, Single, Regular
  <2>1. CASE u = r0.task
    <3>1. r0.expert \in Unrejected(u)
      BY <2>1, FinishDecides DEF Unrejected
    <3>2. Unrejected(u) = {r0.expert}
      BY <1>2, <3>1 DEF SingleWaits
    <3>3. Unrejected(u)' \subseteq {r0.expert}
      BY <1>1, <1>3, <1>4, <2>1, <3>2 DEF Unrejected, Graders
    <3>4. Waiting(u)' => r0.decision = "reject"
      BY <1>1, <2>1, FinishDecides DEF Decisions
    <3>5. r0.decision = "reject" => r0.expert \notin Unrejected(u)'
      BY <2>1, FinishDecides DEF Unrejected
    <3> QED
      BY <3>3, <3>4, <3>5
  <2>2. CASE u # r0.task
    BY <1>2, <1>5, <1>6, <2>2 DEF SingleWaits, Single, Regular
  <2> QED
    BY <2>1, <2>2
<1>9. SeveralWait'
  <2> SUFFICES ASSUME NEW u \in Several
               PROVE  /\ received'[u] >= 1 => Graders(u)' # {}
                      /\ ~Waiting(u)' => round'[u] # "none"
                      /\ Waiting(u)' => /\ received'[u] < Required[u]
                                        /\ \A a \in Experts : verdict'[u][a] = "none"
                                        /\ \A r \in reviewing' : r.task # u
    BY DEF SeveralWait, Several, Single, Regular
  <2>1. CASE u = r0.task
    <3>1. ~Waiting(u) /\ ~Waiting(u)' /\ Graders(u)' # {}
      <4>1. ~Waiting(u) /\ ~Waiting(u)'
        BY <2>1, FinishDecides
      <4>2. Graders(u)' # {}
        BY <1>1, <1>3, <1>4, <2>1
      <4> QED
        BY <4>1, <4>2
    <3>2. round'[u] # "none"
      BY <1>2, <1>3, <3>1 DEF SeveralWait
    <3> QED
      BY <3>1, <3>2
  <2>2. CASE u # r0.task
    <3>1. u \in Tasks
      BY DEF Several, Regular
    <3> QED
      BY <1>2, <1>3, <1>4, <1>5, <1>6, <2>2, <3>1 DEF SeveralWait
  <2> QED
    BY <2>1, <2>2
<1>10. AdjudicationWaits'
  <2> SUFFICES ASSUME NEW u \in Tasks, round'[u] = "adjudicating"
               PROVE  /\ u \in Several /\ status'[u] = "adjudication"
                      /\ \A a \in Experts : verdict'[u][a] = "none"
                      /\ \A r \in reviewing' : r.task # u
    BY DEF AdjudicationWaits
  <2>1. u # r0.task
    BY <1>3, FinishDecides
  <2> QED
    BY <1>2, <1>3, <1>5, <2>1 DEF AdjudicationWaits
<1> QED
  BY <1>7, <1>8, <1>9, <1>10 DEF IInv

LEMMA IInvResolve ==
  ASSUME IInv, TypeOK', NEW t \in Tasks, NEW e \in Experts, Resolve(t, e)
  PROVE  IInv'
<1>1. /\ round[t] = "adjudicating" /\ e \in Graders(t)
      /\ verdict' = [verdict EXCEPT ![t] =
           [f \in Experts |-> IF f \notin Graders(t) THEN verdict[t][f]
                              ELSE IF f = e THEN "approve" ELSE "reject"]]
      /\ status' = [status EXCEPT ![t] = "approved"]
      /\ round' = [round EXCEPT ![t] = "adjudicated"]
      /\ UNCHANGED <<received, score, reviewing>>
  BY DEF Resolve, taskVars, gradeVars
<1>2. ReviewsOfGrades /\ SingleWaits /\ SeveralWait /\ AdjudicationWaits
  BY DEF IInv
<1>3. /\ status \in [Tasks -> Statuses] /\ round \in [Tasks -> Rounds]
      /\ verdict \in [Tasks -> [Experts -> Decisions \cup {"none"}]]
  BY DEF IInv, TypeOK
<1>4. t \in Several /\ \A r \in reviewing : r.task # t
  BY <1>1, <1>2 DEF AdjudicationWaits
<1>5. \A u \in Tasks : Graders(u)' = Graders(u)
  BY <1>1 DEF Graders
<1>6. \A u \in Tasks \ {t} : /\ verdict'[u] = verdict[u] /\ Unrejected(u)' = Unrejected(u)
                             /\ status'[u] = status[u] /\ round'[u] = round[u]
  BY <1>1, <1>3, <1>5 DEF Unrejected
<1>7. \A u \in Tasks \ {t} : Waiting(u)' <=> Waiting(u)
  BY <1>6 DEF Waiting
<1>8. ~Waiting(t)' /\ round'[t] = "adjudicated"
  BY <1>1, <1>3 DEF Waiting
<1>9. \A r \in reviewing : r.task \in Tasks \ {t}
  BY <1>4, ReviewTyped DEF IInv
<1>10. ReviewsOfGrades'
  <2>1. \A u \in Tasks, f \in Experts : verdict'[u][f] # "none" => f \in Graders(u)'
    BY <1>1, <1>2, <1>3, <1>5 DEF ReviewsOfGrades
  <2>2. \A r \in reviewing' :
          r.expert \in Graders(r.task)' /\ verdict'[r.task][r.expert] = "none"
    BY <1>1, <1>2, <1>5, <1>6, <1>9 DEF ReviewsOfGrades
  <2> QED
    BY <1>1, <1>2, <2>1, <2>2 DEF ReviewsOfGrades
<1>11. SingleWaits'
  <2> SUFFICES ASSUME NEW u \in Single
               PROVE  /\ Waiting(u)' => Unrejected(u)' = {}
                      /\ \A a, b \in Unrejected(u)' : a = b
    BY DEF SingleWaits, Single, Regular
  <2>1. u \in Tasks \ {t}
    BY <1>4 DEF Several, Single, Regular
  <2> QED
    BY <1>2, <1>6, <1>7, <2>1 DEF SingleWaits
<1>12. SeveralWait'
  <2> SUFFICES ASSUME NEW u \in Several
               PROVE  /\ received'[u] >= 1 => Graders(u)' # {}
                      /\ ~Waiting(u)' => round'[u] # "none"
                      /\ Waiting(u)' => /\ received'[u] < Required[u]
                                        /\ \A a \in Experts : verdict'[u][a] = "none"
                                        /\ \A r \in reviewing' : r.task # u
    BY DEF SeveralWait, Several, Single, Regular
  <2>1. u \in Tasks
    BY DEF Several, Regular
  <2>2. CASE u = t
    BY <1>1, <1>5, <1>8, <2>2
  <2>3. CASE u # t
    BY <1>1, <1>2, <1>5, <1>6, <1>7, <2>1, <2>3 DEF SeveralWait
  <2> QED
    BY <2>2, <2>3
<1>13. AdjudicationWaits'
  BY <1>1, <1>2, <1>6, <1>8 DEF AdjudicationWaits, Several, Single, Regular
<1> QED
  BY <1>10, <1>11, <1>12, <1>13 DEF IInv

\* Every step of the task flow keeps the invariant.
LEMMA IInvNext == IInv /\ [Next]_vars => IInv'
<1> SUFFICES ASSUME IInv, [Next]_vars PROVE IInv'
  OBVIOUS
<1>1. TypeOK /\ TypeOK'
  BY TypeNext DEF IInv
<1>2. CASE ReclaimExpired
  <2>1. Quiet
    BY <1>1, <1>2 DEF ReclaimExpired, Reclaimed, Expired, TypeOK, Waiting, Quiet, gradeVars, roundVars
  <2> QED
    BY <1>1, <2>1, QuietKeeps
<1>3. ASSUME NEW t \in Tasks, Expire(t) PROVE IInv'
  <2>1. Quiet
    BY <1>3 DEF Expire, Waiting, Quiet, gradeVars, roundVars
  <2> QED
    BY <1>1, <2>1, QuietKeeps
<1>4. ASSUME NEW e \in Experts, NEW t \in Tasks, NEW row \in ExpertRows,
             ClaimNext(e, row, t) \/ ClaimById(e, row, t)
      PROVE  IInv'
  <2>1. Reclaimed(status, "queued")[t] = "queued" /\ Assign(e, t)
    BY <1>4 DEF ClaimNext, ClaimById, Claimable
  <2> QED
    BY <1>1, <2>1, AssignQuiet, QuietKeeps
<1>5. ASSUME NEW e \in Experts, NEW t \in Tasks, Release(e, t) PROVE IInv'
  <2>1. Quiet
    BY <1>1, <1>5 DEF Release, Holds, TypeOK, Waiting, Quiet, gradeVars, roundVars
  <2> QED
    BY <1>1, <2>1, QuietKeeps
<1>6. ASSUME NEW e \in Experts, NEW t \in Tasks, Resolve(t, e) PROVE IInv'
  BY <1>1, <1>6, IInvResolve
<1>7. ASSUME NEW e \in Experts, NEW t \in Tasks, NEW s \in Scores, Submit(e, t, s)
      PROVE  IInv'
  BY <1>1, <1>7, IInvSubmit
<1>8. ASSUME NEW e \in Experts, NEW t \in Tasks, NEW d \in Decisions, StartReview(t, e, d)
      PROVE  IInv'
  BY <1>1, <1>8, IInvStartReview
<1>9. ASSUME NEW r \in reviewing, FinishReview(r) PROVE IInv'
  BY <1>1, <1>9, IInvFinishReview
<1>10. ASSUME NEW r \in reviewing, AbortReview(r) PROVE IInv'
  BY <1>1, <1>10, IInvAbortReview
<1>11. CASE UNCHANGED vars
  <2>1. Quiet
    BY <1>11 DEF vars, Waiting, Quiet
  <2> QED
    BY <1>1, <2>1, QuietKeeps
<1> QED
  BY <1>2, <1>3, <1>4, <1>5, <1>6, <1>7, <1>8, <1>9, <1>10, <1>11 DEF Next

\* The invariant that keeps reviews, rounds and the queue apart holds in every behaviour.
THEOREM InvariantHolds == Spec => []IInv
BY IInvInit, IInvNext, PTL DEF Spec

-----------------------------------------------------------------------------
(* A decision on a grade is final.                                         *)

LEMMA VerdictStep ==
  IInv /\ [Next]_vars =>
    \A t \in Tasks, e \in Experts : verdict[t][e] # "none" => verdict'[t][e] = verdict[t][e]
<1> DEFINE Kept == \A t \in Tasks, e \in Experts :
                     verdict[t][e] # "none" => verdict'[t][e] = verdict[t][e]
<1> SUFFICES ASSUME IInv, [Next]_vars PROVE Kept
  OBVIOUS
<1>1. CASE UNCHANGED verdict
  BY <1>1
<1>2. ASSUME NEW r \in reviewing, FinishReview(r) PROVE Kept
  BY <1>2, FinishDecides
<1>3. ASSUME NEW e \in Experts, NEW t \in Tasks, Resolve(t, e) PROVE Kept
  <2>1. verdict \in [Tasks -> [Experts -> Decisions \cup {"none"}]]
    BY DEF IInv, TypeOK
  <2>2. \A f \in Experts : verdict[t][f] = "none"
    BY <1>3 DEF Resolve, IInv, AdjudicationWaits
  <2>3. \A u \in Tasks \ {t} : verdict'[u] = verdict[u]
    BY <1>3, <2>1 DEF Resolve
  <2> QED
    BY <2>2, <2>3
<1>4. \/ UNCHANGED verdict
      \/ \E r \in reviewing : FinishReview(r)
      \/ \E e \in Experts, t \in Tasks : Resolve(t, e)
  BY DEF Next, vars, ReclaimExpired, Expire, ClaimNext, ClaimById, Assign, Release, Submit,
         StartReview, AbortReview
<1> QED
  BY <1>1, <1>2, <1>3, <1>4

\* VerdictFinal: no interleaving of reviewers and senior reviewers decides a grade twice.
THEOREM VerdictsAreFinal == Spec => VerdictFinal
<1>1. IInv /\ [Next]_vars =>
        [\A t \in Tasks, e \in Experts :
           verdict[t][e] # "none" => verdict'[t][e] = verdict[t][e]]_vars
  BY VerdictStep
<1> QED
  BY <1>1, InvariantHolds, PTL DEF Spec, VerdictFinal

-----------------------------------------------------------------------------
(* The task flow implements the promise of the dataset.                    *)

\* Grade e of task t is a row of an export.
IsRow(t, e) ==
  verdict[t][e] = "approve" /\ t \notin Golden /\ (round[t] = "none" \/ delivered[t] = e)

LEMMA ExportedRows ==
  \A t \in Tasks, e \in Experts : <<t, e>> \in Exported <=> IsRow(t, e)
BY DEF Exported, IsRow

\* A step that changes the row of one grade at most, and takes none back, ships it.
LEMMA ShipsRow ==
  ASSUME NEW t \in Tasks, NEW e \in Experts,
         \A u \in Tasks, f \in Experts : ~(u = t /\ f = e) => (IsRow(u, f)' <=> IsRow(u, f)),
         \A f \in Experts : ~IsRow(t, f)
  PROVE  Exported' = Exported \/ D!Ship(t, e)
<1>1. \A u \in Tasks, f \in Experts : <<u, f>> \in Exported' <=> IsRow(u, f)'
  BY DEF Exported, IsRow
<1>2. Exported \subseteq Tasks \X Experts /\ Exported' \subseteq Tasks \X Experts
  BY DEF Exported
<1>3. \A f \in Experts : <<t, f>> \notin Exported
  BY ExportedRows
<1>4. \A u \in Tasks, f \in Experts :
        ~(u = t /\ f = e) => (<<u, f>> \in Exported' <=> <<u, f>> \in Exported)
  BY <1>1, ExportedRows
<1>5. CASE IsRow(t, e)'
  <2>1. <<t, e>> \in Exported'
    BY <1>1, <1>5
  <2>2. Exported' = Exported \cup {<<t, e>>}
    BY <1>2, <1>4, <2>1
  <2> QED
    BY <1>3, <2>2 DEF D!Ship
<1>6. CASE ~IsRow(t, e)'
  <2>1. <<t, e>> \notin Exported' /\ <<t, e>> \notin Exported
    BY <1>1, <1>3, <1>6
  <2>2. Exported' = Exported
    BY <1>2, <1>4, <2>1
  <2> QED
    BY <2>2
<1> QED
  BY <1>5, <1>6

\* A step that changes no row stutters.
LEMMA KeepsRows ==
  ASSUME \A u \in Tasks, f \in Experts : IsRow(u, f)' <=> IsRow(u, f)
  PROVE  Exported' = Exported
<1>1. \A u \in Tasks, f \in Experts : <<u, f>> \in Exported' <=> IsRow(u, f)'
  BY DEF Exported, IsRow
<1>2. Exported \subseteq Tasks \X Experts /\ Exported' \subseteq Tasks \X Experts
  BY DEF Exported
<1>3. \A u \in Tasks, f \in Experts : <<u, f>> \in Exported' <=> <<u, f>> \in Exported
  BY <1>1, ExportedRows
<1>4. ASSUME NEW row \in Tasks \X Experts PROVE row \in Exported' <=> row \in Exported
  <2>1. PICK u \in Tasks, f \in Experts : row = <<u, f>>
    OBVIOUS
  <2> QED
    BY <1>3, <2>1
<1> QED
  BY <1>2, <1>4

\* A submission exports nothing: its task has no approved grade, and no other task changes.
LEMMA SubmitKeepsRows ==
  ASSUME IInv, NEW e \in Experts, NEW t \in Tasks, NEW s \in Scores, Submit(e, t, s)
  PROVE  Exported' = Exported
<1>1. TypeOK /\ ReviewsOfGrades /\ SingleWaits /\ SeveralWait
  BY DEF IInv
<1>2. UNCHANGED verdict /\ Waiting(t)
  BY <1>1, SubmitGrades
<1>3. \A u \in Tasks \ {t} : round'[u] = round[u] /\ delivered'[u] = delivered[u]
  BY <1>1 DEF Submit, Evaluate, TypeOK, roundVars
<1>4. t \in Regular => \A f \in Experts : verdict[t][f] # "approve"
  <2>1. CASE t \in Single
    BY <1>1, <1>2, <2>1 DEF ReviewsOfGrades, SingleWaits, Unrejected
  <2>2. CASE t \in Several
    BY <1>1, <1>2, <2>2 DEF SeveralWait
  <2> QED
    BY <2>1, <2>2 DEF Several
<1>5. \A f \in Experts : ~IsRow(t, f) /\ ~IsRow(t, f)'
  BY <1>2, <1>4 DEF IsRow, Regular
<1>6. \A u \in Tasks \ {t}, f \in Experts : IsRow(u, f)' <=> IsRow(u, f)
  BY <1>2, <1>3 DEF IsRow
<1> QED
  BY <1>5, <1>6, KeepsRows

\* An adjudication exports the grade it picks: none was reviewed before.
LEMMA ResolveShips ==
  ASSUME IInv, NEW t \in Tasks, NEW e \in Experts, Resolve(t, e)
  PROVE  Exported' = Exported \/ D!Ship(t, e)
<1>1. /\ verdict \in [Tasks -> [Experts -> Decisions \cup {"none"}]]
      /\ round \in [Tasks -> Rounds] /\ delivered \in [Tasks -> Experts \cup {NoExpert}]
  BY DEF IInv, TypeOK
<1>2. \A f \in Experts : verdict[t][f] = "none"
  BY DEF Resolve, IInv, AdjudicationWaits
<1>3. \A u \in Tasks \ {t} : /\ verdict'[u] = verdict[u] /\ round'[u] = round[u]
                             /\ delivered'[u] = delivered[u]
  BY <1>1 DEF Resolve
<1>4. round'[t] = "adjudicated" /\ delivered'[t] = e
  BY <1>1 DEF Resolve
<1>5. \A f \in Experts : ~IsRow(t, f)
  BY <1>2 DEF IsRow
<1>6. \A f \in Experts \ {e} : ~IsRow(t, f)'
  BY <1>4 DEF IsRow
<1>7. \A u \in Tasks \ {t}, f \in Experts : IsRow(u, f)' <=> IsRow(u, f)
  BY <1>3 DEF IsRow
<1>8. \A u \in Tasks, f \in Experts : ~(u = t /\ f = e) => (IsRow(u, f)' <=> IsRow(u, f))
  BY <1>5, <1>6, <1>7
<1> QED
  BY <1>5, <1>8, ShipsRow

\* A task under review has no row that the review could take back or duplicate, unless the
\* reviewed grade is not the delivered one.
LEMMA ReviewedRows ==
  ASSUME IInv, NEW r \in reviewing
  PROVE  \A f \in Experts : IsRow(r.task, f) => round[r.task] # "none" /\ delivered[r.task] = f
                                                /\ f # r.expert
<1>1. ReviewsOfGrades /\ SingleWaits /\ SeveralWait
  BY DEF IInv
<1>2. r.task \in Tasks /\ r.expert \in Graders(r.task) /\ verdict[r.task][r.expert] = "none"
  BY <1>1, ReviewTyped DEF IInv, ReviewsOfGrades
<1>3. r.task \in Several => round[r.task] # "none"
  BY <1>1 DEF SeveralWait
<1>4. r.task \in Single => \A f \in Experts : verdict[r.task][f] # "approve"
  <2> SUFFICES ASSUME r.task \in Single, NEW f \in Experts, verdict[r.task][f] = "approve"
               PROVE  FALSE
    OBVIOUS
  <2>1. f \in Unrejected(r.task) /\ r.expert \in Unrejected(r.task)
    BY <1>1, <1>2 DEF ReviewsOfGrades, Unrejected
  <2>2. f = r.expert
    BY <1>1, <2>1 DEF SingleWaits
  <2> QED
    BY <1>2, <2>2
<1> QED
  BY <1>2, <1>3, <1>4 DEF IsRow, Several, Regular

LEMMA FinishReviewShips ==
  ASSUME IInv, NEW r \in reviewing, FinishReview(r)
  PROVE  Exported' = Exported \/ \E e \in Experts : D!Ship(r.task, e)
<1> DEFINE t == r.task
           v == [verdict[t] EXCEPT ![r.expert] = r.decision]
<1>1. /\ t \in Tasks /\ r.expert \in Experts /\ r.decision \in Decisions
      /\ verdict \in [Tasks -> [Experts -> Decisions \cup {"none"}]]
      /\ delivered \in [Tasks -> Experts \cup {NoExpert}]
  BY ReviewTyped DEF IInv, TypeOK
<1>2. /\ verdict' = [verdict EXCEPT ![t] = v] /\ UNCHANGED round
      /\ verdict[t][r.expert] = "none"
      /\ Redeliver(r, v)
  BY FinishDecides DEF FinishReview
<1>3. \A u \in Tasks \ {t} : verdict'[u] = verdict[u] /\ delivered'[u] = delivered[u]
  BY <1>1, <1>2 DEF Redeliver
<1>4. \A u \in Tasks \ {t}, f \in Experts : IsRow(u, f)' <=> IsRow(u, f)
  BY <1>2, <1>3 DEF IsRow
<1>5. \A f \in Experts \ {r.expert} : verdict'[t][f] = verdict[t][f]
  BY <1>1, <1>2
<1>6. CASE delivered' = delivered
  <2>1. \A f \in Experts \ {r.expert} : IsRow(t, f)' <=> IsRow(t, f)
    BY <1>1, <1>2, <1>5, <1>6 DEF IsRow
  <2>2. CASE \A f \in Experts : ~IsRow(t, f)
    <3>1. \A u \in Tasks, f \in Experts :
            ~(u = t /\ f = r.expert) => (IsRow(u, f)' <=> IsRow(u, f))
      BY <1>4, <2>1
    <3> QED
      BY <1>1, <2>2, <3>1, ShipsRow
  <2>3. CASE \E f \in Experts : IsRow(t, f)
    <3>1. round[t] # "none" /\ delivered[t] # r.expert
      BY <2>3, ReviewedRows
    <3>2. ~IsRow(t, r.expert) /\ ~IsRow(t, r.expert)'
      BY <1>2, <1>6, <3>1 DEF IsRow
    <3> QED
      BY <1>4, <2>1, <3>2, KeepsRows
  <2> QED
    BY <2>2, <2>3
<1>7. CASE delivered' # delivered
  <2>1. /\ r.decision = "reject" /\ round[t] = "agreed" /\ delivered[t] = r.expert
        /\ delivered' = [delivered EXCEPT ![t] = Redelivery(t, v)]
    BY <1>2, <1>7 DEF Redeliver
  <2>2. \A f \in Experts : ~IsRow(t, f)
    BY <2>1, ReviewedRows
  <2> DEFINE pick == Redelivery(t, v)
  <2> HIDE DEF v
  <2>3. delivered'[t] = pick
    BY <1>1, <2>1
  <2>4. \A f \in Experts : IsRow(t, f)' => f = pick
    BY <1>2, <2>1, <2>3 DEF IsRow
  <2>5. CASE pick \in Experts
    <3>1. \A u \in Tasks, f \in Experts :
            ~(u = t /\ f = pick) => (IsRow(u, f)' <=> IsRow(u, f))
      BY <1>4, <2>2, <2>4
    <3> QED
      BY <1>1, <2>2, <2>5, <3>1, ShipsRow
  <2>6. CASE pick \notin Experts
    BY <1>4, <2>2, <2>4, <2>6, KeepsRows
  <2> QED
    BY <2>5, <2>6
<1> QED
  BY <1>6, <1>7

\* Every step of the task flow ships one row of the dataset or leaves it as it is.
LEMMA DatasetStep == IInv /\ [Next]_vars => [D!Next]_Exported
<1> SUFFICES ASSUME IInv, [Next]_vars PROVE D!Next \/ Exported' = Exported
  OBVIOUS
<1>1. CASE UNCHANGED <<verdict, round, delivered>>
  BY <1>1 DEF Exported
<1>2. ASSUME NEW e \in Experts, NEW t \in Tasks, NEW s \in Scores, Submit(e, t, s)
      PROVE  Exported' = Exported
  BY <1>2, SubmitKeepsRows
<1>3. ASSUME NEW e \in Experts, NEW t \in Tasks, Resolve(t, e)
      PROVE  D!Next \/ Exported' = Exported
  BY <1>3, ResolveShips DEF D!Next
<1>4. ASSUME NEW r \in reviewing, FinishReview(r)
      PROVE  D!Next \/ Exported' = Exported
  <2>1. r.task \in Tasks
    BY ReviewTyped DEF IInv
  <2> QED
    BY <1>4, <2>1, FinishReviewShips DEF D!Next
<1>5. \/ UNCHANGED <<verdict, round, delivered>>
      \/ \E e \in Experts, t \in Tasks, s \in Scores : Submit(e, t, s)
      \/ \E e \in Experts, t \in Tasks : Resolve(t, e)
      \/ \E r \in reviewing : FinishReview(r)
  BY DEF Next, vars, roundVars, ReclaimExpired, Expire, ClaimNext, ClaimById, Assign, Release,
         StartReview, AbortReview
<1> QED
  BY <1>1, <1>2, <1>3, <1>4, <1>5

\* At most one row per task, and no exported row is ever taken back, whatever the reviewers
\* and senior reviewers do at the same time (delivery._rows over grading and consensus).
THEOREM DatasetImplemented == Spec => DatasetSpec
<1>1. Init => D!Init
  BY DEF Init, D!Init, Exported
<1>2. IInv /\ [Next]_vars => [D!Next]_Exported
  BY DatasetStep
<1> QED
  BY <1>1, <1>2, InvariantHolds, PTL DEF Spec, DatasetSpec, D!Spec

-----------------------------------------------------------------------------
(* The counts.                                                             *)

\* The grades that grades_received counts.
InPlay(t) == IF t \in Single THEN Unrejected(t) ELSE Graders(t)

GoldenWaits == \A t \in Golden : Waiting(t)

CountInv == GradeCount /\ QueuedWhileIncomplete /\ LoadedComplete /\ GoldenWaits

LEMMA InPlayFinite ==
  ASSUME NEW t \in Tasks
  PROVE  IsFiniteSet(InPlay(t)) /\ IsFiniteSet(Unrejected(t)) /\ IsFiniteSet(Graders(t))
BY GradersFinite DEF InPlay, Unrejected, Graders

LEMMA CountInit == Init => CountInv
<1> SUFFICES ASSUME Init PROVE CountInv
  OBVIOUS
<1>1. \A t \in Tasks : Graders(t) = {} /\ Unrejected(t) = {} /\ received[t] = 0 /\ Waiting(t)
  BY DEF Init, Graders, Unrejected, Waiting
<1>2. GradeCount
  BY <1>1, FS_EmptySet DEF GradeCount
<1>3. QueuedWhileIncomplete /\ GoldenWaits
  BY <1>1 DEF QueuedWhileIncomplete, GoldenWaits, Regular
<1>4. LoadedComplete
  BY DEF Init, LoadedComplete
<1> QED
  BY <1>2, <1>3, <1>4 DEF CountInv

LEMMA CountQuiet ==
  ASSUME CountInv, Quiet
  PROVE  CountInv'
<1>1. \A t \in Tasks : Graders(t)' = Graders(t) /\ Unrejected(t)' = Unrejected(t)
  BY DEF Quiet, Graders, Unrejected
<1>2. GradeCount'
  BY <1>1 DEF CountInv, GradeCount, Quiet
<1>3. QueuedWhileIncomplete' /\ GoldenWaits'
  BY DEF CountInv, QueuedWhileIncomplete, GoldenWaits, Quiet, Regular
<1>4. LoadedComplete'
  BY DEF CountInv, LoadedComplete, Quiet
<1> QED
  BY <1>2, <1>3, <1>4 DEF CountInv

\* A submission that leaves its task unfinished puts it back; a golden task never finishes.
LEMMA SubmitRequeues ==
  ASSUME TypeOK, NEW e \in Experts, NEW t \in Tasks, NEW s \in Scores, Submit(e, t, s),
         ~Completes(t)
  PROVE  Waiting(t)' /\ status'[t] = "queued"
BY DEF Submit, TypeOK, Waiting

\* The submitted grade is not rejected.
LEMMA SubmitUnrejected ==
  ASSUME IInv, NEW e \in Experts, NEW t \in Tasks, NEW s \in Scores, Submit(e, t, s)
  PROVE  Unrejected(t)' = Unrejected(t) \cup {e}
<1>1. /\ Graders(t)' = Graders(t) \cup {e} /\ e \notin Graders(t)
      /\ UNCHANGED verdict
  BY SubmitGrades DEF IInv
<1>2. verdict[t][e] = "none"
  BY <1>1 DEF IInv, ReviewsOfGrades
<1> QED
  BY <1>1, <1>2 DEF Unrejected

LEMMA CountSubmit ==
  ASSUME IInv, CountInv, NEW e \in Experts, NEW t \in Tasks, NEW s \in Scores, Submit(e, t, s)
  PROVE  CountInv'
<1>1. TypeOK /\ received[t] \in Nat /\ Required[t] \in Nat \ {0}
  BY DEF IInv, TypeOK
<1>2. /\ Graders(t)' = Graders(t) \cup {e} /\ e \notin Graders(t)
      /\ \A u \in Tasks \ {t} : Graders(u)' = Graders(u) /\ Unrejected(u)' = Unrejected(u)
      /\ \A u \in Tasks \ {t} : received'[u] = received[u] /\ (Waiting(u)' <=> Waiting(u))
      /\ received'[t] = received[t] + 1 /\ Waiting(t)
      /\ UNCHANGED <<verdict, reviewing>>
  BY <1>1, SubmitGrades DEF Waiting
<1>3. GradeCount'
  <2>1. Unrejected(t)' = Unrejected(t) \cup {e} /\ e \notin Unrejected(t)
    BY <1>2, SubmitUnrejected DEF Unrejected
  <2>2. InPlay(t)' = InPlay(t) \cup {e} /\ e \notin InPlay(t)
    BY <1>2, <2>1 DEF InPlay, Single, Regular
  <2>3. Cardinality(InPlay(t)') = Cardinality(InPlay(t)) + 1
    BY <2>2, InPlayFinite, FS_AddElement
  <2>4. received[t] = Cardinality(InPlay(t))
    BY DEF CountInv, GradeCount, InPlay
  <2>5. received'[t] = Cardinality(InPlay(t)')
    BY <1>2, <2>3, <2>4
  <2>6. \A u \in Tasks \ {t} : InPlay(u)' = InPlay(u)
    BY <1>2 DEF InPlay, Single, Regular
  <2>7. \A u \in Tasks \ {t} : received'[u] = Cardinality(InPlay(u)')
    BY <1>2, <2>6 DEF CountInv, GradeCount, InPlay
  <2> QED
    BY <2>5, <2>7 DEF GradeCount, InPlay, Single, Regular
<1>4. QueuedWhileIncomplete'
  <2> SUFFICES ASSUME NEW u \in Regular
               PROVE  Waiting(u)' <=> received'[u] < Required[u]
    BY DEF QueuedWhileIncomplete, Regular
  <2>1. CASE u # t
    BY <1>2, <2>1 DEF CountInv, QueuedWhileIncomplete, Regular
  <2>2. CASE u = t /\ t \in Single
    <3>1. ~Waiting(t)'
      BY <2>2, SubmitOutcome
    <3> QED
      BY <1>1, <1>2, <2>2, <3>1 DEF Single
  <2>3. CASE u = t /\ t \in Several
    <3>1. ~Waiting(t)' => Completes(t)
      BY <1>1, SubmitRequeues
    <3>2. Completes(t) => ~(received'[t] < Required[t])
      BY <1>1, <1>2 DEF Completes
    <3>3. Waiting(t)' => received'[t] < Required[t]
      BY <2>3, SubmitOutcome
    <3> QED
      BY <2>3, <3>1, <3>2, <3>3
  <2> QED
    BY <2>1, <2>2, <2>3 DEF Several
<1>5. GoldenWaits'
  <2>1. t \in Golden => Waiting(t)'
    BY <1>1, SubmitRequeues DEF Completes, Regular
  <2> QED
    BY <1>2, <2>1 DEF CountInv, GoldenWaits
<1>6. LoadedComplete'
  BY <1>2 DEF CountInv, LoadedComplete
<1> QED
  BY <1>3, <1>4, <1>5, <1>6 DEF CountInv

\* A grade that is about to be reviewed belongs to a task whose grades are complete.
LEMMA CountStartReview ==
  ASSUME IInv, CountInv, NEW e \in Experts, NEW t \in Tasks, NEW d \in Decisions,
         StartReview(t, e, d)
  PROVE  CountInv'
<1> DEFINE new == [task |-> t, expert |-> e, decision |-> d,
                   status |-> status[t], received |-> received[t]]
<1>1. /\ reviewing' = reviewing \cup {new}
      /\ e \in Graders(t) /\ verdict[t][e] = "none" /\ ~ConsensusPending(t)
      /\ UNCHANGED <<status, received, score, verdict>>
  BY DEF StartReview, taskVars, gradeVars
<1>2. new.task = t /\ new.status = status[t] /\ new.received = received[t]
  OBVIOUS
<1> HIDE DEF new
<1>3. \A u \in Tasks : Graders(u)' = Graders(u) /\ Unrejected(u)' = Unrejected(u)
  BY <1>1 DEF Graders, Unrejected
<1>4. GradeCount' /\ QueuedWhileIncomplete' /\ GoldenWaits'
  BY <1>1, <1>3 DEF CountInv, GradeCount, QueuedWhileIncomplete, GoldenWaits, Waiting,
                    Single, Regular
<1>5. t \in Single => ~Waiting(t) /\ received[t] = 1
  <2> SUFFICES ASSUME t \in Single PROVE ~Waiting(t) /\ received[t] = 1
    OBVIOUS
  <2>1. e \in Unrejected(t)
    BY <1>1 DEF Unrejected
  <2>2. Unrejected(t) = {e} /\ ~Waiting(t)
    BY <2>1 DEF IInv, SingleWaits
  <2>3. received[t] = Cardinality({e})
    BY <2>2 DEF CountInv, GradeCount
  <2> QED
    BY <2>2, <2>3, FS_Singleton
<1>6. t \in Several => ~Waiting(t)
  <2> SUFFICES ASSUME t \in Several PROVE ~Waiting(t)
    OBVIOUS
  <2>1. received[t] \in Nat /\ Required[t] \in Nat /\ Required[t] >= 2 /\ t \in Regular
    BY SeveralRequire DEF IInv
  <2>2. ~(received[t] < Required[t])
    BY <1>1, <2>1 DEF ConsensusPending
  <2> QED
    BY <2>2 DEF IInv, SeveralWait
<1>7. t \in Regular => new.status \notin {"queued", "assigned"}
  BY <1>2, <1>5, <1>6 DEF Several, Waiting
<1>8. LoadedComplete'
  BY <1>1, <1>2, <1>5, <1>7 DEF CountInv, LoadedComplete, Regular, Single
<1> QED
  BY <1>4, <1>8 DEF CountInv

LEMMA CountAbortReview ==
  ASSUME CountInv, NEW r0 \in reviewing, AbortReview(r0)
  PROVE  CountInv'
<1>1. /\ reviewing' = reviewing \ {r0}
      /\ UNCHANGED <<status, received, score, verdict>>
  BY DEF AbortReview, taskVars, gradeVars
<1>2. \A u \in Tasks : Graders(u)' = Graders(u) /\ Unrejected(u)' = Unrejected(u)
  BY <1>1 DEF Graders, Unrejected
<1>3. GradeCount' /\ QueuedWhileIncomplete' /\ GoldenWaits'
  BY <1>1, <1>2 DEF CountInv, GradeCount, QueuedWhileIncomplete, GoldenWaits, Waiting
<1>4. LoadedComplete'
  BY <1>1 DEF CountInv, LoadedComplete
<1> QED
  BY <1>3, <1>4 DEF CountInv

\* What a decision does to the sets of grades: a rejection removes one, an approval none.
LEMMA FinishGrades ==
  ASSUME IInv, NEW r \in reviewing, FinishReview(r)
  PROVE  /\ \A u \in Tasks : Graders(u)' = Graders(u)
         /\ \A u \in Tasks \ {r.task} : Unrejected(u)' = Unrejected(u)
         /\ r.expert \in Unrejected(r.task)
         /\ Unrejected(r.task)' = IF r.decision = "reject"
                                  THEN Unrejected(r.task) \ {r.expert} ELSE Unrejected(r.task)
<1>1. r.task \in Tasks /\ r.expert \in Experts
  BY ReviewTyped DEF IInv
<1>2. /\ r.expert \in Graders(r.task) /\ verdict[r.task][r.expert] = "none"
      /\ verdict'[r.task][r.expert] = r.decision
      /\ \A u \in Tasks, e \in Experts :
           ~(u = r.task /\ e = r.expert) => verdict'[u][e] = verdict[u][e]
      /\ UNCHANGED score
  BY FinishDecides
<1>3. \A u \in Tasks : Graders(u)' = Graders(u)
  BY <1>2 DEF Graders
<1>4. \A u \in Tasks \ {r.task} : Unrejected(u)' = Unrejected(u)
  BY <1>2, <1>3 DEF Unrejected, Graders
<1>5. r.expert \in Unrejected(r.task)
  BY <1>2 DEF Unrejected
<1>6. ASSUME NEW e \in Experts
      PROVE  e \in Unrejected(r.task)' <=>
               e \in Unrejected(r.task) /\ ~(e = r.expert /\ r.decision = "reject")
  BY <1>1, <1>2, <1>3 DEF Unrejected
<1>7. Unrejected(r.task) \subseteq Experts /\ Unrejected(r.task)' \subseteq Experts
  BY DEF Unrejected, Graders
<1> QED
  BY <1>3, <1>4, <1>5, <1>6, <1>7

\* The rejected grade of a single-grader task is its only one: the count goes back to zero
\* and the task to the queue, whatever has been written to its row since it was loaded.
LEMMA RejectedSingle ==
  ASSUME IInv, CountInv, NEW r \in reviewing, FinishReview(r),
         r.task \in Single, r.decision = "reject"
  PROVE  received'[r.task] = 0 /\ Waiting(r.task)' /\ Unrejected(r.task)' = {}
<1>1. r.task \in Tasks /\ r.task \in Regular /\ Required[r.task] = 1
  BY DEF Single, Regular
<1>2. /\ status' = Written(r, "queued") /\ received' = PutBack(r)
      /\ status \in [Tasks -> Statuses] /\ received \in [Tasks -> Nat]
  BY <1>1 DEF FinishReview, Judge, Regular, IInv, TypeOK
<1>3. r.received = 1 /\ r.status # "queued"
  BY <1>1 DEF CountInv, LoadedComplete
<1>4. received'[r.task] = 0
  BY <1>1, <1>2, <1>3 DEF PutBack
<1>5. status'[r.task] = "queued"
  BY <1>1, <1>2, <1>3 DEF Written
<1>6. Unrejected(r.task) \subseteq {r.expert}
  BY FinishGrades DEF IInv, SingleWaits
<1>7. Unrejected(r.task)' = {}
  BY <1>6, FinishGrades
<1> QED
  BY <1>4, <1>5, <1>7 DEF Waiting

LEMMA CountFinishReview ==
  ASSUME IInv, CountInv, NEW r \in reviewing, FinishReview(r)
  PROVE  CountInv'
<1> DEFINE t == r.task
<1>1. /\ t \in Tasks /\ r.expert \in Experts /\ r.decision \in Decisions
      /\ received \in [Tasks -> Nat] /\ Required[t] \in Nat \ {0}
  BY ReviewTyped DEF IInv, TypeOK
<1>2. /\ \A u \in Tasks : Graders(u)' = Graders(u)
      /\ \A u \in Tasks \ {t} : Unrejected(u)' = Unrejected(u)
  BY FinishGrades
<1>3. /\ \A u \in Tasks \ {t} : status'[u] = status[u] /\ received'[u] = received[u]
      /\ reviewing' = reviewing \ {r}
  BY FinishDecides
<1>4. ~(t \in Single /\ r.decision = "reject") => received'[t] = received[t]
  BY <1>1 DEF FinishReview, Judge, Single, Regular, Decisions
<1>5. \A u \in Tasks \ {t} : Waiting(u)' <=> Waiting(u)
  BY <1>3 DEF Waiting
<1>6. GradeCount'
  <2>1. \A u \in Tasks \ {t} : InPlay(u)' = InPlay(u)
    BY <1>2 DEF InPlay, Single, Regular
  <2>2. received'[t] = Cardinality(InPlay(t)')
    <3>1. CASE t \in Single /\ r.decision = "reject"
      <4>1. InPlay(t)' = {} /\ received'[t] = 0
        BY <3>1, RejectedSingle DEF InPlay, Single, Regular
      <4> QED
        BY <4>1, FS_EmptySet
    <3>2. CASE ~(t \in Single /\ r.decision = "reject")
      <4>1. InPlay(t)' = InPlay(t)
        BY <1>1, <1>2, <3>2, FinishGrades DEF InPlay, Single, Regular
      <4> QED
        BY <1>1, <1>4, <3>2, <4>1 DEF CountInv, GradeCount, InPlay
    <3> QED
      BY <3>1, <3>2
  <2>3. \A u \in Tasks \ {t} : received'[u] = Cardinality(InPlay(u)')
    BY <1>3, <2>1 DEF CountInv, GradeCount, InPlay
  <2> QED
    BY <2>2, <2>3 DEF GradeCount, InPlay, Single, Regular
<1>7. QueuedWhileIncomplete'
  <2> SUFFICES ASSUME NEW u \in Regular
               PROVE  Waiting(u)' <=> received'[u] < Required[u]
    BY DEF QueuedWhileIncomplete, Regular
  <2>1. CASE u # t
    BY <1>3, <1>5, <2>1 DEF CountInv, QueuedWhileIncomplete, Regular
  <2>2. CASE u = t /\ t \in Single /\ r.decision = "reject"
    BY <1>1, <2>2, RejectedSingle
  <2>3. CASE u = t /\ ~(t \in Single /\ r.decision = "reject")
    <3>1. ~Waiting(t) /\ ~Waiting(t)'
      BY <1>1, <2>3, FinishDecides DEF Several, Decisions
    <3> QED
      BY <1>4, <2>3, <3>1 DEF CountInv, QueuedWhileIncomplete
  <2> QED
    BY <2>1, <2>2, <2>3
<1>8. GoldenWaits'
  <2>1. t \in Golden => Waiting(t)'
    BY DEF FinishReview, Judge, Regular, CountInv, GoldenWaits, Waiting
  <2> QED
    BY <1>5, <2>1 DEF CountInv, GoldenWaits
<1>9. LoadedComplete'
  BY <1>3 DEF CountInv, LoadedComplete
<1> QED
  BY <1>6, <1>7, <1>8, <1>9 DEF CountInv

LEMMA CountResolve ==
  ASSUME IInv, CountInv, NEW t \in Tasks, NEW e \in Experts, Resolve(t, e)
  PROVE  CountInv'
<1>1. /\ status' = [status EXCEPT ![t] = "approved"]
      /\ UNCHANGED <<received, score, reviewing>>
      /\ status \in [Tasks -> Statuses]
      /\ verdict \in [Tasks -> [Experts -> Decisions \cup {"none"}]]
  BY DEF Resolve, taskVars, gradeVars, IInv, TypeOK
<1>2. t \in Several /\ ~Waiting(t) /\ ~Waiting(t)'
  BY <1>1 DEF Resolve, IInv, AdjudicationWaits, Waiting
<1>3. \A u \in Tasks : Graders(u)' = Graders(u)
  BY <1>1 DEF Graders
<1>4. \A u \in Tasks \ {t} : Unrejected(u)' = Unrejected(u) /\ (Waiting(u)' <=> Waiting(u))
  BY <1>1, <1>3 DEF Resolve, Unrejected, Waiting
<1>5. \A u \in Tasks : InPlay(u)' = InPlay(u)
  BY <1>2, <1>3, <1>4 DEF InPlay, Single, Several, Regular
<1>6. GradeCount'
  BY <1>1, <1>5 DEF CountInv, GradeCount, InPlay, Single, Regular
<1>7. QueuedWhileIncomplete' /\ GoldenWaits'
  BY <1>1, <1>2, <1>4 DEF CountInv, QueuedWhileIncomplete, GoldenWaits, Several, Regular
<1>8. LoadedComplete'
  BY <1>1 DEF CountInv, LoadedComplete
<1> QED
  BY <1>6, <1>7, <1>8 DEF CountInv

\* A step routes tasks and leaves grades alone, or it is one of the other five.
LEMMA StepKinds ==
  ASSUME TypeOK, [Next]_vars
  PROVE  \/ Quiet
         \/ \E e \in Experts, t \in Tasks, s \in Scores : Submit(e, t, s)
         \/ \E e \in Experts, t \in Tasks, d \in Decisions : StartReview(t, e, d)
         \/ \E r \in reviewing : FinishReview(r)
         \/ \E r \in reviewing : AbortReview(r)
         \/ \E e \in Experts, t \in Tasks : Resolve(t, e)
<1>1. CASE ReclaimExpired
  BY <1>1 DEF ReclaimExpired, Reclaimed, Expired, TypeOK, Waiting, Quiet, gradeVars, roundVars
<1>2. ASSUME NEW t \in Tasks, Expire(t) PROVE Quiet
  BY <1>2 DEF Expire, Waiting, Quiet, gradeVars, roundVars
<1>3. ASSUME NEW e \in Experts, NEW t \in Tasks, NEW row \in ExpertRows,
             ClaimNext(e, row, t) \/ ClaimById(e, row, t)
      PROVE  Quiet
  <2>1. Reclaimed(status, "queued")[t] = "queued" /\ Assign(e, t)
    BY <1>3 DEF ClaimNext, ClaimById, Claimable
  <2> QED
    BY <2>1, AssignQuiet
<1>4. ASSUME NEW e \in Experts, NEW t \in Tasks, Release(e, t) PROVE Quiet
  BY <1>4 DEF Release, Holds, TypeOK, Waiting, Quiet, gradeVars, roundVars
<1>5. CASE UNCHANGED vars
  BY <1>5 DEF vars, Waiting, Quiet
<1> QED
  BY <1>1, <1>2, <1>3, <1>4, <1>5 DEF Next

LEMMA CountNext == IInv /\ CountInv /\ [Next]_vars => CountInv'
<1> SUFFICES ASSUME IInv, CountInv, [Next]_vars PROVE CountInv'
  OBVIOUS
<1>1. TypeOK
  BY DEF IInv
<1> QED
  BY <1>1, StepKinds, CountQuiet, CountSubmit, CountStartReview, CountFinishReview,
     CountAbortReview, CountResolve

LEMMA CountHolds == Spec => []CountInv
BY CountInit, CountNext, InvariantHolds, PTL DEF Spec

\* GradeCount: no race of submissions, rejections and adjudications makes grades_received
\* drift from the grades in play (submit, _requeue).
THEOREM CountsAreRight == Spec => []GradeCount
<1>1. CountInv => GradeCount
  BY DEF CountInv
<1> QED
  BY <1>1, CountHolds, PTL

\* QueuedWhileIncomplete: a regular task waits for a grader exactly as long as it is short
\* of grades, though a rejection writes a status and a count it has read long before.
THEOREM QueueIsRight == Spec => []QueuedWhileIncomplete
<1>1. CountInv => QueuedWhileIncomplete
  BY DEF CountInv
<1> QED
  BY <1>1, CountHolds, PTL

-----------------------------------------------------------------------------
(* The rounds.                                                             *)

\* A round is open exactly for the tasks with several graders that no longer wait.
RoundsOpen ==
  \A t \in Tasks :
    /\ round[t] # "none" <=> t \in Several /\ ~Waiting(t)
    /\ round[t] = "adjudicating" <=> status[t] = "adjudication"

RoundInv == RoundsOpen /\ DeliveredStands /\ AdjudicationUntouched /\ ApprovedByReview

LEMMA RoundInit == Init => RoundInv
<1> SUFFICES ASSUME Init PROVE RoundInv
  OBVIOUS
<1>1. \A t \in Tasks : status[t] = "queued" /\ round[t] = "none"
  BY DEF Init
<1> QED
  BY <1>1 DEF RoundInv, RoundsOpen, DeliveredStands, AdjudicationUntouched, ApprovedByReview,
              Waiting, Regular

LEMMA RoundQuiet ==
  ASSUME RoundInv, Quiet
  PROVE  RoundInv'
<1>1. /\ \A t \in Tasks : Unrejected(t)' = Unrejected(t)
      /\ UNCHANGED <<verdict, round, delivered, reviewing>>
      /\ \A t \in Tasks : Waiting(t) <=> Waiting(t)'
  BY DEF Quiet, Graders, Unrejected
<1>2. \A t \in Tasks, s \in {"adjudication", "approved"} : status'[t] = s <=> status[t] = s
  BY DEF Quiet, Waiting
<1>3. RoundsOpen'
  BY <1>1, <1>2 DEF RoundInv, RoundsOpen, Several, Single, Regular
<1>4. DeliveredStands' /\ AdjudicationUntouched'
  BY <1>1 DEF RoundInv, DeliveredStands, AdjudicationUntouched
<1>5. ApprovedByReview'
  BY <1>1, <1>2 DEF RoundInv, ApprovedByReview, Regular
<1> QED
  BY <1>3, <1>4, <1>5 DEF RoundInv

\* A step that changes neither the tasks' status nor a grade, and starts no review of a
\* task in adjudication.
LEMMA RoundReviewing ==
  ASSUME RoundInv, UNCHANGED <<status, score, verdict, round, delivered>>,
         \A r \in reviewing' : r \in reviewing \/ round[r.task] # "adjudicating"
  PROVE  RoundInv'
<1>1. \A t \in Tasks : Unrejected(t)' = Unrejected(t) /\ (Waiting(t) <=> Waiting(t)')
  BY DEF Graders, Unrejected, Waiting
<1>2. RoundsOpen'
  BY <1>1 DEF RoundInv, RoundsOpen, Several, Single, Regular
<1>3. DeliveredStands' /\ AdjudicationUntouched'
  BY <1>1 DEF RoundInv, DeliveredStands, AdjudicationUntouched
<1>4. ApprovedByReview'
  BY DEF RoundInv, ApprovedByReview
<1> QED
  BY <1>2, <1>3, <1>4 DEF RoundInv

\* What the last grade of a task opens: nothing for a single grader; a round that delivers
\* one of the unrejected grades when they agree; an adjudication when they do not.
LEMMA SubmitRound ==
  ASSUME IInv, RoundInv, NEW e \in Experts, NEW t \in Tasks, NEW s \in Scores, Submit(e, t, s)
  PROVE  \/ status'[t] = "queued" /\ round'[t] = "none"
         \/ t \notin Several /\ status'[t] = "submitted" /\ round'[t] = "none"
         \/ /\ t \in Several /\ status'[t] = "submitted" /\ round'[t] = "agreed"
            /\ delivered'[t] \in Unrejected(t)'
         \/ t \in Several /\ status'[t] = "adjudication" /\ round'[t] = "adjudicating"
<1> DEFINE g == [score[t] EXCEPT ![e] = s]
           p == [position[t] EXCEPT ![e] = Cardinality(Graders(t)) + 1]
           pool == Unrejected(t) \cup {e}
<1>1. /\ status \in [Tasks -> Statuses] /\ round \in [Tasks -> Rounds]
      /\ delivered \in [Tasks -> Experts \cup {NoExpert}] /\ TypeOK
  BY DEF IInv, TypeOK
<1>2. Waiting(t) /\ round[t] = "none"
  BY <1>1, SubmitGrades DEF RoundInv, RoundsOpen
<1>3. \/ status' = [status EXCEPT ![t] = "queued"] /\ UNCHANGED roundVars
      \/ t \in Regular /\ Evaluate(t, g, p, pool)
  BY DEF Submit, Completes
<1>4. CASE status' = [status EXCEPT ![t] = "queued"] /\ UNCHANGED roundVars
  BY <1>1, <1>2, <1>4 DEF roundVars
<1>5. CASE t \in Regular /\ Evaluate(t, g, p, pool)
  <2>1. CASE /\ status' = [status EXCEPT ![t] = "submitted"]
             /\ UNCHANGED roundVars
    <3>1. status'[t] = "submitted" /\ round'[t] = "none" /\ ~Waiting(t)'
      BY <1>1, <1>2, <2>1 DEF roundVars, Waiting
    <3>2. t \notin Several
      BY <3>1, SubmitOutcome
    <3> QED
      BY <3>1, <3>2
  <2>2. CASE /\ Cardinality(pool) >= 2
             /\ status' = [status EXCEPT ![t] = "submitted"]
             /\ round' = [round EXCEPT ![t] = "agreed"]
             /\ delivered' = [delivered EXCEPT ![t] = ClosestToMean(g, p, pool)]
    <3>1. pool \in SUBSET Experts /\ pool # {}
      BY DEF Unrejected, Graders
    <3>2. g \in [Experts -> Nat]
      BY <1>1, GradeTypes
    <3>3. p \in [Experts -> Nat]
      <4>1. Cardinality(Graders(t)) \in Nat
        BY GradersFinite DEF Graders
      <4> QED
        BY <1>1, <4>1, GradeTypes
    <3> HIDE DEF g, p
    <3>4. ClosestToMean(g, p, pool) \in pool
      BY <3>1, <3>2, <3>3, ClosestIsCandidate
    <3>5. pool = Unrejected(t)'
      BY SubmitUnrejected
    <3>6. round'[t] = "agreed" /\ status'[t] = "submitted" /\ delivered'[t] \in Unrejected(t)'
      BY <1>1, <2>2, <3>4, <3>5
    <3>7. t \in Several
      BY <1>2, <1>5, <3>6, SubmitOutcome DEF Several
    <3> QED
      BY <3>6, <3>7
  <2>3. CASE /\ status' = [status EXCEPT ![t] = "adjudication"]
             /\ round' = [round EXCEPT ![t] = "adjudicating"]
    <3>1. status'[t] = "adjudication" /\ round'[t] = "adjudicating"
      BY <1>1, <2>3
    <3>2. t \in Several
      BY <1>2, <1>5, <3>1, SubmitOutcome DEF Several
    <3> QED
      BY <3>1, <3>2
  <2> QED
    BY <1>5, <2>1, <2>2, <2>3 DEF Evaluate
<1> QED
  BY <1>3, <1>4, <1>5

LEMMA RoundSubmit ==
  ASSUME IInv, RoundInv, NEW e \in Experts, NEW t \in Tasks, NEW s \in Scores, Submit(e, t, s)
  PROVE  RoundInv'
<1>1. /\ \A u \in Tasks \ {t} : /\ Unrejected(u)' = Unrejected(u) /\ status'[u] = status[u]
                                /\ round'[u] = round[u]
      /\ UNCHANGED <<verdict, reviewing>>
      /\ Waiting(t)
  BY SubmitGrades DEF IInv
<1>2. \A u \in Tasks \ {t} : delivered'[u] = delivered[u] /\ (Waiting(u)' <=> Waiting(u))
  BY <1>1 DEF Submit, Evaluate, IInv, TypeOK, roundVars, Waiting
<1>3. \/ status'[t] = "queued" /\ round'[t] = "none"
      \/ t \notin Several /\ status'[t] = "submitted" /\ round'[t] = "none"
      \/ /\ t \in Several /\ status'[t] = "submitted" /\ round'[t] = "agreed"
         /\ delivered'[t] \in Unrejected(t)'
      \/ t \in Several /\ status'[t] = "adjudication" /\ round'[t] = "adjudicating"
  BY SubmitRound
<1>4. RoundsOpen'
  BY <1>1, <1>2, <1>3 DEF RoundInv, RoundsOpen, Waiting, Several, Single, Regular
<1>5. DeliveredStands'
  BY <1>1, <1>2, <1>3 DEF RoundInv, DeliveredStands
<1>6. AdjudicationUntouched'
  <2>1. t \in Several => /\ \A f \in Experts : verdict[t][f] = "none"
                         /\ \A r \in reviewing : r.task # t
    BY <1>1 DEF IInv, SeveralWait
  <2> QED
    BY <1>1, <1>2, <1>3, <2>1 DEF RoundInv, AdjudicationUntouched
<1>7. ApprovedByReview'
  BY <1>1, <1>3 DEF RoundInv, ApprovedByReview, Regular
<1> QED
  BY <1>4, <1>5, <1>6, <1>7 DEF RoundInv

\* What a decision writes to the status of a task that is not in adjudication.
LEMMA FinishStatus ==
  ASSUME IInv, RoundInv, NEW r \in reviewing, FinishReview(r)
  PROVE  /\ status'[r.task] # "adjudication" /\ status[r.task] # "adjudication"
         /\ status'[r.task] = "approved" =>
              status[r.task] = "approved" \/ r.decision = "approve"
<1>1. r.task \in Tasks /\ status \in [Tasks -> Statuses]
  BY ReviewTyped DEF IInv, TypeOK
<1>2. status[r.task] # "adjudication"
  BY <1>1, FinishDecides DEF RoundInv, RoundsOpen
<1>3. Judge(r)
  BY DEF FinishReview
<1> QED
  BY <1>1, <1>2, <1>3 DEF Judge, Written

\* A rejected pick is replaced by an unrejected grade, or by nothing when none is left.
LEMMA RedeliveryStands ==
  ASSUME TypeOK, NEW t \in Tasks, NEW v \in [Experts -> Decisions \cup {"none"}]
  PROVE  LET pool == {e \in Graders(t) : v[e] # "reject"}
         IN  IF pool = {} THEN Redelivery(t, v) = NoExpert ELSE Redelivery(t, v) \in pool
<1> DEFINE pool == {e \in Graders(t) : v[e] # "reject"}
           approved == {e \in pool : v[e] = "approve"}
           S == Candidates(approved, pool)
<1>1. score[t] \in [Experts -> Nat] /\ position[t] \in [Experts -> Nat]
  BY GradeTypes
<1>2. S \in SUBSET Experts /\ S \subseteq pool /\ (S = {} <=> pool = {})
  BY DEF Candidates, Graders
<1>3. Redelivery(t, v) = IF S = {} THEN NoExpert
                         ELSE ClosestToMean(score[t], position[t], S)
  BY DEF Redelivery, Repick
<1>4. S # {} => ClosestToMean(score[t], position[t], S) \in S
  BY <1>1, <1>2, ClosestIsCandidate
<1> QED
  BY <1>2, <1>3, <1>4

LEMMA DeliveredFinish ==
  ASSUME IInv, RoundInv, NEW r \in reviewing, FinishReview(r), round[r.task] = "agreed"
  PROVE  IF Unrejected(r.task)' = {} THEN delivered'[r.task] = NoExpert
         ELSE delivered'[r.task] \in Unrejected(r.task)'
<1> DEFINE t == r.task
           v == [verdict[t] EXCEPT ![r.expert] = r.decision]
<1>1. /\ TypeOK /\ t \in Tasks /\ r.expert \in Experts /\ r.decision \in Decisions
      /\ verdict \in [Tasks -> [Experts -> Decisions \cup {"none"}]]
      /\ delivered \in [Tasks -> Experts \cup {NoExpert}]
  BY ReviewTyped DEF IInv, TypeOK
<1>2. /\ r.expert \in Unrejected(t) /\ Graders(t)' = Graders(t)
      /\ Unrejected(t)' = IF r.decision = "reject" THEN Unrejected(t) \ {r.expert}
                          ELSE Unrejected(t)
  BY <1>1, FinishGrades
<1>3. delivered[t] \in Unrejected(t)
  BY <1>1, <1>2 DEF RoundInv, DeliveredStands
<1>4. verdict' = [verdict EXCEPT ![t] = v] /\ Redeliver(r, v)
  BY DEF FinishReview
<1>5. CASE r.decision = "reject" /\ delivered[t] = r.expert
  <2>1. v \in [Experts -> Decisions \cup {"none"}] /\ verdict'[t] = v
    BY <1>1, <1>4
  <2> HIDE DEF v
  <2>2. delivered'[t] = Redelivery(t, v)
    BY <1>1, <1>4, <1>5 DEF Redeliver
  <2>3. {e \in Graders(t) : v[e] # "reject"} = Unrejected(t)'
    BY <1>2, <2>1 DEF Unrejected
  <2> QED
    BY <1>1, <2>1, <2>2, <2>3, RedeliveryStands
<1>6. CASE ~(r.decision = "reject" /\ delivered[t] = r.expert)
  <2>1. delivered' = delivered
    BY <1>4, <1>6 DEF Redeliver
  <2> QED
    BY <1>2, <1>3, <1>6, <2>1
<1> QED
  BY <1>5, <1>6

LEMMA RoundFinishReview ==
  ASSUME IInv, RoundInv, NEW r \in reviewing, FinishReview(r)
  PROVE  RoundInv'
<1> DEFINE t == r.task
<1>1. t \in Tasks /\ r.expert \in Experts /\ r.decision \in Decisions
  BY ReviewTyped DEF IInv
<1>2. /\ \A u \in Tasks \ {t} : Unrejected(u)' = Unrejected(u)
      /\ r.expert \in Unrejected(t)
  BY FinishGrades
<1>3. /\ verdict[t][r.expert] = "none" /\ verdict'[t][r.expert] = r.decision
      /\ \A u \in Tasks, e \in Experts :
           ~(u = t /\ e = r.expert) => verdict'[u][e] = verdict[u][e]
      /\ \A u \in Tasks \ {t} : status'[u] = status[u]
      /\ reviewing' = reviewing \ {r} /\ UNCHANGED round
      /\ t \in Several => ~Waiting(t) /\ ~Waiting(t)'
  BY FinishDecides
<1>4. \A u \in Tasks \ {t} : delivered'[u] = delivered[u]
  BY <1>1 DEF FinishReview, Redeliver, IInv, TypeOK
<1>5. RoundsOpen'
  <2> SUFFICES ASSUME NEW u \in Tasks
               PROVE  /\ round'[u] # "none" <=> u \in Several /\ ~Waiting(u)'
                      /\ round'[u] = "adjudicating" <=> status'[u] = "adjudication"
    BY DEF RoundsOpen, Several, Single, Regular
  <2>1. CASE u = t
    BY <1>1, <1>3, <2>1, FinishStatus DEF RoundInv, RoundsOpen
  <2>2. CASE u # t
    <3>1. Waiting(u)' <=> Waiting(u)
      BY <1>3, <2>2 DEF Waiting
    <3> QED
      BY <1>3, <2>2, <3>1 DEF RoundInv, RoundsOpen
  <2> QED
    BY <2>1, <2>2
<1>6. DeliveredStands'
  <2> SUFFICES ASSUME NEW u \in Tasks, round'[u] = "agreed"
               PROVE  IF Unrejected(u)' = {} THEN delivered'[u] = NoExpert
                      ELSE delivered'[u] \in Unrejected(u)'
    BY DEF DeliveredStands
  <2>1. CASE u = t
    BY <1>3, <2>1, DeliveredFinish
  <2>2. CASE u # t
    BY <1>2, <1>3, <1>4, <2>2 DEF RoundInv, DeliveredStands
  <2> QED
    BY <2>1, <2>2
<1>7. AdjudicationUntouched'
  <2>1. round[t] # "adjudicated"
    <3> SUFFICES ASSUME round[t] = "adjudicated" PROVE FALSE
      OBVIOUS
    <3>1. r.expert = delivered[t] /\ verdict[t][delivered[t]] = "approve"
      BY <1>1, <1>2 DEF RoundInv, AdjudicationUntouched
    <3> QED
      BY <1>3, <3>1
  <2>2. round[t] # "adjudicating"
    BY FinishDecides
  <2> SUFFICES ASSUME NEW u \in Tasks \ {t}
               PROVE  /\ round'[u] = "adjudicating" =>
                           /\ \A e \in Experts : verdict'[u][e] = "none"
                           /\ \A q \in reviewing' : q.task # u
                      /\ round'[u] = "adjudicated" =>
                           /\ Unrejected(u)' = {delivered'[u]}
                           /\ verdict'[u][delivered'[u]] = "approve"
    BY <1>3, <2>1, <2>2 DEF AdjudicationUntouched
  <2>3. round[u] = "adjudicated" => delivered[u] \in Experts
    BY DEF RoundInv, AdjudicationUntouched, Unrejected, Graders
  <2> QED
    BY <1>2, <1>3, <1>4, <2>3 DEF RoundInv, AdjudicationUntouched
<1>8. ApprovedByReview'
  <2> SUFFICES ASSUME NEW u \in Regular, status'[u] = "approved"
               PROVE  \E e \in Experts : verdict'[u][e] = "approve"
    BY DEF ApprovedByReview, Regular
  <2>1. CASE status[u] = "approved"
    <3>1. PICK e \in Experts : verdict[u][e] = "approve"
      BY <2>1 DEF RoundInv, ApprovedByReview
    <3>2. verdict'[u][e] = verdict[u][e]
      BY <1>3, <3>1 DEF Regular
    <3> QED
      BY <3>1, <3>2
  <2>2. CASE status[u] # "approved"
    <3>1. u = t
      BY <1>3, <2>2 DEF Regular
    <3>2. r.decision = "approve"
      BY <2>2, <3>1, FinishStatus
    <3> QED
      BY <1>1, <1>3, <3>1, <3>2
  <2> QED
    BY <2>1, <2>2
<1> QED
  BY <1>5, <1>6, <1>7, <1>8 DEF RoundInv

\* A senior reviewer's decision settles every grade of the task.
LEMMA RoundResolve ==
  ASSUME IInv, RoundInv, NEW t \in Tasks, NEW e \in Experts, Resolve(t, e)
  PROVE  RoundInv'
<1>1. /\ status \in [Tasks -> Statuses] /\ round \in [Tasks -> Rounds]
      /\ delivered \in [Tasks -> Experts \cup {NoExpert}]
      /\ verdict \in [Tasks -> [Experts -> Decisions \cup {"none"}]]
  BY DEF IInv, TypeOK
<1>2. \A u \in Tasks \ {t} : /\ verdict'[u] = verdict[u] /\ status'[u] = status[u]
                             /\ round'[u] = round[u] /\ delivered'[u] = delivered[u]
  BY <1>1 DEF Resolve
<1>3. /\ status'[t] = "approved" /\ round'[t] = "adjudicated" /\ delivered'[t] = e
      /\ e \in Graders(t)
      /\ \A f \in Graders(t) : verdict'[t][f] = IF f = e THEN "approve" ELSE "reject"
      /\ UNCHANGED <<score, reviewing>>
  BY <1>1 DEF Resolve, gradeVars, Graders
<1>4. t \in Several /\ round[t] = "adjudicating"
  BY DEF Resolve, IInv, AdjudicationWaits
<1>5. \A u \in Tasks : Graders(u)' = Graders(u)
  BY <1>3 DEF Graders
<1>6. /\ \A u \in Tasks \ {t} : Unrejected(u)' = Unrejected(u)
      /\ Unrejected(t)' = {e}
  BY <1>2, <1>3, <1>5 DEF Unrejected
<1>7. \A u \in Tasks \ {t} : Waiting(u)' <=> Waiting(u)
  BY <1>2 DEF Waiting
<1>8. RoundsOpen'
  BY <1>2, <1>3, <1>4, <1>7 DEF RoundInv, RoundsOpen, Waiting, Several, Single, Regular
<1>9. DeliveredStands'
  BY <1>2, <1>3, <1>6 DEF RoundInv, DeliveredStands
<1>10. AdjudicationUntouched'
  BY <1>2, <1>3, <1>6 DEF RoundInv, AdjudicationUntouched
<1>11. ApprovedByReview'
  BY <1>2, <1>3 DEF RoundInv, ApprovedByReview, Regular
<1> QED
  BY <1>8, <1>9, <1>10, <1>11 DEF RoundInv

LEMMA RoundNext == IInv /\ RoundInv /\ [Next]_vars => RoundInv'
<1> SUFFICES ASSUME IInv, RoundInv, [Next]_vars PROVE RoundInv'
  OBVIOUS
<1>1. TypeOK
  BY DEF IInv
<1>2. ASSUME NEW e \in Experts, NEW t \in Tasks, NEW d \in Decisions, StartReview(t, e, d)
      PROVE  RoundInv'
  <2>1. t \in Several => status[t] # "adjudication"
    BY <1>1, <1>2, SeveralRequire DEF StartReview, ConsensusPending
  <2>2. round[t] # "adjudicating"
    BY <2>1 DEF RoundInv, RoundsOpen
  <2>3. /\ UNCHANGED <<status, score, verdict, round, delivered>>
        /\ \A r \in reviewing' : r \in reviewing \/ r.task = t
    BY <1>2 DEF StartReview, gradeVars, roundVars
  <2> QED
    BY <2>2, <2>3, RoundReviewing
<1>3. ASSUME NEW r0 \in reviewing, AbortReview(r0) PROVE RoundInv'
  <2>1. /\ UNCHANGED <<status, score, verdict, round, delivered>>
        /\ \A r \in reviewing' : r \in reviewing
    BY <1>3 DEF AbortReview, gradeVars, roundVars
  <2> QED
    BY <2>1, RoundReviewing
<1> QED
  BY <1>1, <1>2, <1>3, StepKinds, RoundQuiet, RoundSubmit, RoundFinishReview, RoundResolve

LEMMA RoundHolds == Spec => []RoundInv
BY RoundInit, RoundNext, InvariantHolds, PTL DEF Spec

\* All that is known of the states of the task flow.
LEMMA AllHolds == Spec => [](IInv /\ CountInv /\ RoundInv)
BY InvariantHolds, CountHolds, RoundHolds, PTL

\* FlowInv: a review in flight has loaded a complete task, and a task is approved only
\* after a reviewer has approved one of its grades (review, resolve).
THEOREM FlowInvariant == Spec => []FlowInv
<1>1. IInv /\ CountInv /\ RoundInv => FlowInv
  BY DEF FlowInv, CountInv, RoundInv
<1> QED
  BY <1>1, AllHolds, PTL

\* RoundWhenComplete: a consensus round exists exactly for the complete tasks with several
\* graders, and is open for a senior reviewer exactly while the task says so.
THEOREM RoundsAreRight == Spec => []RoundWhenComplete
<1>1. IInv /\ CountInv /\ RoundInv => RoundWhenComplete
  <2> SUFFICES ASSUME IInv, CountInv, RoundInv, NEW t \in Tasks
               PROVE  /\ round[t] # "none" <=> t \in Several /\ received[t] >= Required[t]
                      /\ round[t] = "adjudicating" <=> status[t] = "adjudication"
    BY DEF RoundWhenComplete
  <2>1. /\ round[t] # "none" <=> t \in Several /\ ~Waiting(t)
        /\ round[t] = "adjudicating" <=> status[t] = "adjudication"
    BY DEF RoundInv, RoundsOpen
  <2>2. t \in Several => (~Waiting(t) <=> ~(received[t] < Required[t]))
    BY DEF CountInv, QueuedWhileIncomplete, Several
  <2>3. t \in Several => (~(received[t] < Required[t]) <=> received[t] >= Required[t])
    BY SeveralRequire DEF IInv
  <2> QED
    BY <2>1, <2>2, <2>3
<1> QED
  BY <1>1, AllHolds, PTL

\* DeliveredStands: an agreed round never delivers a rejected grade, in whatever order the
\* reviews of its grades commit (consensus.redeliver).
THEOREM PickStands == Spec => []DeliveredStands
<1>1. RoundInv => DeliveredStands
  BY DEF RoundInv
<1> QED
  BY <1>1, RoundHolds, PTL

\* AdjudicationUntouched: nobody reviews the grades of a task that a senior reviewer is to
\* decide, and the decision leaves one grade, approved and delivered.
THEOREM AdjudicationStands == Spec => []AdjudicationUntouched
<1>1. RoundInv => AdjudicationUntouched
  BY DEF RoundInv
<1> QED
  BY <1>1, RoundHolds, PTL

\* GoldenReusable: attention checks stay in the queue and out of the dataset.
THEOREM GoldenStaysReusable == Spec => []GoldenReusable
<1>1. CountInv /\ RoundInv => GoldenReusable
  <2> SUFFICES ASSUME CountInv, RoundInv, NEW t \in Golden
               PROVE  /\ Waiting(t) /\ round[t] = "none"
                      /\ \A e \in Experts : <<t, e>> \notin Exported
    BY DEF GoldenReusable
  <2>1. t \in Tasks /\ t \notin Several
    BY DEF Several, Regular
  <2>2. Waiting(t) /\ round[t] = "none"
    BY <2>1 DEF CountInv, GoldenWaits, RoundInv, RoundsOpen
  <2>3. \A e \in Experts : <<t, e>> \notin Exported
    BY <2>1, ExportedRows DEF IsRow
  <2> QED
    BY <2>2, <2>3
<1> QED
  BY <1>1, AllHolds, PTL

-----------------------------------------------------------------------------
(* Approved tasks and the dataset.                                         *)

\* The row of an approved task: of a task without a round, the approved grade; of a task
\* with a round, the pick if it is approved.
LEMMA ApprovedRow ==
  ASSUME IInv, RoundInv, NEW t \in Regular, status[t] = "approved"
  PROVE  (\E e \in Experts : <<t, e>> \in Exported) <=>
           (round[t] = "none" \/ (delivered[t] # NoExpert /\ verdict[t][delivered[t]] = "approve"))
<1>1. t \in Tasks /\ t \notin Golden /\ delivered[t] \in Experts \cup {NoExpert}
  BY DEF Regular, IInv, TypeOK
<1>2. PICK a \in Experts : verdict[t][a] = "approve"
  BY DEF RoundInv, ApprovedByReview
<1>3. \A e \in Experts : <<t, e>> \in Exported <=> IsRow(t, e)
  BY <1>1, ExportedRows
<1> QED
  BY <1>1, <1>2, <1>3 DEF IsRow

\* An agreed round has a pick as long as one of its grades is approved.
LEMMA AgreedPick ==
  ASSUME IInv, RoundInv, NEW t \in Regular, status[t] = "approved", round[t] = "agreed"
  PROVE  delivered[t] \in Unrejected(t)
<1>1. t \in Tasks
  BY DEF Regular
<1>2. PICK a \in Experts : verdict[t][a] = "approve"
  BY DEF RoundInv, ApprovedByReview
<1>3. a \in Unrejected(t)
  BY <1>1, <1>2 DEF Unrejected, IInv, ReviewsOfGrades
<1> QED
  BY <1>1, <1>3 DEF RoundInv, DeliveredStands

\* ApprovedAccounted: an approved task is in the dataset, or its round's pick waits for a
\* review; no approval is lost between the reviews, the pick and the export.
THEOREM ApprovalsAccounted == Spec => []ApprovedAccounted
<1>1. IInv /\ RoundInv => ApprovedAccounted
  <2> SUFFICES ASSUME IInv, RoundInv, NEW t \in Regular, status[t] = "approved"
               PROVE  \/ \E e \in Experts : <<t, e>> \in Exported
                      \/ /\ round[t] = "agreed" /\ delivered[t] \in Unrejected(t)
                         /\ verdict[t][delivered[t]] = "none"
    BY DEF ApprovedAccounted
  <2>1. /\ t \in Tasks /\ round[t] \in Rounds /\ NoExpert \notin Experts
        /\ verdict[t] \in [Experts -> Decisions \cup {"none"}]
    BY DEF Regular, IInv, TypeOK
  <2>2. CASE round[t] = "none"
    BY <2>2, ApprovedRow
  <2>3. CASE round[t] = "agreed"
    <3>1. delivered[t] \in Unrejected(t)
      BY <2>3, AgreedPick
    <3>2. delivered[t] \in Experts /\ verdict[t][delivered[t]] \in {"approve", "none"}
      BY <2>1, <3>1 DEF Unrejected, Graders, Decisions
    <3> QED
      BY <2>1, <2>3, <3>1, <3>2, ApprovedRow
  <2>4. CASE round[t] = "adjudicated"
    <3>1. delivered[t] \in Experts /\ verdict[t][delivered[t]] = "approve"
      BY <2>1, <2>4 DEF RoundInv, AdjudicationUntouched, Unrejected, Graders
    <3> QED
      BY <2>1, <3>1, ApprovedRow
  <2>5. round[t] # "adjudicating"
    BY <2>1 DEF RoundInv, RoundsOpen
  <2> QED
    BY <2>1, <2>2, <2>3, <2>4, <2>5 DEF Rounds
<1> QED
  BY <1>1, AllHolds, PTL

\* RemindersTrue: the tick's count of undelivered tasks is the number of approved tasks
\* without a row in the dataset, though its query never looks at rows.
THEOREM RemindersAreTrue == Spec => []RemindersTrue
<1>1. IInv /\ RoundInv => RemindersTrue
  <2> SUFFICES ASSUME IInv, RoundInv PROVE RemindersTrue
    OBVIOUS
  <2>1. \A t \in Regular : status[t] = "approved" =>
          (/\ round[t] # "none"
           /\ ~(delivered[t] # NoExpert /\ verdict[t][delivered[t]] = "approve"))
          <=> \A e \in Experts : <<t, e>> \notin Exported
    BY ApprovedRow
  <2>2. {t \in Regular :
           /\ status[t] = "approved" /\ round[t] # "none"
           /\ ~(delivered[t] # NoExpert /\ verdict[t][delivered[t]] = "approve")}
        = {t \in Regular : /\ status[t] = "approved"
                           /\ \A e \in Experts : <<t, e>> \notin Exported}
    BY <2>1
  <2> QED
    BY <2>2 DEF RemindersTrue, UndeliveredApproved
<1> QED
  BY <1>1, AllHolds, PTL

\* A grade that nothing has decided is on the reviewers' list, or its task on the senior
\* reviewers', or the task still waits for graders.
Undecided == {row \in AllGrades : verdict[row[1]][row[2]] = "none"}

InSight == {row \in AllGrades :
              \/ row \in ListUnreviewed
              \/ row[1] \in Pending
              \/ verdict[row[1]][row[2]] = "none" /\ Waiting(row[1])}

LEMMA UndecidedInSight ==
  ASSUME IInv, CountInv, RoundInv
  PROVE  Undecided = InSight
<1>1. ASSUME NEW row \in AllGrades, verdict[row[1]][row[2]] = "none",
             row \notin ListUnreviewed, ~Waiting(row[1])
      PROVE  row[1] \in Pending
  <2>1. row[1] \in Tasks
    BY DEF AllGrades
  <2>2. row[1] \in Regular /\ ~(received[row[1]] < Required[row[1]])
    BY <1>1, <2>1 DEF CountInv, GoldenWaits, QueuedWhileIncomplete, Regular
  <2>3. received[row[1]] \in Nat /\ Required[row[1]] \in Nat
    BY <2>1 DEF IInv, TypeOK
  <2>4. status[row[1]] = "adjudication"
    BY <1>1, <2>2, <2>3 DEF ListUnreviewed
  <2> QED
    BY <2>1, <2>4 DEF RoundInv, RoundsOpen, Pending
<1>2. ASSUME NEW row \in AllGrades, row[1] \in Pending PROVE verdict[row[1]][row[2]] = "none"
  <2>1. row[1] \in Tasks /\ row[2] \in Experts /\ round[row[1]] = "adjudicating"
    BY <1>2 DEF AllGrades, Pending
  <2> QED
    BY <2>1 DEF IInv, AdjudicationWaits
<1> QED
  BY <1>1, <1>2 DEF Undecided, InSight, ListUnreviewed

\* The undecided grades of an expert: what their report counts, without the decided ones.
UndecidedOf(e) == {t \in Tasks : e \in Graders(t) /\ verdict[t][e] = "none"}

LEMMA FiniteTasks ==
  ASSUME NEW S \in SUBSET Tasks
  PROVE  IsFiniteSet(S) /\ Cardinality(S) \in Nat
BY ReportsAssumption, FS_Subset, FS_CardinalityType DEF ReportsAssumption

LEMMA ReliabilityUndecided ==
  ASSUME IInv, NEW e \in Experts
  PROVE  Cardinality(UndecidedOf(e)) =
           Reliability(e).total - Reliability(e).approved - Reliability(e).rejected
<1> DEFINE G == {t \in Tasks : e \in Graders(t)}
           A == {t \in Tasks : verdict[t][e] = "approve"}
           R == {t \in Tasks : verdict[t][e] = "reject"}
           U == UndecidedOf(e)
<1>1. /\ \A t \in Tasks : verdict[t][e] \in {"approve", "reject", "none"}
      /\ \A t \in Tasks : verdict[t][e] # "none" => e \in Graders(t)
  BY DEF IInv, TypeOK, ReviewsOfGrades, Decisions
<1>2. /\ G = U \cup (A \cup R)
      /\ U \cap (A \cup R) = {}
      /\ A \cap R = {}
  BY <1>1 DEF UndecidedOf
<1>3. /\ IsFiniteSet(U) /\ IsFiniteSet(A) /\ IsFiniteSet(R)
      /\ Cardinality(U) \in Nat /\ Cardinality(A) \in Nat /\ Cardinality(R) \in Nat
  BY FiniteTasks DEF UndecidedOf
<1>4. Reliability(e).total = Cardinality(G) /\ Reliability(e).approved = Cardinality(A)
        /\ Reliability(e).rejected = Cardinality(R)
  BY DEF Reliability, Count
<1> HIDE DEF G, A, R, U
<1>5. /\ IsFiniteSet(A \cup R)
      /\ Cardinality(A \cup R) = Cardinality(A) + Cardinality(R) - Cardinality(A \cap R)
  BY <1>3, FS_Union
<1>6. Cardinality(U \cup (A \cup R)) =
        Cardinality(U) + Cardinality(A \cup R) - Cardinality(U \cap (A \cup R))
  BY <1>3, <1>5, FS_Union
<1>7. Cardinality(G) = Cardinality(U) + Cardinality(A) + Cardinality(R)
  BY <1>2, <1>3, <1>5, <1>6, FS_EmptySet
<1>8. Cardinality(U) = Cardinality(G) - Cardinality(A) - Cardinality(R)
  BY <1>3, <1>7
<1> QED
  BY <1>4, <1>8 DEF U

\* The reports of the experts together count every undecided grade once.
LEMMA UndecidedCounted ==
  ASSUME IInv
  PROVE  SumFunction([e \in Experts |-> Reliability(e).total - Reliability(e).approved
                                          - Reliability(e).rejected]) = Count(Undecided)
<1> DEFINE t == [e \in Experts |-> Reliability(e).total - Reliability(e).approved
                                     - Reliability(e).rejected]
           k == [row \in Undecided |-> row[2]]
<1>1. IsFiniteSet(Undecided)
  <2>1. IsFiniteSet(Tasks)
    BY FiniteTasks
  <2>2. IsFiniteSet(Tasks \X Experts)
    BY <2>1, FS_Product
  <2>3. Undecided \subseteq Tasks \X Experts
    BY DEF Undecided, AllGrades
  <2> QED
    BY <2>2, <2>3, FS_Subset
<1>2. Sorts(k, Undecided, Experts)
  BY DEF Sorts, Undecided, AllGrades
<1>3. \A e \in Experts : t[e] = Cardinality(Class(Undecided, k, e))
  <2> TAKE e \in Experts
  <2> DEFINE h == [x \in UndecidedOf(e) |-> <<x, e>>]
             S == UndecidedOf(e)
  <2>1. {h[x] : x \in S} = Class(Undecided, k, e)
    <3>1. ASSUME NEW x \in S PROVE h[x] \in Class(Undecided, k, e)
      <4>1. h[x] = <<x, e>> /\ x \in Tasks /\ e \in Graders(x) /\ verdict[x][e] = "none"
        BY DEF UndecidedOf
      <4>2. <<x, e>> \in Undecided
        BY <4>1 DEF Undecided, AllGrades
      <4> QED
        BY <4>1, <4>2 DEF Class
    <3>2. ASSUME NEW row \in Class(Undecided, k, e) PROVE \E x \in S : row = h[x]
      <4>1. row \in Undecided /\ row[2] = e
        BY DEF Class
      <4>2. row \in Tasks \X Experts /\ row[1] \in S
        BY <4>1 DEF Undecided, AllGrades, UndecidedOf
      <4> QED
        BY <4>1, <4>2
    <3> QED
      BY <3>1, <3>2
  <2>2. IsFiniteSet(S)
    BY FiniteTasks DEF UndecidedOf
  <2>3. \A x, y \in S : h[x] = h[y] => x = y
    OBVIOUS
  <2>4. Cardinality(S) = Cardinality({h[x] : x \in S})
    <3> HIDE DEF S, h
    <3> QED
      BY <2>2, <2>3, CountRenamed
  <2>5. Cardinality(S) = t[e]
    BY ReliabilityUndecided
  <2> HIDE DEF S, h
  <2> QED
    BY <2>1, <2>4, <2>5
<1>4. Cardinality(Undecided) = SumFunctionOnSet(t, Experts)
  <2> HIDE DEF k, t
  <2> QED
    BY <1>1, <1>2, <1>3, CountByClasses
<1> QED
  BY <1>4 DEF SumFunction, Count

\* NothingOutOfSight: every grade that an expert is told to be undecided is on the
\* reviewers' list, or its task on the senior reviewers', or the task waits for graders;
\* and what is listed is not refused.
THEOREM NothingIsOutOfSight == Spec => []NothingOutOfSight
<1>1. IInv /\ CountInv /\ RoundInv => NothingOutOfSight
  <2> SUFFICES ASSUME IInv, CountInv, RoundInv PROVE NothingOutOfSight
    OBVIOUS
  <2>1. ASSUME NEW row \in ListUnreviewed PROVE ~ConsensusPending(row[1])
    <3>1. /\ row[1] \in Tasks /\ status[row[1]] # "adjudication"
          /\ received[row[1]] >= Required[row[1]]
      BY <2>1 DEF ListUnreviewed, AllGrades
    <3>2. received[row[1]] \in Nat /\ Required[row[1]] \in Nat
      BY <3>1 DEF IInv, TypeOK
    <3> QED
      BY <3>1, <3>2 DEF ConsensusPending
  <2>2. {t \in Tasks : status[t] = "adjudication"} = Pending
    BY DEF RoundInv, RoundsOpen, Pending
  <2>3. QueueSummary["adjudication"] = Backlog
    BY <2>2 DEF QueueSummary, Backlog, Statuses
  <2>4. SumFunction([e \in Experts |-> Reliability(e).total - Reliability(e).approved
                                         - Reliability(e).rejected])
          = Count({row \in AllGrades :
                     \/ row \in ListUnreviewed
                     \/ row[1] \in Pending
                     \/ verdict[row[1]][row[2]] = "none" /\ Waiting(row[1])})
    BY UndecidedCounted, UndecidedInSight DEF InSight
  <2> QED
    BY <2>1, <2>3, <2>4 DEF NothingOutOfSight
<1> QED
  BY <1>1, AllHolds, PTL

-----------------------------------------------------------------------------
(* The versions that grades are of.                                        *)

\* A grade is given under a lease, and only a claim puts a task under one.
LEMMA LeaseStep ==
  ASSUME TypeOK, Next, NEW t \in Tasks
  PROVE  /\ \A e \in Graders(t)' \ Graders(t) : status[t] = "assigned"
         /\ Graders(t) \subseteq Graders(t)'
         /\ status'[t] = "assigned" => status[t] = "assigned" \/ Leased(t)'
<1> DEFINE Kept == Graders(t)' = Graders(t)
           Ok   == /\ \A e \in Graders(t)' \ Graders(t) : status[t] = "assigned"
                   /\ Graders(t) \subseteq Graders(t)'
                   /\ status'[t] = "assigned" => status[t] = "assigned" \/ Leased(t)'
<1>1. UNCHANGED score => Kept
  BY DEF Graders
<1>2. CASE ReclaimExpired
  BY <1>1, <1>2 DEF ReclaimExpired, Reclaimed, gradeVars
<1>3. ASSUME NEW u \in Tasks, Expire(u) PROVE Ok
  BY <1>1, <1>3 DEF Expire, gradeVars
<1>4. ASSUME NEW e \in Experts, NEW u \in Tasks, NEW row \in ExpertRows,
             ClaimNext(e, row, u) \/ ClaimById(e, row, u)
      PROVE  Ok
  <2>1. Assign(e, u)
    BY <1>4 DEF ClaimNext, ClaimById
  <2>2. Kept
    BY <1>1, <2>1 DEF Assign, gradeVars
  <2>3. CASE t = u
    BY <2>1, <2>2, <2>3 DEF Assign, Reclaimed, Leased
  <2>4. CASE t # u
    BY <2>1, <2>2, <2>4 DEF Assign, Reclaimed
  <2> QED
    BY <2>3, <2>4
<1>5. ASSUME NEW e \in Experts, NEW u \in Tasks, Release(e, u) \/ Resolve(u, e) PROVE Ok
  <2>1. UNCHANGED score /\ (status'[t] = status[t] \/ status'[t] \in {"queued", "approved"})
    BY <1>5 DEF Release, Resolve, gradeVars, TypeOK
  <2> QED
    BY <1>1, <2>1
<1>6. ASSUME NEW e \in Experts, NEW u \in Tasks, NEW s \in Scores, Submit(e, u, s) PROVE Ok
  <2>1. Graders(t) \subseteq Graders(t)' /\ (t # u => Kept)
    BY <1>6, SubmitGrades
  <2>2. status[u] = "assigned"
    BY <1>6 DEF Submit, Holds
  <2>3. t # u => status'[t] = status[t]
    BY <1>6, SubmitGrades
  <2> QED
    BY <2>1, <2>2, <2>3
<1>7. ASSUME NEW e \in Experts, NEW u \in Tasks, NEW d \in Decisions, StartReview(u, e, d)
      PROVE  Ok
  BY <1>1, <1>7 DEF StartReview, gradeVars
<1>8. ASSUME NEW r \in reviewing, FinishReview(r) \/ AbortReview(r) PROVE Ok
  <2>1. UNCHANGED score
    BY <1>8 DEF FinishReview, AbortReview, gradeVars
  <2>2. CASE AbortReview(r)
    BY <1>1, <2>1, <2>2 DEF AbortReview
  <2>3. CASE FinishReview(r)
    <3>1. status'[t] = status[t] \/ status'[t] \in {"queued", "approved", "rejected"}
      BY <2>3 DEF FinishReview, Judge, Written, TypeOK
    <3> QED
      BY <1>1, <2>1, <3>1
  <2> QED
    BY <1>8, <2>2, <2>3
<1> QED
  BY <1>2, <1>3, <1>4, <1>5, <1>6, <1>7, <1>8 DEF Next

\* A task that takes several grades, or a golden one, has grades of one version only: the
\* one that it has, and that a lease on it pins.
VersionInv ==
  \A t \in Tasks \ Single :
    /\ \A e \in Graders(t) : gradedOn[t][e] = rubric[t]
    /\ status[t] = "assigned" => pinned[t] = rubric[t]

LEMMA VersionInit == VersionedInit => VersionInv
BY DEF VersionedInit, Init, VersionInv, Graders

LEMMA VersionFlow ==
  ASSUME TypeOK, VersionInv, Flow
  PROVE  VersionInv'
<1> SUFFICES ASSUME NEW t \in Tasks \ Single
             PROVE  /\ \A e \in Graders(t)' : gradedOn'[t][e] = rubric'[t]
                    /\ status'[t] = "assigned" => pinned'[t] = rubric'[t]
  BY DEF VersionInv, Single, Regular
<1>1. Next /\ rubric' = rubric
  BY DEF Flow
<1>2. /\ \A e \in Graders(t)' \ Graders(t) : status[t] = "assigned"
      /\ status'[t] = "assigned" => status[t] = "assigned" \/ Leased(t)'
  BY <1>1, LeaseStep
<1>3. pinned'[t] = IF Leased(t)' /\ ~Leased(t) THEN rubric[t] ELSE pinned[t]
  BY DEF Flow
<1>4. \A e \in Experts : gradedOn'[t][e] =
        IF e \in Graders(t)' \ Graders(t) THEN pinned[t] ELSE gradedOn[t][e]
  BY DEF Flow
<1>5. /\ \A e \in Graders(t) : gradedOn[t][e] = rubric[t]
      /\ status[t] = "assigned" => pinned[t] = rubric[t]
  BY DEF VersionInv
<1>6. ASSUME NEW e \in Graders(t)' PROVE gradedOn'[t][e] = rubric'[t]
  <2>1. e \in Experts
    BY DEF Graders
  <2> QED
    BY <1>1, <1>2, <1>4, <1>5, <2>1
<1>7. ASSUME status'[t] = "assigned" PROVE pinned'[t] = rubric'[t]
  BY <1>1, <1>2, <1>3, <1>5, <1>7 DEF Leased
<1> QED
  BY <1>6, <1>7

\* A publication moves no task that has a grade, unless it takes a single one.
LEMMA VersionPublish ==
  ASSUME GradeCount, VersionInv, NEW v, Publish(v)
  PROVE  VersionInv'
<1> SUFFICES ASSUME NEW t \in Tasks \ Single
             PROVE  /\ \A e \in Graders(t) : gradedOn[t][e] = rubric'[t]
                    /\ status[t] = "assigned" => pinned[t] = rubric'[t]
  <2>1. UNCHANGED <<status, score, pinned, gradedOn>>
    BY DEF Publish, vars, gradeVars
  <2> QED
    BY <2>1 DEF VersionInv, Graders, Single, Regular
<1>1. rubric'[t] = IF t \in Movable(v) THEN latest + 1 ELSE rubric[t]
  BY DEF Publish
<1>2. /\ \A e \in Graders(t) : gradedOn[t][e] = rubric[t]
      /\ status[t] = "assigned" => pinned[t] = rubric[t]
  BY DEF VersionInv
<1>3. ASSUME t \in Movable(v) PROVE Graders(t) = {} /\ status[t] # "assigned"
  <2>1. received[t] = 0 /\ status[t] = "queued"
    BY <1>3 DEF Movable
  <2>2. received[t] = Cardinality(Graders(t)) /\ IsFiniteSet(Graders(t))
    BY InPlayFinite DEF GradeCount
  <2> QED
    BY <2>1, <2>2, FS_EmptySet
<1> QED
  BY <1>1, <1>2, <1>3

LEMMA VersionedImplements == VersionedSpec => Spec
<1>1. VersionedInit => Init
  BY DEF VersionedInit
<1>2. [VersionedNext]_<<vars, versionVars>> => [Next]_vars
  BY DEF VersionedNext, Flow, Publish
<1> QED
  BY <1>1, <1>2, PTL DEF VersionedSpec, Spec

LEMMA VersionHolds == VersionedSpec => []VersionInv
<1>1. IInv /\ CountInv /\ VersionInv /\ [VersionedNext]_<<vars, versionVars>> => VersionInv'
  <2> SUFFICES ASSUME IInv, CountInv, VersionInv, [VersionedNext]_<<vars, versionVars>>
               PROVE  VersionInv'
    OBVIOUS
  <2>1. TypeOK /\ GradeCount
    BY DEF IInv, CountInv
  <2>2. CASE UNCHANGED <<vars, versionVars>>
    BY <2>2 DEF vars, gradeVars, versionVars, VersionInv, Graders, Single, Regular
  <2> QED
    BY <2>1, <2>2, VersionFlow, VersionPublish DEF VersionedNext
<1> QED
  BY <1>1, VersionInit, AllHolds, VersionedImplements, PTL DEF VersionedSpec

\* Only a single-grader task has grades of several versions, after one was rejected.
LEMMA RegradedAfterReject ==
  ASSUME IInv, VersionInv
  PROVE  Regraded \subseteq {t \in Single : Rejections(t) >= 1}
<1> SUFFICES ASSUME NEW t \in Regraded PROVE t \in Single /\ Rejections(t) >= 1
  OBVIOUS
<1>1. t \in Tasks
  BY DEF Regraded
<1>2. PICK e, f \in Graders(t) : gradedOn[t][e] # gradedOn[t][f]
  BY DEF Regraded
<1>3. t \in Single
  BY <1>1, <1>2 DEF VersionInv
<1> DEFINE R == {x \in Graders(t) : verdict[t][x] = "reject"}
<1>4. R # {}
  BY <1>2, <1>3 DEF IInv, SingleWaits, Unrejected
<1>5. IsFiniteSet(R)
  BY <1>1, InPlayFinite, FS_Subset
<1>6. Cardinality(R) \in Nat /\ Cardinality(R) # 0
  <2> HIDE DEF R
  <2> QED
    BY <1>4, <1>5, FS_CardinalityType, FS_EmptySet
<1>7. Rejections(t) = Cardinality(R)
  BY DEF Rejections, Count
<1> QED
  BY <1>3, <1>6, <1>7

-----------------------------------------------------------------------------
(* The agreement of graders.                                               *)

\* The grades of a task are ranked by their submission, without ties.
Ranked ==
  \A t \in Tasks : \A e \in Graders(t) :
    /\ position[t][e] \in Nat /\ position[t][e] <= Cardinality(Graders(t))
    /\ \A f \in Graders(t) : position[t][e] = position[t][f] => e = f

LEMMA RankedSubmit ==
  ASSUME IInv, Ranked, NEW e \in Experts, NEW t \in Tasks, NEW s \in Scores, Submit(e, t, s)
  PROVE  Ranked'
<1> DEFINE n == Cardinality(Graders(t))
<1>1. /\ Graders(t)' = Graders(t) \cup {e} /\ e \notin Graders(t)
      /\ \A u \in Tasks \ {t} : Graders(u)' = Graders(u)
  BY SubmitGrades DEF IInv
<1>2. /\ position' = [position EXCEPT ![t] = [position[t] EXCEPT ![e] = n + 1]]
      /\ position \in [Tasks -> [Experts -> Nat]]
  BY DEF Submit, IInv, TypeOK
<1>3. n \in Nat /\ Cardinality(Graders(t)') = n + 1
  BY <1>1, InPlayFinite, FS_AddElement, FS_CardinalityType
<1>4. /\ position'[t][e] = n + 1
      /\ \A f \in Graders(t) : position'[t][f] = position[t][f] /\ f \in Experts /\ f # e
      /\ \A u \in Tasks \ {t} : position'[u] = position[u]
  BY <1>1, <1>2 DEF Graders
<1> HIDE DEF n
<1>5. \A f \in Graders(t) : position[t][f] \in Nat /\ position[t][f] <= n
  BY DEF Ranked, n
<1> SUFFICES ASSUME NEW u \in Tasks, NEW a \in Graders(u)'
             PROVE  /\ position'[u][a] \in Nat /\ position'[u][a] <= Cardinality(Graders(u)')
                    /\ \A b \in Graders(u)' : position'[u][a] = position'[u][b] => a = b
  BY DEF Ranked
<1>6. CASE u # t
  BY <1>1, <1>4, <1>6 DEF Ranked
<1>7. CASE u = t
  <2>1. \A b \in Graders(t) : position'[t][b] \in Nat /\ position'[t][b] <= n
    BY <1>4, <1>5
  <2>2. \A b, c \in Graders(t) : position'[t][b] = position'[t][c] => b = c
    BY <1>4 DEF Ranked
  <2>3. a \in Graders(t) \/ a = e
    BY <1>1, <1>7
  <2>4. position'[t][a] \in Nat /\ position'[t][a] <= n + 1
    BY <1>3, <1>4, <2>1, <2>3
  <2>5. ASSUME NEW b \in Graders(t)', position'[t][a] = position'[t][b] PROVE a = b
    <3>1. b \in Graders(t) \/ b = e
      BY <1>1
    <3>2. CASE a = e /\ b # e
      <4>1. position'[t][b] <= n /\ position'[t][b] \in Nat
        BY <2>1, <3>1, <3>2
      <4> QED
        BY <1>3, <1>4, <2>5, <3>2, <4>1
    <3>3. CASE a # e /\ b = e
      <4>1. position'[t][a] <= n /\ position'[t][a] \in Nat
        BY <2>1, <2>3, <3>3
      <4> QED
        BY <1>3, <1>4, <2>5, <3>3, <4>1
    <3> QED
      BY <2>2, <2>3, <2>5, <3>1, <3>2, <3>3
  <2> QED
    BY <1>3, <1>7, <2>4, <2>5
<1> QED
  BY <1>6, <1>7

LEMMA RankedHolds == Spec => []Ranked
<1>1. Init => Ranked
  BY DEF Init, Ranked, Graders
<1>2. IInv /\ Ranked /\ [Next]_vars => Ranked'
  <2> SUFFICES ASSUME IInv, Ranked, [Next]_vars PROVE Ranked'
    OBVIOUS
  <2>1. CASE UNCHANGED gradeVars
    BY <2>1 DEF gradeVars, Ranked, Graders
  <2>2. ASSUME NEW e \in Experts, NEW t \in Tasks, NEW s \in Scores, Submit(e, t, s)
        PROVE  Ranked'
    BY <2>2, RankedSubmit
  <2>3. \/ UNCHANGED gradeVars
        \/ \E e \in Experts, t \in Tasks, s \in Scores : Submit(e, t, s)
    <3>1. TypeOK
      BY DEF IInv
    <3> QED
      BY <3>1, StepKinds DEF Quiet, StartReview, FinishReview, AbortReview, Resolve, gradeVars
  <2> QED
    BY <2>1, <2>2, <2>3
<1> QED
  BY <1>1, <1>2, InvariantHolds, PTL DEF Spec

\* A comparison names a task and two experts.
Triples  == Tasks \X Experts \X Experts
Swap     == [c \in Triples |-> <<c[1], c[3], c[2]>>]
Joined(t) == {c \in Pairs(t) : SameCriterion(c)}
Keyed(t)  == {c \in Pairs(t) : SameKey(c)}
Below(T)  == UNION {Joined(t) : t \in T}
Ordered   == {c \in Triples : /\ c[2] # c[3] /\ {c[2], c[3]} \subseteq Graders(c[1])
                              /\ SameCriterion(c)}
ExpertPairs  == {c \in Experts \X Experts : c[1] # c[2]}
PairOf(a, b) ==
  {c \in Tasks \X {a} \X {b} : {a, b} \subseteq Graders(c[1]) /\ SameCriterion(c)}

LEMMA FiniteTriples ==
  ASSUME NEW S \in SUBSET Triples
  PROVE  IsFiniteSet(S) /\ Cardinality(S) \in Nat
<1>1. IsFiniteSet(Tasks) /\ IsFiniteSet(Experts)
  BY FiniteTasks
<1>2. IsFiniteSet(Triples)
  <2> DEFINE TE == Tasks \X Experts
             TEE == TE \X Experts
             h == [x \in TEE |-> <<x[1][1], x[1][2], x[2]>>]
  <2>1. IsFiniteSet(TE)
    BY <1>1, FS_Product
  <2>2. IsFiniteSet(TEE)
    <3> HIDE DEF TE
    <3> QED
      BY <1>1, <2>1, FS_Product
  <2>3. Triples = {h[x] : x \in TEE}
    <3>1. ASSUME NEW c \in Triples PROVE \E x \in TEE : c = h[x]
      <4>1. <<<<c[1], c[2]>>, c[3]>> \in TEE /\ c = <<c[1], c[2], c[3]>>
        BY DEF Triples
      <4>2. h[<<<<c[1], c[2]>>, c[3]>>] = <<c[1], c[2], c[3]>>
        BY <4>1
      <4> QED
        BY <4>1, <4>2
    <3>2. ASSUME NEW x \in TEE PROVE h[x] \in Triples
      BY DEF Triples
    <3> QED
      BY <3>1, <3>2
  <2> HIDE DEF h, TEE
  <2> QED
    BY <2>2, <2>3, FiniteImage
<1> QED
  BY <1>2, FS_Subset, FS_CardinalityType

\* Comparisons that are below their swapped ones, and these, are all of them.
LEMMA OrderedHalves ==
  ASSUME Ranked
  PROVE  LET L == Below(Tasks)
             U == {Swap[c] : c \in L}
         IN  /\ L \subseteq Triples /\ U \subseteq Triples
             /\ Ordered = L \cup U
             /\ L \cap U = {}
<1> DEFINE L == Below(Tasks)
           U == {Swap[c] : c \in L}
           Lower == {c \in Triples : /\ c[2] \in Graders(c[1]) /\ c[3] \in Graders(c[1])
                                     /\ SameCriterion(c)
                                     /\ position[c[1]][c[3]] < position[c[1]][c[2]]}
           Upper == {c \in Triples : /\ c[2] \in Graders(c[1]) /\ c[3] \in Graders(c[1])
                                     /\ SameCriterion(c)
                                     /\ position[c[1]][c[2]] < position[c[1]][c[3]]}
<1>1. L = Lower
  <2>1. ASSUME NEW t \in Tasks, NEW c \in Joined(t) PROVE c \in Lower
    BY DEF Joined, Pairs, Triples, Graders
  <2>2. ASSUME NEW c \in Lower PROVE c[1] \in Tasks /\ c \in Joined(c[1])
    BY DEF Joined, Pairs, Triples
  <2> QED
    BY <2>1, <2>2 DEF Below
<1>2. U = Upper
  <2>1. ASSUME NEW c \in Lower PROVE Swap[c] \in Upper
    BY DEF Swap, Triples, SameCriterion
  <2>2. ASSUME NEW c \in Upper PROVE \E d \in Lower : c = Swap[d]
    <3> DEFINE d == <<c[1], c[3], c[2]>>
    <3>1. d \in Lower /\ c = <<c[1], c[2], c[3]>>
      BY DEF Triples, SameCriterion
    <3>2. Swap[d] = <<c[1], c[2], c[3]>>
      BY <3>1 DEF Swap
    <3> QED
      BY <3>1, <3>2
  <2> QED
    BY <1>1, <2>1, <2>2
<1>3. \A c \in Triples : c[2] \in Graders(c[1]) /\ c[3] \in Graders(c[1]) =>
        /\ position[c[1]][c[2]] \in Nat /\ position[c[1]][c[3]] \in Nat
        /\ position[c[1]][c[2]] = position[c[1]][c[3]] => c[2] = c[3]
  BY DEF Ranked, Triples
<1>4. Ordered = Lower \cup Upper /\ Lower \cap Upper = {}
  BY <1>3 DEF Ordered
<1> HIDE DEF Lower, Upper
<1>5. Lower \subseteq Triples /\ Upper \subseteq Triples
  BY DEF Lower, Upper
<1> QED
  BY <1>1, <1>2, <1>4, <1>5

\* Whatever is added up over comparisons, if it does not change when two experts change
\* places: all comparisons make twice those of the tasks' pairs.
LEMMA OrderedTwice ==
  ASSUME Ranked, NEW f, \A c \in Triples : f[c] \in Int /\ f[Swap[c]] = f[c]
  PROVE  SumFunctionOnSet(f, Ordered) = 2 * SumFunctionOnSet(f, Below(Tasks))
<1> DEFINE L == Below(Tasks)
           U == {Swap[c] : c \in L}
<1>1. /\ L \subseteq Triples /\ U \subseteq Triples
      /\ Ordered = L \cup U /\ L \cap U = {}
  BY OrderedHalves
<1>2. IsFiniteSet(L) /\ IsFiniteSet(U)
  BY <1>1, FiniteTriples
<1>3. SumFunctionOnSet(f, L) = SumFunctionOnSet(f, U)
  <2>1. \A c \in L : f[c] \in Int /\ f[c] = f[Swap[c]]
    BY <1>1
  <2>2. \A c, d \in L : Swap[c] = Swap[d] => c = d
    <3>1. \A c \in Triples : c = <<c[1], c[2], c[3]>> /\ Swap[c] = <<c[1], c[3], c[2]>>
      BY DEF Triples, Swap
    <3> QED
      BY <1>1, <3>1
  <2> HIDE DEF L
  <2> QED
    BY <1>2, <2>1, <2>2, SumRenamed
<1>4. SumFunctionOnSet(f, L \cup U) = SumFunctionOnSet(f, L) + SumFunctionOnSet(f, U)
  <2>1. \A c \in L \cup U : f[c] \in Int
    BY <1>1
  <2> HIDE DEF L, U
  <2> QED
    BY <1>1, <1>2, <2>1, SumOfUnion
<1>5. SumFunctionOnSet(f, L) \in Int
  BY <1>1, <1>2, SumType
<1> HIDE DEF L, U
<1>6. SumFunctionOnSet(f, Ordered) = 2 * SumFunctionOnSet(f, L)
  BY <1>1, <1>3, <1>4, <1>5
<1> QED
  BY <1>6 DEF L

\* The pairs of tasks, added up task by task.
LEMMA BelowByTask ==
  ASSUME NEW T \in SUBSET Tasks, NEW f, \A c \in Triples : f[c] \in Int,
         NEW q, \A t \in T : q[t] = SumFunctionOnSet(f, Joined(t))
  PROVE  SumFunctionOnSet(f, Below(T)) = SumFunctionOnSet(q, T)
<1> DEFINE S == Below(T)
           k == [c \in S |-> c[1]]
<1>1. \A t \in T : Joined(t) \subseteq Triples /\ \A c \in Joined(t) : c[1] = t
  BY DEF Joined, Pairs, Triples, Graders
<1>2. IsFiniteSet(S) /\ IsFiniteSet(T) /\ \A c \in S : f[c] \in Int
  BY <1>1, FiniteTriples, FiniteTasks DEF Below
<1>3. Sorts(k, S, T)
  BY <1>1 DEF Sorts, Below
<1>4. \A t \in T : q[t] = SumFunctionOnSet(f, Class(S, k, t))
  <2> TAKE t \in T
  <2>1. Class(S, k, t) = Joined(t)
    BY <1>1 DEF Class, Below
  <2> QED
    BY <2>1
<1>5. SumFunctionOnSet(f, S) = SumFunctionOnSet(q, T)
  <2> HIDE DEF S, k
  <2> QED
    BY <1>2, <1>3, <1>4, SumByClasses
<1> QED
  BY <1>5

\* All comparisons, added up over the pairs of experts.
LEMMA OrderedByExperts ==
  ASSUME NEW f, \A c \in Triples : f[c] \in Int, NEW p,
         \A x \in ExpertPairs :
           p[x] = SumFunctionOnSet(f, PairOf(x[1], x[2]))
  PROVE  SumFunctionOnSet(f, Ordered) =
           SumFunctionOnSet(p, ExpertPairs)
<1> DEFINE K == ExpertPairs
           S == Ordered
           k == [c \in S |-> <<c[2], c[3]>>]
<1>1. IsFiniteSet(K)
  <2>1. IsFiniteSet(Experts)
    OBVIOUS
  <2>2. IsFiniteSet(Experts \X Experts)
    BY <2>1, FS_Product
  <2> QED
    BY <2>2, FS_Subset DEF ExpertPairs
<1>2. S \subseteq Triples /\ IsFiniteSet(S) /\ \A c \in S : f[c] \in Int
  BY FiniteTriples DEF Ordered
<1>3. Sorts(k, S, K)
  BY DEF Sorts, Ordered, Triples, ExpertPairs
<1>4. \A x \in K : p[x] = SumFunctionOnSet(f, Class(S, k, x))
  <2> TAKE x \in K
  <2>1. ASSUME NEW c \in Class(S, k, x) PROVE c \in PairOf(x[1], x[2])
    <3>1. c \in Ordered /\ <<c[2], c[3]>> = x
      BY DEF Class
    <3> QED
      BY <3>1 DEF Ordered, Triples, PairOf
  <2>2. ASSUME NEW c \in PairOf(x[1], x[2]) PROVE c \in Class(S, k, x)
    <3>1. c \in Ordered /\ x = <<c[2], c[3]>>
      BY DEF ExpertPairs, PairOf, Ordered, Triples
    <3> QED
      BY <3>1 DEF Class
  <2>3. Class(S, k, x) = PairOf(x[1], x[2])
    BY <2>1, <2>2 DEF Class
  <2> QED
    BY <2>3
<1>5. SumFunctionOnSet(f, S) = SumFunctionOnSet(p, K)
  <2> HIDE DEF S, k, K
  <2> QED
    BY <1>1, <1>2, <1>3, <1>4, SumByClasses
<1> QED
  BY <1>5

\* The pairs of all tasks are those of regular and of golden ones.
LEMMA BelowSplit ==
  ASSUME NEW f, \A c \in Triples : f[c] \in Int
  PROVE  SumFunctionOnSet(f, Below(Tasks)) =
           SumFunctionOnSet(f, Below(Regular)) + SumFunctionOnSet(f, Below(Golden))
<1> DEFINE R == Below(Regular)
           G == Below(Golden)
<1>1. \A t \in Tasks : Joined(t) \subseteq Triples /\ \A c \in Joined(t) : c[1] = t
  BY DEF Joined, Pairs, Triples, Graders
<1>2. R \subseteq Triples /\ G \subseteq Triples
  BY <1>1 DEF Below, Regular
<1>3. Below(Tasks) = R \cup G
  BY DEF Below, Regular
<1>4. R \cap G = {}
  BY <1>1 DEF Below, Regular
<1>5. IsFiniteSet(R) /\ IsFiniteSet(G) /\ \A c \in R \cup G : f[c] \in Int
  BY <1>2, FiniteTriples
<1>6. SumFunctionOnSet(f, R \cup G) = SumFunctionOnSet(f, R) + SumFunctionOnSet(f, G)
  <2> HIDE DEF R, G
  <2> QED
    BY <1>4, <1>5, SumOfUnion
<1> QED
  BY <1>3, <1>6

\* The three reports add up the same comparisons: p per pair of experts, q per task.
LEMMA ThreeReports ==
  ASSUME Ranked, NEW f, \A c \in Triples : f[c] \in Int /\ f[Swap[c]] = f[c],
         NEW p, \A x \in ExpertPairs :
                  p[x] = SumFunctionOnSet(f, PairOf(x[1], x[2])),
         NEW q, \A t \in Golden : q[t] = SumFunctionOnSet(f, Joined(t))
  PROVE  SumFunctionOnSet(p, ExpertPairs) =
           2 * (SumFunctionOnSet(f, Below(Regular)) + SumFunctionOnSet(q, Golden))
<1>1. SumFunctionOnSet(f, Ordered) =
        SumFunctionOnSet(p, ExpertPairs)
  BY OrderedByExperts
<1>2. SumFunctionOnSet(f, Ordered) = 2 * SumFunctionOnSet(f, Below(Tasks))
  BY OrderedTwice
<1>3. SumFunctionOnSet(f, Below(Tasks)) =
        SumFunctionOnSet(f, Below(Regular)) + SumFunctionOnSet(f, Below(Golden))
  BY BelowSplit
<1>4. SumFunctionOnSet(f, Below(Golden)) = SumFunctionOnSet(q, Golden)
  <2>1. Golden \in SUBSET Tasks
    OBVIOUS
  <2> QED
    BY <2>1, BelowByTask
<1> QED
  BY <1>1, <1>2, <1>3, <1>4

DiffOf == [c \in Triples |-> Diff(c[1], c[2], c[3])]
One    == [c \in Triples |-> 1]

LEMMA DiffSymmetric ==
  ASSUME TypeOK
  PROVE  /\ \A c \in Triples : DiffOf[c] \in Int /\ DiffOf[Swap[c]] = DiffOf[c]
         /\ \A c \in Triples : One[c] \in Int /\ One[Swap[c]] = One[c]
<1> SUFFICES ASSUME NEW c \in Triples
             PROVE  /\ DiffOf[c] \in Int /\ DiffOf[Swap[c]] = DiffOf[c]
                    /\ One[c] \in Int /\ One[Swap[c]] = One[c]
  OBVIOUS
<1>1. c[1] \in Tasks /\ c[2] \in Experts /\ c[3] \in Experts
  BY DEF Triples
<1>2. Swap[c] = <<c[1], c[3], c[2]>> /\ Swap[c] \in Triples
  BY <1>1 DEF Swap, Triples
<1>3. score[c[1]][c[2]] \in Nat /\ score[c[1]][c[3]] \in Nat
  BY <1>1, GradeTypes
<1>4. DiffOf[Swap[c]] = Diff(c[1], c[3], c[2]) /\ DiffOf[c] = Diff(c[1], c[2], c[3])
  BY <1>2 DEF DiffOf
<1> QED
  BY <1>2, <1>3, <1>4 DEF Diff, One

\* What is reported of a set of comparisons, as sums over it.
LEMMA StatsAreSums ==
  ASSUME NEW S \in SUBSET Triples
  PROVE  /\ Stats(S).total = SumFunctionOnSet(DiffOf, S)
         /\ Stats(S).n = SumFunctionOnSet(One, S)
<1> DEFINE d == [c \in S |-> Diff(c[1], c[2], c[3])]
<1>1. IsFiniteSet(S) /\ \A c \in S : d[c] = DiffOf[c] /\ One[c] = 1
  BY FiniteTriples DEF DiffOf, One
<1>2. Stats(S).total = SumFunctionOnSet(d, S) /\ Stats(S).n = Cardinality(S)
  BY DEF Stats, SumFunction, Count
<1> HIDE DEF d
<1>3. SumFunctionOnSet(d, S) = SumFunctionOnSet(DiffOf, S)
  BY <1>1, SumAgree
<1>4. SumFunctionOnSet(One, S) = Cardinality(S)
  BY <1>1, SumOfOnes
<1> QED
  BY <1>2, <1>3, <1>4

\* Each report is about a set of comparisons.
LEMMA ReportsCompare ==
  /\ \A a, b \in Experts : /\ PairAgreement(a, b) = Stats(PairOf(a, b))
                           /\ PairOf(a, b) \subseteq Triples
  /\ \A t \in Tasks : /\ TaskAgreement(t) = Stats(Keyed(t)) /\ Keyed(t) \subseteq Triples
                     /\ Joined(t) \subseteq Keyed(t)
  /\ GlobalAgreement = Stats(Below(Regular)) /\ Below(Regular) \subseteq Triples
<1>1. \A a, b \in Experts : /\ PairAgreement(a, b) = Stats(PairOf(a, b))
                           /\ PairOf(a, b) \subseteq Triples
  BY DEF PairAgreement, PairOf, Triples
<1>2. \A t \in Tasks : TaskAgreement(t) = Stats(Keyed(t)) /\ Keyed(t) \subseteq Triples
  BY DEF TaskAgreement, Keyed, Pairs, Triples, Graders
<1>3. \A t \in Tasks : Joined(t) \subseteq Keyed(t)
  BY DEF Joined, Keyed, SameCriterion, SameKey
<1>4. {c \in UNION {Pairs(t) : t \in Regular} : SameCriterion(c)} = Below(Regular)
  BY DEF Below, Joined
<1>5. GlobalAgreement = Stats(Below(Regular))
  BY <1>4 DEF GlobalAgreement
<1>6. Below(Regular) \subseteq Triples
  BY <1>2, <1>3 DEF Below, Regular
<1> QED
  BY <1>1, <1>2, <1>3, <1>5, <1>6

\* Grades of one version have one criterion, and one key.
LEMMA KeyedIsJoined ==
  ASSUME NEW t \in Tasks \ Regraded
  PROVE  Keyed(t) = Joined(t)
<1>1. \A c \in Pairs(t) : c[1] = t /\ c[2] \in Graders(t) /\ c[3] \in Graders(t)
  BY DEF Pairs
<1>2. \A c \in Pairs(t) : SameCriterion(c) /\ SameKey(c)
  BY <1>1 DEF Regraded, SameCriterion, SameKey
<1> QED
  BY <1>2 DEF Keyed, Joined

LEMMA TotalsAgree ==
  ASSUME TypeOK, Ranked, Golden \cap Regraded = {}
  PROVE  LET experts == {c \in Experts \X Experts : c[1] # c[2]} IN
         /\ SumFunction([c \in experts |-> PairAgreement(c[1], c[2]).total])
              = 2 * (GlobalAgreement.total + SumFunction([t \in Golden |-> TaskAgreement(t).total]))
         /\ SumFunction([c \in experts |-> PairAgreement(c[1], c[2]).n])
              = 2 * (GlobalAgreement.n + SumFunction([t \in Golden |-> TaskAgreement(t).n]))
<1> DEFINE K  == {c \in Experts \X Experts : c[1] # c[2]}
           pt == [c \in K |-> PairAgreement(c[1], c[2]).total]
           qt == [t \in Golden |-> TaskAgreement(t).total]
           pn == [c \in K |-> PairAgreement(c[1], c[2]).n]
           qn == [t \in Golden |-> TaskAgreement(t).n]
<1>1. \A x \in K : /\ pt[x] = SumFunctionOnSet(DiffOf, PairOf(x[1], x[2]))
                   /\ pn[x] = SumFunctionOnSet(One, PairOf(x[1], x[2]))
  BY ReportsCompare, StatsAreSums
<1>2. \A t \in Golden : /\ qt[t] = SumFunctionOnSet(DiffOf, Joined(t))
                        /\ qn[t] = SumFunctionOnSet(One, Joined(t))
  <2> TAKE t \in Golden
  <2>1. t \in Tasks \ Regraded
    OBVIOUS
  <2>2. TaskAgreement(t) = Stats(Joined(t)) /\ Joined(t) \subseteq Triples
    BY <2>1, ReportsCompare, KeyedIsJoined
  <2> QED
    BY <2>2, StatsAreSums
<1>3. /\ GlobalAgreement.total = SumFunctionOnSet(DiffOf, Below(Regular))
      /\ GlobalAgreement.n = SumFunctionOnSet(One, Below(Regular))
  BY ReportsCompare, StatsAreSums
<1>4. /\ SumFunction(pt) = SumFunctionOnSet(pt, K) /\ SumFunction(pn) = SumFunctionOnSet(pn, K)
      /\ SumFunction(qt) = SumFunctionOnSet(qt, Golden)
      /\ SumFunction(qn) = SumFunctionOnSet(qn, Golden)
  BY DEF SumFunction
<1> HIDE DEF pt, qt, pn, qn, K
<1>5. SumFunctionOnSet(pt, K) =
        2 * (SumFunctionOnSet(DiffOf, Below(Regular)) + SumFunctionOnSet(qt, Golden))
  BY <1>1, <1>2, DiffSymmetric, ThreeReports DEF K, ExpertPairs
<1>6. SumFunctionOnSet(pn, K) =
        2 * (SumFunctionOnSet(One, Below(Regular)) + SumFunctionOnSet(qn, Golden))
  BY <1>1, <1>2, DiffSymmetric, ThreeReports DEF K, ExpertPairs
<1> QED
  BY <1>3, <1>4, <1>5, <1>6 DEF pt, qt, pn, qn, K

\* Exact agreements are counted task by task.
ExactOf(X)    == {c \in X : Diff(c[1], c[2], c[3]) = 0}
ExactKeyed(T) == ExactOf(UNION {Keyed(t) : t \in T})

LEMMA ExactByTask ==
  ASSUME NEW T \in SUBSET Regular
  PROVE  SumFunction([t \in T |-> TaskAgreement(t).exact]) = Cardinality(ExactKeyed(T))
<1> DEFINE S == ExactKeyed(T)
           k == [c \in S |-> c[1]]
           x == [t \in T |-> TaskAgreement(t).exact]
<1>1. \A t \in T : /\ Keyed(t) \subseteq Triples /\ \A c \in Keyed(t) : c[1] = t
                   /\ x[t] = Cardinality(ExactOf(Keyed(t)))
  BY DEF Keyed, Pairs, Triples, Graders, Regular, TaskAgreement, Stats, Count, ExactOf
<1>2. IsFiniteSet(S) /\ IsFiniteSet(T)
  <2>1. S \subseteq Triples
    BY <1>1 DEF ExactKeyed, ExactOf
  <2> QED
    BY <2>1, FiniteTriples, FiniteTasks DEF Regular
<1> HIDE DEF x
<1>3. Sorts(k, S, T)
  <2>1. ASSUME NEW c \in S PROVE k[c] \in T
    <3>1. PICK t \in T : c \in Keyed(t)
      BY DEF ExactKeyed, ExactOf
    <3> QED
      BY <1>1, <3>1
  <2> HIDE DEF S, k
  <2> QED
    BY <2>1 DEF Sorts
<1>4. \A t \in T : x[t] = Cardinality(Class(S, k, t))
  <2> TAKE t \in T
  <2>1. Class(S, k, t) = ExactOf(Keyed(t))
    <3>1. ASSUME NEW c \in ExactOf(Keyed(t)) PROVE c \in S /\ k[c] = t
      <4>1. c \in Keyed(t) /\ Diff(c[1], c[2], c[3]) = 0
        BY DEF ExactOf
      <4>2. c \in S
        BY <4>1 DEF ExactKeyed, ExactOf
      <4> QED
        BY <1>1, <4>1, <4>2
    <3>2. ASSUME NEW c \in S, k[c] = t PROVE c \in ExactOf(Keyed(t))
      <4>1. PICK u \in T : c \in Keyed(u)
        BY DEF ExactKeyed, ExactOf
      <4>2. Diff(c[1], c[2], c[3]) = 0
        BY DEF ExactKeyed, ExactOf
      <4>3. c[1] = t /\ c[1] = u
        BY <1>1, <3>2, <4>1
      <4> QED
        BY <4>1, <4>2, <4>3 DEF ExactOf
    <3> HIDE DEF S, k
    <3> QED
      BY <3>1, <3>2 DEF Class
  <2> QED
    BY <1>1, <2>1
<1>5. Cardinality(S) = SumFunctionOnSet(x, T)
  <2> HIDE DEF S, k, x
  <2> QED
    BY <1>2, <1>3, <1>4, CountByClasses
<1>6. DOMAIN x = T
  BY DEF x
<1> QED
  BY <1>5, <1>6 DEF SumFunction, x

\* The pairs of the global report are among those of the reports per task, and are all of
\* them for tasks with grades of one version.
LEMMA ExactBetween ==
  /\ SumFunction([t \in Regular \ Regraded |-> TaskAgreement(t).exact]) <= GlobalAgreement.exact
  /\ GlobalAgreement.exact <= SumFunction([t \in Regular |-> TaskAgreement(t).exact])
<1> DEFINE Some == ExactKeyed(Regular \ Regraded)
           Every == ExactKeyed(Regular)
           Middle == ExactOf(Below(Regular))
<1>1. GlobalAgreement.exact = Cardinality(Middle)
  BY ReportsCompare DEF Stats, Count, ExactOf
<1>2. /\ SumFunction([t \in Regular \ Regraded |-> TaskAgreement(t).exact]) = Cardinality(Some)
      /\ SumFunction([t \in Regular |-> TaskAgreement(t).exact]) = Cardinality(Every)
  <2>1. Regular \ Regraded \in SUBSET Regular /\ Regular \in SUBSET Regular
    OBVIOUS
  <2> QED
    BY <2>1, ExactByTask
<1>3. Some \subseteq Middle
  <2>1. \A t \in Regular \ Regraded : Keyed(t) = Joined(t)
    BY KeyedIsJoined DEF Regular
  <2> QED
    BY <2>1 DEF ExactKeyed, ExactOf, Below
<1>4. Middle \subseteq Every /\ Every \subseteq Triples
  <2>1. \A t \in Regular : Joined(t) \subseteq Keyed(t) /\ Keyed(t) \subseteq Triples
    BY ReportsCompare DEF Regular
  <2> QED
    BY <2>1 DEF ExactKeyed, ExactOf, Below
<1>5. /\ IsFiniteSet(Middle) /\ IsFiniteSet(Every)
      /\ Cardinality(Some) \in Nat /\ Cardinality(Middle) \in Nat
      /\ Cardinality(Every) \in Nat
  BY <1>3, <1>4, FiniteTriples
<1> HIDE DEF Some, Middle, Every
<1>6. Cardinality(Some) <= Cardinality(Middle) /\ Cardinality(Middle) <= Cardinality(Every)
  BY <1>3, <1>4, <1>5, FS_Subset
<1> QED
  BY <1>1, <1>2, <1>6

\* ReportsAgree: the pairwise, the per-task and the global agreement compare the same pairs
\* of grades, but for the single-grader tasks that were graded again on a newer version;
\* and a task that was rejected twice waits exactly until it is graded again.
THEOREM ReportsAlwaysAgree == VersionedSpec => []ReportsAgree
<1>1. IInv /\ CountInv /\ Ranked /\ VersionInv => ReportsAgree
  <2> SUFFICES ASSUME IInv, CountInv, Ranked, VersionInv PROVE ReportsAgree
    OBVIOUS
  <2>1. /\ TypeOK /\ Regraded \subseteq {t \in Single : Rejections(t) >= 1}
        /\ Golden \cap Regraded = {}
    BY RegradedAfterReject DEF IInv, Single, Regular
  <2>2. ASSUME NEW t \in Single PROVE Waiting(t) <=> Unrejected(t) = {}
    <3>1. t \in Tasks /\ t \in Regular /\ Required[t] = 1
      BY DEF Single, Regular
    <3>2. received[t] = Cardinality(Unrejected(t)) /\ (Waiting(t) <=> received[t] < 1)
      BY <3>1 DEF CountInv, GradeCount, QueuedWhileIncomplete
    <3>3. /\ IsFiniteSet(Unrejected(t)) /\ Cardinality(Unrejected(t)) \in Nat
          /\ Cardinality(Unrejected(t)) = 0 <=> Unrejected(t) = {}
      BY <3>1, InPlayFinite, FS_CardinalityType, FS_EmptySet
    <3> QED
      BY <3>2, <3>3
  <2>3. {t \in Single : Rejections(t) >= 2} =
          {t \in Single : Rejections(t) >= 2 /\ (Waiting(t) <=> Unrejected(t) = {})}
    BY <2>2
  <2>4. RejectedTwice =
          Count({t \in Single : Rejections(t) >= 2 /\ (Waiting(t) <=> Unrejected(t) = {})})
    BY <2>3 DEF RejectedTwice
  <2> QED
    BY <2>1, <2>4, TotalsAgree, ExactBetween DEF ReportsAgree
<1> QED
  BY <1>1, AllHolds, RankedHolds, VersionHolds, VersionedImplements, PTL

-----------------------------------------------------------------------------
(* An approval is not taken back by a later review.                        *)

LEMMA ApprovedStep ==
  IInv /\ RoundInv /\ [Next]_vars =>
    \A t \in Tasks : status[t] = "approved" /\ status'[t] # "approved" =>
      \E r \in reviewing \ reviewing' : r.task = t /\ r.status # "approved"
<1> SUFFICES ASSUME IInv, RoundInv, [Next]_vars, NEW t \in Tasks,
                    status[t] = "approved", status'[t] # "approved"
             PROVE  \E r \in reviewing \ reviewing' : r.task = t /\ r.status # "approved"
  OBVIOUS
<1>1. TypeOK /\ ~Waiting(t) /\ status \in [Tasks -> Statuses]
  BY DEF IInv, TypeOK, Waiting
<1>2. ~Quiet
  BY <1>1 DEF Quiet
<1>3. ASSUME NEW e \in Experts, NEW u \in Tasks, NEW s \in Scores, Submit(e, u, s)
      PROVE  FALSE
  BY <1>1, <1>3, SubmitGrades
<1>4. ASSUME NEW e \in Experts, NEW u \in Tasks, Resolve(u, e) PROVE FALSE
  BY <1>1, <1>4 DEF Resolve
<1>5. ASSUME NEW r \in reviewing, FinishReview(r) PROVE r.task = t /\ r.status # "approved"
  <2>1. r.task = t
    BY <1>5, FinishDecides
  <2>2. Judge(r) /\ t \in Regular
    BY <1>5, <2>1 DEF FinishReview, Judge, Regular
  <2>3. t \notin Single
    <3> SUFFICES ASSUME t \in Single PROVE FALSE
      OBVIOUS
    <3>1. PICK a \in Experts : verdict[t][a] = "approve"
      BY <2>2 DEF RoundInv, ApprovedByReview
    <3>2. a \in Unrejected(t) /\ r.expert \in Unrejected(t)
      BY <1>5, <2>1, <3>1, FinishGrades DEF IInv, ReviewsOfGrades, Unrejected
    <3>3. a = r.expert
      BY <3>2 DEF IInv, SingleWaits
    <3> QED
      BY <1>5, <2>1, <3>1, <3>3, FinishDecides
  <2> QED
    BY <1>1, <2>1, <2>2, <2>3 DEF Judge, Written, Single
<1>6. \A r \in reviewing : FinishReview(r) => r \notin reviewing'
  BY FinishDecides
<1>7. ASSUME NEW r \in reviewing, AbortReview(r) PROVE FALSE
  BY <1>7 DEF AbortReview
<1>8. ASSUME NEW e \in Experts, NEW u \in Tasks, NEW d \in Decisions, StartReview(u, e, d)
      PROVE  FALSE
  BY <1>8 DEF StartReview
<1> QED
  BY <1>1, <1>2, <1>3, <1>4, <1>5, <1>6, <1>7, <1>8, StepKinds

\* ApprovedSticks: only a rejection that was under way before the approval takes a task's
\* approval back (review writes no status over one that it has loaded as approved).
THEOREM ApprovalSticks == Spec => ApprovedSticks
<1>1. IInv /\ RoundInv /\ [Next]_vars =>
        [\A t \in Tasks : status[t] = "approved" /\ status'[t] # "approved" =>
           \E r \in reviewing \ reviewing' : r.task = t /\ r.status # "approved"]_vars
  BY ApprovedStep
<1> QED
  BY <1>1, AllHolds, PTL DEF Spec, ApprovedSticks
==============================================================================
