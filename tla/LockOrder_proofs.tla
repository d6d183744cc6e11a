--------------------------- MODULE LockOrder_proofs --------------------------
(***************************************************************************)
(* Which transactions can wait for each other in a circle, for every set of*)
(* tasks, experts and sessions.                                            *)
(***************************************************************************)
EXTENDS LockOrder, Sums, SequenceTheorems

\* What most proofs use of the parameters.
LEMMA Parameters ==
  /\ \A t \in Tasks : Required[t] \in Nat /\ Required[t] >= 1
  /\ ToSet(Scan) = Tasks /\ IsFiniteSet(Sessions)
  /\ NoTask \notin Tasks /\ NoExpert \notin Experts
BY LockOrderAssumption DEF LockOrderAssumption

-----------------------------------------------------------------------------
(* Rows and short sequences of them.                                       *)

\* The rows of tables, and of grades, are told apart by what they are and by their keys.
LEMMA RowKeys ==
  /\ \A t : TaskRow(t)[1] = "task" /\ TaskRow(t)[2] = t
  /\ \A t, e : GradeRow(t, e)[1] = "grade" /\ GradeRow(t, e)[2] = t /\ GradeRow(t, e)[3] = e
  /\ \A t : RoundRow(t)[1] = "round" /\ RoundRow(t)[2] = t
  /\ \A e : ExpertRow(e)[1] = "expert" /\ ExpertRow(e)[2] = e
  /\ \A e : PayoutRows(e)[1] = "payouts" /\ PayoutRows(e)[2] = e
  /\ RubricRow[1] = "rubric"
BY DEF TaskRow, GradeRow, RoundRow, ExpertRow, PayoutRows, RubricRow

\* A statement locks one row, or one and then another.
LEMMA FewRows ==
  /\ \A a : <<a>> # <<>> /\ Head(<<a>>) = a /\ Tail(<<a>>) = <<>> /\ <<a>> \o <<>> = <<a>>
  /\ \A a, b : <<a, b>> # <<>> /\ Head(<<a, b>>) = a /\ Tail(<<a, b>>) = <<b>>
  /\ \A a, b : <<a>> \o <<b>> = <<a, b>>
<1>1. \A a : <<a>> # <<>> /\ Head(<<a>>) = a /\ <<a>> \o <<>> = <<a>>
  OBVIOUS
<1>2. \A a : Tail(<<a>>) = <<>>
  OBVIOUS
<1>3. \A a, b : <<a, b>> # <<>> /\ Head(<<a, b>>) = a
  OBVIOUS
<1>4. \A a, b : Tail(<<a, b>>) = <<b>>
  OBVIOUS
<1>5. ASSUME NEW a, NEW b PROVE <<a>> \o <<b>> = <<a, b>>
  <2> DEFINE S == {a, b}
  <2>1. /\ <<a>> \in Seq(S) /\ <<b>> \in Seq(S) /\ <<a, b>> \in Seq(S)
        /\ Len(<<a>>) = 1 /\ Len(<<b>>) = 1 /\ Len(<<a, b>>) = 2
    OBVIOUS
  <2>2. /\ <<a>> \o <<b>> \in Seq(S) /\ Len(<<a>> \o <<b>>) = 2
        /\ (<<a>> \o <<b>>)[1] = a /\ (<<a>> \o <<b>>)[2] = b
    BY <2>1, ConcatProperties
  <2>3. \A i \in 1 .. Len(<<a, b>>) : (<<a>> \o <<b>>)[i] = <<a, b>>[i]
    BY <2>1, <2>2
  <2>4. Len(<<a>> \o <<b>>) = Len(<<a, b>>)
    BY <2>1, <2>2
  <2> HIDE DEF S
  <2> QED
    BY <2>1, <2>2, <2>3, <2>4, SeqEqual
<1> QED
  BY <1>1, <1>2, <1>3, <1>4, <1>5

\* Experts and tasks have places in their orders.
LEMMA Places ==
  /\ IsFiniteSet(Experts) /\ IsFiniteSet(Tasks)
  /\ Len(Names) \in Nat /\ \A e \in Experts : Place(Names, e) \in 0 .. Len(Names)
  /\ Len(Scan) \in Nat /\ \A t \in Tasks : Place(Scan, t) \in 0 .. Len(Scan)
<1>1. Names \in Seq(Experts) /\ Scan \in Seq(Tasks)
  BY LockOrderAssumption DEF LockOrderAssumption
<1>2. /\ Experts = {Names[i] : i \in 1 .. Len(Names)} /\ Tasks = {Scan[i] : i \in 1 .. Len(Scan)}
      /\ Len(Names) \in Nat /\ Len(Scan) \in Nat
      /\ DOMAIN Names = 1 .. Len(Names) /\ DOMAIN Scan = 1 .. Len(Scan)
  BY <1>1, Parameters DEF Experts, ToSet
<1>3. IsFiniteSet(1 .. Len(Names)) /\ IsFiniteSet(1 .. Len(Scan))
  BY <1>2, FS_Interval
<1>4. IsFiniteSet(Experts) /\ IsFiniteSet(Tasks)
  <2> DEFINE I == 1 .. Len(Names)
             J == 1 .. Len(Scan)
  <2>1. IsFiniteSet(I) /\ IsFiniteSet(J)
    BY <1>3
  <2>2. Experts = {Names[i] : i \in I} /\ Tasks = {Scan[i] : i \in J}
    BY <1>2
  <2> HIDE DEF I, J
  <2>3. IsFiniteSet({Names[i] : i \in I}) /\ IsFiniteSet({Scan[i] : i \in J})
    BY <2>1, FiniteImage
  <2> QED
    BY <2>2, <2>3
<1>5. ASSUME NEW e \in Experts PROVE Place(Names, e) \in 0 .. Len(Names)
  <2>1. \E i \in DOMAIN Names : Names[i] = e
    BY <1>2
  <2>2. Place(Names, e) \in DOMAIN Names
    BY <2>1 DEF Place
  <2> QED
    BY <1>2, <2>2
<1>6. ASSUME NEW t \in Tasks PROVE Place(Scan, t) \in 0 .. Len(Scan)
  <2>1. \E i \in DOMAIN Scan : Scan[i] = t
    BY <1>2
  <2>2. Place(Scan, t) \in DOMAIN Scan
    BY <2>1 DEF Place
  <2> QED
    BY <1>2, <2>2
<1> QED
  BY <1>2, <1>4, <1>5, <1>6

\* In a set whose members each have one of a higher rank beside them, ranks have no bound.
LEMMA NoAscent ==
  ASSUME NEW C, C # {}, NEW n \in Nat, NEW rank, \A x \in C : rank[x] \in 0 .. n,
         \A x \in C : \E y \in C : rank[y] > rank[x]
  PROVE  FALSE
<1> DEFINE N == 0 .. n
           Above(x) == {k \in N : k > rank[x]}
           T == {Above(x) : x \in C}
<1>1. IsFiniteSet(N)
  BY FS_Interval
<1>2. PICK s \in T : \A r \in T : r \subseteq s => r = s
  <2> HIDE DEF N
  <2>1. T \subseteq SUBSET N
    OBVIOUS
  <2>2. T # {}
    <3>1. PICK x : x \in C
      OBVIOUS
    <3>2. Above(x) \in T
      BY <3>1
    <3> QED
      BY <3>2
  <2> HIDE DEF T
  <2> QED
    BY <1>1, <2>1, <2>2, Smallest
<1>3. PICK x \in C : s = Above(x)
  BY <1>2
<1>4. PICK y \in C : rank[y] > rank[x]
  OBVIOUS
<1>5. rank[x] \in Nat /\ rank[y] \in Nat /\ rank[y] \in 0 .. n
  OBVIOUS
<1>6. Above(y) \subseteq s /\ rank[y] \in s /\ rank[y] \notin Above(y)
  BY <1>3, <1>4, <1>5
<1>7. Above(y) \in T
  OBVIOUS
<1> QED
  BY <1>2, <1>6, <1>7

-----------------------------------------------------------------------------
(* What a transaction holds and waits for, statement by statement.         *)

TaskRows   == {TaskRow(t) : t \in Tasks}
ExpertRows == {ExpertRow(e) : e \in Experts}
MoneyRows  == {PayoutRows(e) : e \in Experts}
GradesOf(t) == {GradeRow(t, e) : e \in Experts}

Several(t) == t \notin Golden /\ Required[t] >= 2

\* No review of the task has to wait for its round.
Settled(t) == Several(t) => status[t] = "done"

\* The rows still to be locked come in the order of seq, and after the rows that are held.
InOrder(seq, todo, held) ==
  /\ \A i, j \in DOMAIN todo : i < j => Place(seq, todo[i][2]) < Place(seq, todo[j][2])
  /\ \A row \in held, i \in DOMAIN todo : Place(seq, row[2]) < Place(seq, todo[i][2])

\* The first row of a transaction.
FirstRow(x, row) ==
  \/ x.todo = <<row>> /\ x.held = {}
  \/ x.todo = <<>> /\ x.held = {row}

Reclaiming(x) ==
  /\ x.kind \in {"sweep", "tick", "claim"} /\ x.at = 1 /\ x.task = NoTask
  /\ x.kind = "claim" => x.expert \in Experts
  /\ x.todo \in Seq(TaskRows) /\ x.held \subseteq TaskRows
  /\ InOrder(Scan, x.todo, x.held)
  /\ \A t \in Tasks : TaskRow(t) \in x.held => status[t] = "due"

Serving(x) ==
  /\ x.kind = "claim" /\ x.at = 2 /\ x.task \in Tasks /\ x.expert \in Experts
  /\ TaskRow(x.task) \in x.held
  /\ \A t \in Tasks : TaskRow(t) \in x.held => status[t] \in {"queued", "due"}
  /\ \/ x.todo = <<>>
     \/ x.todo = <<ExpertRow(x.expert)>> /\ x.held \subseteq TaskRows

Scoring(x) ==
  /\ x.kind = "tick" /\ x.at = 2 /\ x.task = NoTask
  /\ x.todo \in Seq(ExpertRows) /\ x.held \subseteq TaskRows \cup ExpertRows
  /\ InOrder(Names, x.todo, x.held \cap ExpertRows)
  /\ \A t \in Tasks : TaskRow(t) \in x.held => status[t] = "due"

Superseding(x) == x.kind = "publish" /\ x.at = 1 /\ FirstRow(x, RubricRow)

Moving(x) ==
  /\ x.kind = "publish" /\ x.at = 2
  /\ RubricRow \in x.held /\ x.held \subseteq {RubricRow} \cup TaskRows
  /\ x.todo \in Seq(TaskRows)
  /\ \A t \in Tasks : /\ TaskRow(t) \in x.held => status[t] = "queued"
                      /\ TaskRow(t) \in ToSet(x.todo) => status[t] # "due"

GivingUp(x) ==
  /\ x.kind \in {"submit", "release"} /\ x.at = 1 /\ x.task \in Tasks /\ x.expert \in Experts
  /\ FirstRow(x, TaskRow(x.task))

Grading(x) ==
  /\ x.kind = "submit" /\ x.at = 2 /\ x.task \in Tasks /\ x.expert \in Experts
  /\ TaskRow(x.task) \in x.held
  /\ status[x.task] \in {"assigned", "due"}
  /\ x.pick # NoExpert => Several(x.task)
  /\ \/ x.todo = <<>>
     \/ /\ x.todo = <<GradeRow(x.task, x.pick)>> /\ x.held = {TaskRow(x.task)}
        /\ Several(x.task)
     \/ /\ x.todo \in {<<ExpertRow(x.expert)>>, <<ExpertRow(x.expert), PayoutRows(x.expert)>>}
        /\ x.held = {TaskRow(x.task)}
     \/ /\ x.todo = <<PayoutRows(x.expert)>>
        /\ x.held = {TaskRow(x.task), ExpertRow(x.expert)}

Loading(x) ==
  /\ x.kind \in {"approve", "reject"} /\ x.at = 1 /\ x.task \in Tasks /\ x.expert \in Experts
  /\ FirstRow(x, GradeRow(x.task, x.expert))

Deciding(x) ==
  /\ x.kind \in {"approve", "reject"} /\ x.at = 2 /\ x.task \in Tasks /\ x.expert \in Experts
  /\ Settled(x.task)
  /\ \/ /\ x.todo \in {<<TaskRow(x.task)>>, <<TaskRow(x.task), RoundRow(x.task)>>}
        /\ x.held = {GradeRow(x.task, x.expert)}
     \/ /\ x.todo = <<RoundRow(x.task)>>
        /\ x.held = {GradeRow(x.task, x.expert), TaskRow(x.task)}
     \/ /\ x.todo = <<>> /\ TaskRow(x.task) \in x.held
        /\ x.held \subseteq {GradeRow(x.task, x.expert), TaskRow(x.task), RoundRow(x.task)}

Judging(x) ==
  /\ x.kind \in {"approve", "reject"} /\ x.at = 3 /\ x.task \in Tasks /\ x.expert \in Experts
  /\ Settled(x.task)
  /\ TaskRow(x.task) \in x.held
  /\ \/ x.todo = <<>>
     \/ /\ x.todo = <<ExpertRow(x.expert)>>
        /\ x.held \subseteq {TaskRow(x.task), RoundRow(x.task)} \cup GradesOf(x.task)
     \/ /\ x.todo \in {<<GradeRow(x.task, x.pick)>>,
                       <<GradeRow(x.task, x.pick), ExpertRow(x.expert)>>}
        /\ x.held \subseteq {TaskRow(x.task), RoundRow(x.task), GradeRow(x.task, x.expert)}
        /\ x.kind = "reject" /\ x.pick \in Experts

Opening(x) ==
  /\ x.kind = "resolve" /\ x.at = 1 /\ x.task \in Tasks
  /\ FirstRow(x, RoundRow(x.task))

Resolving(x) ==
  /\ x.kind = "resolve" /\ x.at \in Nat /\ x.at >= 2 /\ x.task \in Tasks
  /\ round[x.task] = "adjudicating"
  /\ RoundRow(x.task) \in x.held
  /\ \/ x.todo = <<TaskRow(x.task)>> /\ x.held = {RoundRow(x.task)}
     \/ /\ TaskRow(x.task) \in x.held
        /\ x.held \subseteq {RoundRow(x.task), TaskRow(x.task)}
                            \cup GradesOf(x.task) \cup ExpertRows
        /\ \/ x.todo = <<>>
           \/ \E e \in Experts :
                x.todo \in {<<GradeRow(x.task, e)>>, <<GradeRow(x.task, e), ExpertRow(e)>>,
                            <<ExpertRow(e)>>}

Reinstating(x) ==
  /\ x.kind = "set_status" /\ x.at = 1 /\ x.expert \in Experts
  /\ \/ x.todo = <<>>
     \/ /\ x.todo \in {<<ExpertRow(x.expert)>>, <<ExpertRow(x.expert), PayoutRows(x.expert)>>}
        /\ x.held = {}
     \/ x.todo = <<PayoutRows(x.expert)>> /\ x.held = {ExpertRow(x.expert)}

Closing(x) ==
  /\ x.kind = "close" /\ x.at = 1
  /\ x.todo \in Seq(MoneyRows) /\ x.held \subseteq MoneyRows
  /\ InOrder(Names, x.todo, x.held)

Shape(x) ==
  \/ x = Closed
  \/ Reclaiming(x) \/ Serving(x) \/ Scoring(x) \/ Superseding(x) \/ Moving(x)
  \/ GivingUp(x) \/ Grading(x) \/ Loading(x) \/ Deciding(x) \/ Judging(x)
  \/ Opening(x) \/ Resolving(x) \/ Reinstating(x) \/ Closing(x)

Rows ==
  TaskRows \cup ExpertRows \cup MoneyRows \cup {RubricRow} \cup {RoundRow(t) : t \in Tasks}
           \cup UNION {GradesOf(t) : t \in Tasks}

Kinds == {"none", "sweep", "tick", "claim", "publish", "submit", "release", "approve", "reject",
          "resolve", "set_status", "close"}

Transactions ==
  [kind : Kinds, task : Tasks \cup {NoTask}, expert : Experts \cup {NoExpert}, at : Nat,
   todo : Seq(Rows), held : SUBSET Rows, pick : Experts \cup {NoExpert}]

TypeOK ==
  /\ status \in [Tasks -> {"queued", "assigned", "due", "done", "adjudication"}]
  /\ round \in [Tasks -> {"none", "agreed", "adjudicating", "adjudicated"}]
  /\ graded \in [Tasks -> Seq(Experts)]
  /\ tx \in [Sessions -> Transactions]

\* A task with several graders waits for a grade, for the adjudicator, or for nothing.
Life(t) ==
  /\ round[t] = "adjudicating" => Several(t) /\ status[t] = "adjudication"
  /\ Several(t) /\ Len(graded[t]) >= Required[t] => status[t] \in {"done", "adjudication"}

\* No row is locked twice.
LockedOnce == \A s, o \in Sessions : s # o => tx[s].held \cap tx[o].held = {}

IInv ==
  /\ TypeOK
  /\ \A t \in Tasks : Life(t)
  /\ \A s \in Sessions : Shape(tx[s])
  /\ LockedOnce

-----------------------------------------------------------------------------
(* Who waits for whom.                                                     *)

\* A transaction that holds rows and waits for the next one, h.
Blocked(x, h) ==
  \/ Reclaiming(x) /\ h \in TaskRows
  \/ Serving(x) /\ h = ExpertRow(x.expert) /\ x.held \subseteq TaskRows
  \/ Scoring(x) /\ h \in ExpertRows
  \/ Moving(x) /\ h \in TaskRows
  \/ /\ Grading(x)
     /\ \/ h = GradeRow(x.task, x.pick) /\ x.held = {TaskRow(x.task)} /\ Several(x.task)
        \/ h = ExpertRow(x.expert) /\ x.held = {TaskRow(x.task)}
        \/ h = PayoutRows(x.expert) /\ x.held = {TaskRow(x.task), ExpertRow(x.expert)}
  \/ /\ Deciding(x)
     /\ \/ h = TaskRow(x.task) /\ x.held = {GradeRow(x.task, x.expert)}
        \/ h = RoundRow(x.task) /\ x.held = {GradeRow(x.task, x.expert), TaskRow(x.task)}
  \/ /\ Judging(x)
     /\ \/ /\ h = ExpertRow(x.expert)
           /\ x.held \subseteq {TaskRow(x.task), RoundRow(x.task)} \cup GradesOf(x.task)
        \/ /\ h = GradeRow(x.task, x.pick) /\ x.kind = "reject" /\ x.pick \in Experts
           /\ x.held \subseteq {TaskRow(x.task), RoundRow(x.task), GradeRow(x.task, x.expert)}
  \/ /\ Resolving(x)
     /\ \/ h = TaskRow(x.task) /\ x.held = {RoundRow(x.task)}
        \/ /\ \E e \in Experts : h = GradeRow(x.task, e) \/ h = ExpertRow(e)
           /\ x.held \subseteq {RoundRow(x.task), TaskRow(x.task)}
                               \cup GradesOf(x.task) \cup ExpertRows
  \/ Reinstating(x) /\ h = PayoutRows(x.expert) /\ x.held = {ExpertRow(x.expert)}
  \/ Closing(x) /\ h \in MoneyRows

\* A transaction that holds rows and waits is blocked in one of these ways.
LEMMA BlockedSomewhere ==
  ASSUME NEW x, Shape(x), x.todo # <<>>, x.held # {}
  PROVE  Blocked(x, Head(x.todo))
<1>1. ASSUME NEW S, x.todo \in Seq(S) PROVE Head(x.todo) \in S
  BY <1>1, HeadTailProperties
<1>2. CASE x = Closed
  BY <1>2 DEF Closed
<1>3. CASE Reclaiming(x) \/ Scoring(x) \/ Moving(x) \/ Closing(x)
  BY <1>1, <1>3 DEF Reclaiming, Scoring, Moving, Closing, Blocked
<1>4. CASE Serving(x)
  BY <1>4, FewRows DEF Serving, Blocked
<1>5. CASE Superseding(x) \/ GivingUp(x) \/ Loading(x) \/ Opening(x)
  BY <1>5 DEF Superseding, GivingUp, Loading, Opening, FirstRow
<1>6. CASE Grading(x)
  BY <1>6, FewRows DEF Grading, Blocked
<1>7. CASE Deciding(x)
  BY <1>7, FewRows DEF Deciding, Blocked
<1>8. CASE Judging(x)
  BY <1>8, FewRows DEF Judging, Blocked
<1>9. CASE Resolving(x)
  BY <1>9, FewRows DEF Resolving, Blocked
<1>10. CASE Reinstating(x)
  BY <1>10, FewRows DEF Reinstating, Blocked
<1> QED
  BY <1>2, <1>3, <1>4, <1>5, <1>6, <1>7, <1>8, <1>9, <1>10 DEF Shape

Wanted(s) == Head(tx[s].todo)

\* A grade's row is no other row, and belongs to one task.
LEMMA GradeApart ==
  \A t, e :
    /\ GradeRow(t, e) \notin TaskRows /\ GradeRow(t, e) \notin ExpertRows
    /\ GradeRow(t, e) \notin MoneyRows /\ GradeRow(t, e) # RubricRow
    /\ \A u : GradeRow(t, e) # TaskRow(u) /\ GradeRow(t, e) # RoundRow(u)
    /\ \A f : GradeRow(t, e) # ExpertRow(f) /\ GradeRow(t, e) # PayoutRows(f)
    /\ \A u : GradeRow(t, e) \in GradesOf(u) => u = t
    /\ \A u, f : GradeRow(t, e) = GradeRow(u, f) => u = t /\ f = e
<1> TAKE t, e
<1>1. GradeRow(t, e)[1] = "grade" /\ GradeRow(t, e)[2] = t /\ GradeRow(t, e)[3] = e
  BY RowKeys
<1>2. GradeRow(t, e) \notin TaskRows /\ GradeRow(t, e) \notin ExpertRows
  BY <1>1, RowKeys DEF TaskRows, ExpertRows
<1>3. GradeRow(t, e) \notin MoneyRows /\ GradeRow(t, e) # RubricRow
  BY <1>1, RowKeys DEF MoneyRows
<1>4. \A u : GradeRow(t, e) # TaskRow(u) /\ GradeRow(t, e) # RoundRow(u)
  BY <1>1, RowKeys
<1>5. \A f : GradeRow(t, e) # ExpertRow(f) /\ GradeRow(t, e) # PayoutRows(f)
  BY <1>1, RowKeys
<1>6. \A u : GradeRow(t, e) \in GradesOf(u) => u = t
  BY <1>1, RowKeys DEF GradesOf
<1>7. \A u, f : GradeRow(t, e) = GradeRow(u, f) => u = t /\ f = e
  BY <1>1, RowKeys
<1> QED
  BY <1>2, <1>3, <1>4, <1>5, <1>6, <1>7

\* So are a task's row,
LEMMA TaskApart ==
  \A t :
    /\ TaskRow(t) \notin ExpertRows /\ TaskRow(t) \notin MoneyRows /\ TaskRow(t) # RubricRow
    /\ \A u : TaskRow(t) # RoundRow(u) /\ TaskRow(t) \notin GradesOf(u)
    /\ \A e : TaskRow(t) # ExpertRow(e) /\ TaskRow(t) # PayoutRows(e)
    /\ \A u, e : TaskRow(t) # GradeRow(u, e)
    /\ \A u : TaskRow(t) = TaskRow(u) => u = t
<1> TAKE t
<1>1. TaskRow(t)[1] = "task" /\ TaskRow(t)[2] = t
  BY RowKeys
<1>2. TaskRow(t) \notin ExpertRows /\ TaskRow(t) \notin MoneyRows /\ TaskRow(t) # RubricRow
  BY <1>1, RowKeys DEF ExpertRows, MoneyRows
<1>3. \A u : TaskRow(t) # RoundRow(u) /\ TaskRow(t) \notin GradesOf(u)
  BY <1>1, RowKeys DEF GradesOf
<1>4. /\ \A e : TaskRow(t) # ExpertRow(e) /\ TaskRow(t) # PayoutRows(e)
      /\ \A u, e : TaskRow(t) # GradeRow(u, e)
  BY <1>1, RowKeys
<1>5. \A u : TaskRow(t) = TaskRow(u) => u = t
  BY <1>1, RowKeys
<1> QED
  BY <1>2, <1>3, <1>4, <1>5

\* a round's row,
LEMMA RoundApart ==
  \A t :
    /\ RoundRow(t) \notin TaskRows /\ RoundRow(t) \notin ExpertRows
    /\ RoundRow(t) \notin MoneyRows /\ RoundRow(t) # RubricRow
    /\ \A u : RoundRow(t) # TaskRow(u) /\ RoundRow(t) \notin GradesOf(u)
    /\ \A e : RoundRow(t) # ExpertRow(e) /\ RoundRow(t) # PayoutRows(e)
    /\ \A u, e : RoundRow(t) # GradeRow(u, e)
    /\ \A u : RoundRow(t) = RoundRow(u) => u = t
<1> TAKE t
<1>1. RoundRow(t)[1] = "round" /\ RoundRow(t)[2] = t
  BY RowKeys
<1>2. RoundRow(t) \notin TaskRows /\ RoundRow(t) \notin ExpertRows
  BY <1>1, RowKeys DEF TaskRows, ExpertRows
<1>3. RoundRow(t) \notin MoneyRows /\ RoundRow(t) # RubricRow
  BY <1>1, RowKeys DEF MoneyRows
<1>4. \A u : RoundRow(t) # TaskRow(u) /\ RoundRow(t) \notin GradesOf(u)
  BY <1>1, RowKeys DEF GradesOf
<1>5. /\ \A e : RoundRow(t) # ExpertRow(e) /\ RoundRow(t) # PayoutRows(e)
      /\ \A u, e : RoundRow(t) # GradeRow(u, e)
  BY <1>1, RowKeys
<1>6. \A u : RoundRow(t) = RoundRow(u) => u = t
  BY <1>1, RowKeys
<1> QED
  BY <1>2, <1>3, <1>4, <1>5, <1>6

\* and an expert's row.
LEMMA ExpertApart ==
  \A e :
    /\ ExpertRow(e) \notin TaskRows /\ ExpertRow(e) \notin MoneyRows /\ ExpertRow(e) # RubricRow
    /\ \A u : /\ ExpertRow(e) # TaskRow(u) /\ ExpertRow(e) # RoundRow(u)
              /\ ExpertRow(e) \notin GradesOf(u)
    /\ \A u, f : ExpertRow(e) # GradeRow(u, f)
<1> TAKE e
<1>1. ExpertRow(e)[1] = "expert" /\ ExpertRow(e)[2] = e
  BY RowKeys
<1>2. ExpertRow(e) \notin TaskRows /\ ExpertRow(e) \notin MoneyRows /\ ExpertRow(e) # RubricRow
  BY <1>1, RowKeys DEF TaskRows, MoneyRows
<1>3. \A u : /\ ExpertRow(e) # TaskRow(u) /\ ExpertRow(e) # RoundRow(u)
             /\ ExpertRow(e) \notin GradesOf(u)
  BY <1>1, RowKeys DEF GradesOf
<1>4. \A u, f : ExpertRow(e) # GradeRow(u, f)
  BY <1>1, RowKeys
<1> QED
  BY <1>2, <1>3, <1>4

\* A transaction of a circle waits for one that is blocked itself.
Behind(s, o) ==
  /\ Waits(s, o)
  /\ tx[s].held # {} /\ tx[o].todo # <<>>

\* Then both are blocked, over different rows, and one wants what the other holds.
LEMMA BehindBlocked ==
  ASSUME IInv, NEW s \in Sessions, NEW o \in Sessions, Behind(s, o)
  PROVE  /\ Blocked(tx[s], Wanted(s)) /\ Blocked(tx[o], Wanted(o))
         /\ Wanted(s) \in tx[o].held
         /\ \A row \in tx[s].held : row \notin tx[o].held
<1>1. Wanted(s) \in tx[o].held /\ tx[s].todo # <<>> /\ s # o
  BY DEF Behind, Waits, Wanted
<1>2. Shape(tx[s]) /\ Shape(tx[o]) /\ tx[s].held \cap tx[o].held = {}
  BY <1>1 DEF IInv, LockedOnce
<1>3. Blocked(tx[s], Wanted(s)) /\ Blocked(tx[o], Wanted(o))
  BY <1>1, <1>2, BlockedSomewhere DEF Behind, Wanted
<1> QED
  BY <1>1, <1>2, <1>3

LEMMA FirstInOrder ==
  ASSUME NEW seq, NEW S, NEW todo \in Seq(S), todo # <<>>, NEW held, InOrder(seq, todo, held),
         NEW row \in held
  PROVE  Place(seq, row[2]) < Place(seq, Head(todo)[2])
<1>1. 1 \in DOMAIN todo /\ Head(todo) = todo[1]
  OBVIOUS
<1> QED
  BY <1>1 DEF InOrder

\* Whoever waits for the payouts of an expert waits for the closing of a period, which goes
\* from one expert to the next (close_period).
LEMMA BehindMoney ==
  ASSUME IInv, NEW s \in Sessions, NEW o \in Sessions, Behind(s, o), Wanted(s) \in MoneyRows
  PROVE  /\ Wanted(o) \in MoneyRows
         /\ Place(Names, Wanted(s)[2]) < Place(Names, Wanted(o)[2])
<1> DEFINE x == tx[o]
           h == Wanted(o)
<1>1. Blocked(x, h) /\ Wanted(s) \in x.held
  BY BehindBlocked
<1>2. PICK e \in Experts : Wanted(s) = PayoutRows(e)
  BY DEF MoneyRows
<1>3. Closing(x) /\ h \in MoneyRows
  <2> HIDE DEF x, h
  <2> QED
    BY <1>1, <1>2, RowKeys
    DEF Blocked, Reclaiming, Scoring, Moving, TaskRows, ExpertRows, GradesOf
<1>4. x.todo \in Seq(MoneyRows) /\ x.todo # <<>> /\ InOrder(Names, x.todo, x.held)
  BY <1>3 DEF Closing, Behind
<1>5. Place(Names, Wanted(s)[2]) < Place(Names, Head(x.todo)[2])
  BY <1>1, <1>4, FirstInOrder
<1> QED
  BY <1>3, <1>5 DEF Wanted

\* Whoever waits for a grade, with other rows in hand, is about to redeliver a round, and waits
\* for the review of another grade of it, which waits for the task in turn.
LEMMA BehindGrade ==
  ASSUME IInv, NEW s \in Sessions, NEW o \in Sessions, Behind(s, o),
         NEW t \in Tasks, NEW e, Wanted(s) = GradeRow(t, e)
  PROVE  /\ Judging(tx[s]) /\ tx[s].kind = "reject" /\ tx[s].pick \in Experts
         /\ Deciding(tx[o])
         /\ tx[s].task = t /\ tx[o].task = t
         /\ Wanted(o) = TaskRow(t) /\ TaskRow(t) \in tx[s].held
<1> DEFINE x == tx[s]
           y == tx[o]
           h == Wanted(o)
<1>1. /\ Blocked(x, GradeRow(t, e)) /\ Blocked(y, h) /\ GradeRow(t, e) \in y.held
      /\ \A row \in x.held : row \notin y.held
  BY BehindBlocked
<1>2. Life(t)
  BY DEF IInv
<1>3. \/ Grading(x) /\ Several(x.task)
      \/ Judging(x) /\ x.kind = "reject" /\ x.pick \in Experts
      \/ Resolving(x)
  <2> HIDE DEF x, y, h
  <2> QED
    BY <1>1, GradeApart DEF Blocked
<1>4. x.task = t
  <2> HIDE DEF x, y, h
  <2> QED
    BY <1>1, GradeApart DEF Blocked
<1>5. /\ y.task = t
      /\ \/ Deciding(y) /\ (h = TaskRow(t) \/ TaskRow(t) \in y.held)
         \/ Judging(y) /\ TaskRow(t) \in y.held
         \/ Resolving(y)
  <2> HIDE DEF x, y, h
  <2>1. ~(Reclaiming(y) \/ Scoring(y) \/ Moving(y) \/ Closing(y))
    BY <1>1, GradeApart DEF Reclaiming, Scoring, Moving, Closing
  <2>2. ~(Serving(y) /\ y.held \subseteq TaskRows)
    BY <1>1, GradeApart
  <2>3. ~(y.held = {TaskRow(y.task)} \/ y.held = {TaskRow(y.task), ExpertRow(y.expert)}
          \/ y.held = {RoundRow(y.task)} \/ y.held = {ExpertRow(y.expert)})
    BY <1>1, GradeApart
  <2>4. CASE /\ Deciding(y)
             /\ \/ h = TaskRow(y.task) /\ y.held = {GradeRow(y.task, y.expert)}
                \/ y.held = {GradeRow(y.task, y.expert), TaskRow(y.task)}
    BY <1>1, <2>4, GradeApart
  <2>5. CASE /\ Judging(y)
             /\ y.held \subseteq {TaskRow(y.task), RoundRow(y.task)} \cup GradesOf(y.task)
    BY <1>1, <2>5, GradeApart DEF Judging
  <2>6. CASE /\ Judging(y)
             /\ y.held \subseteq {TaskRow(y.task), RoundRow(y.task), GradeRow(y.task, y.expert)}
    BY <1>1, <2>6, GradeApart DEF Judging
  <2>7. CASE /\ Resolving(y)
             /\ y.held \subseteq {RoundRow(y.task), TaskRow(y.task)}
                                 \cup GradesOf(y.task) \cup ExpertRows
    BY <1>1, <2>7, GradeApart
  <2> QED
    BY <1>1, <2>1, <2>2, <2>3, <2>4, <2>5, <2>6, <2>7 DEF Blocked
<1>6. ASSUME Resolving(x) PROVE FALSE
  <2>1. round[t] = "adjudicating" /\ RoundRow(t) \in x.held
    BY <1>4, <1>6 DEF Resolving
  <2>2. ~Settled(t)
    BY <1>2, <2>1 DEF Life, Settled
  <2>3. Resolving(y)
    BY <1>5, <2>2 DEF Deciding, Judging
  <2> QED
    BY <1>1, <1>5, <2>1, <2>3 DEF Resolving
<1>7. ASSUME Grading(x), Several(x.task) PROVE FALSE
  <2>1. status[t] \in {"assigned", "due"}
    BY <1>4, <1>7 DEF Grading
  <2>2. ~Settled(t) /\ round[t] # "adjudicating"
    BY <1>2, <1>4, <1>7, <2>1 DEF Life, Settled
  <2> QED
    BY <1>5, <2>2 DEF Deciding, Judging, Resolving
<1>8. Judging(x) /\ x.kind = "reject" /\ x.pick \in Experts
  BY <1>3, <1>6, <1>7
<1>9. TaskRow(t) \in x.held /\ Settled(t)
  BY <1>4, <1>8 DEF Judging
<1>10. ~Resolving(y)
  BY <1>2, <1>5, <1>9 DEF Life, Settled, Resolving
<1>11. Deciding(y) /\ h = TaskRow(t)
  BY <1>1, <1>5, <1>9, <1>10
<1> QED
  BY <1>4, <1>5, <1>8, <1>9, <1>11

\* Nobody who is blocked has the row of a round that a review waits for: the rejection of
\* another grade has the task, too, and a resolution has an open round.
LEMMA BehindRound ==
  ASSUME IInv, NEW s \in Sessions, NEW o \in Sessions, Behind(s, o),
         NEW t, Wanted(s) = RoundRow(t)
  PROVE  FALSE
<1> DEFINE x == tx[s]
           y == tx[o]
           h == Wanted(o)
<1>1. /\ Blocked(x, RoundRow(t)) /\ Blocked(y, h) /\ RoundRow(t) \in y.held
      /\ \A row \in x.held : row \notin y.held
  BY BehindBlocked
<1> HIDE DEF x, y, h
<1>2. Deciding(x) /\ x.task = t /\ TaskRow(t) \in x.held
  BY <1>1, RoundApart DEF Blocked
<1>3. t \in Tasks /\ Settled(t)
  BY <1>2 DEF Deciding
<1>4. Life(t)
  BY <1>3 DEF IInv
<1>5. ~(Reclaiming(y) \/ Scoring(y) \/ Moving(y) \/ Closing(y))
  BY <1>1, RoundApart DEF Reclaiming, Scoring, Moving, Closing
<1>6. (Judging(y) \/ Resolving(y)) /\ y.task = t
  <2>1. ~(Serving(y) /\ y.held \subseteq TaskRows)
    BY <1>1, RoundApart
  <2>2. ~(y.held = {TaskRow(y.task)} \/ y.held = {TaskRow(y.task), ExpertRow(y.expert)}
          \/ y.held = {GradeRow(y.task, y.expert)} \/ y.held = {ExpertRow(y.expert)}
          \/ y.held = {GradeRow(y.task, y.expert), TaskRow(y.task)})
    BY <1>1, RoundApart
  <2>3. CASE /\ Judging(y)
             /\ y.held \subseteq {TaskRow(y.task), RoundRow(y.task)} \cup GradesOf(y.task)
    BY <1>1, <2>3, RoundApart
  <2>4. CASE /\ Judging(y)
             /\ y.held \subseteq {TaskRow(y.task), RoundRow(y.task), GradeRow(y.task, y.expert)}
    BY <1>1, <2>4, RoundApart
  <2>5. CASE /\ Resolving(y)
             /\ \/ y.held = {RoundRow(y.task)}
                \/ y.held \subseteq {RoundRow(y.task), TaskRow(y.task)}
                                    \cup GradesOf(y.task) \cup ExpertRows
    BY <1>1, <2>5, RoundApart
  <2> QED
    BY <1>1, <1>5, <2>1, <2>2, <2>3, <2>4, <2>5 DEF Blocked
<1>7. ~Judging(y)
  BY <1>1, <1>2, <1>6 DEF Judging
<1> QED
  BY <1>3, <1>4, <1>6, <1>7 DEF Resolving, Life, Settled

\* Whoever waits for an expert's row waits for a resolution, for a tick that has come further
\* down the names, or for one that goes on to the payouts.
LEMMA BehindExpert ==
  ASSUME IInv, NEW s \in Sessions, NEW o \in Sessions, Behind(s, o), Wanted(s) \in ExpertRows
  PROVE  \/ Wanted(o) \in MoneyRows
         \/ Resolving(tx[o]) /\ \E t \in Tasks : \E e : Wanted(o) = GradeRow(t, e)
         \/ Resolving(tx[o]) /\ Wanted(o) \in ExpertRows
         \/ /\ Scoring(tx[o]) /\ Wanted(o) \in ExpertRows
            /\ Place(Names, Wanted(s)[2]) < Place(Names, Wanted(o)[2])
<1> DEFINE y == tx[o]
           h == Wanted(o)
<1>1. Blocked(y, h) /\ Wanted(s) \in y.held
  BY BehindBlocked
<1>2. PICK e \in Experts : Wanted(s) = ExpertRow(e)
  BY DEF ExpertRows
<1>3. \/ h \in MoneyRows
      \/ Scoring(y) /\ h \in ExpertRows
      \/ Resolving(y) /\ \E f \in Experts : h = GradeRow(y.task, f) \/ h = ExpertRow(f)
  <2> HIDE DEF y, h
  <2>1. ~(Reclaiming(y) \/ Moving(y) \/ Closing(y))
    BY <1>1, <1>2, ExpertApart DEF Reclaiming, Moving, Closing
  <2>2. ~(Serving(y) /\ y.held \subseteq TaskRows)
    BY <1>1, <1>2, ExpertApart
  <2>3. ~(y.held = {TaskRow(y.task)} \/ y.held = {GradeRow(y.task, y.expert), TaskRow(y.task)}
          \/ y.held = {GradeRow(y.task, y.expert)} \/ y.held = {RoundRow(y.task)})
    BY <1>1, <1>2, ExpertApart
  <2>4. /\ ~(y.held \subseteq {TaskRow(y.task), RoundRow(y.task)} \cup GradesOf(y.task))
        /\ ~(y.held \subseteq {TaskRow(y.task), RoundRow(y.task), GradeRow(y.task, y.expert)})
    BY <1>1, <1>2, ExpertApart
  <2>5. CASE (Grading(y) \/ Reinstating(y)) /\ h = PayoutRows(y.expert)
    BY <2>5 DEF Grading, Reinstating, MoneyRows
  <2> QED
    BY <1>1, <2>1, <2>2, <2>3, <2>4, <2>5 DEF Blocked
<1>4. CASE Resolving(y)
  BY <1>3, <1>4 DEF Resolving, ExpertRows
<1>5. CASE Scoring(y) /\ h \in ExpertRows
  <2>1. /\ y.todo \in Seq(ExpertRows) /\ y.todo # <<>>
        /\ InOrder(Names, y.todo, y.held \cap ExpertRows)
    BY <1>5 DEF Scoring, Behind
  <2>2. Wanted(s) \in y.held \cap ExpertRows
    BY <1>1
  <2>3. Place(Names, Wanted(s)[2]) < Place(Names, Head(y.todo)[2])
    BY <2>1, <2>2, FirstInOrder
  <2> QED
    BY <1>5, <2>3 DEF Wanted
<1> QED
  BY <1>3, <1>4, <1>5

\* Whoever has a task and waits for another is a reclaim, which has overdue ones and takes them
\* in the order of the scan, or a publication.
LEMMA BehindTask ==
  ASSUME IInv, NEW s \in Sessions, NEW o \in Sessions, Behind(s, o),
         NEW t \in Tasks, Wanted(s) = TaskRow(t), Wanted(o) \in TaskRows
  PROVE  \/ Moving(tx[o])
         \/ /\ Reclaiming(tx[o]) /\ status[t] = "due"
            /\ Place(Scan, t) < Place(Scan, Wanted(o)[2])
<1> DEFINE y == tx[o]
           h == Wanted(o)
<1>1. Blocked(y, h) /\ TaskRow(t) \in y.held
  BY BehindBlocked
<1>2. PICK u \in Tasks : h = TaskRow(u)
  BY DEF TaskRows
<1>3. Reclaiming(y) \/ Moving(y)
  <2> HIDE DEF y, h
  <2>1. ~Closing(y) /\ h \notin ExpertRows
    BY <1>1, <1>2, TaskApart DEF Closing
  <2>2. /\ h # ExpertRow(y.expert) /\ h # PayoutRows(y.expert) /\ h # GradeRow(y.task, y.pick)
        /\ h # RoundRow(y.task) /\ \A e : h # GradeRow(y.task, e) /\ h # ExpertRow(e)
    BY <1>2, TaskApart, RoundApart
  <2>3. y.held # {GradeRow(y.task, y.expert)} /\ y.held # {RoundRow(y.task)}
    BY <1>1, TaskApart
  <2> QED
    BY <1>1, <2>1, <2>2, <2>3 DEF Blocked
<1>4. CASE Reclaiming(y)
  <2>1. y.todo \in Seq(TaskRows) /\ y.todo # <<>> /\ InOrder(Scan, y.todo, y.held)
    BY <1>4 DEF Reclaiming, Behind
  <2>2. Place(Scan, TaskRow(t)[2]) < Place(Scan, Head(y.todo)[2])
    BY <1>1, <2>1, FirstInOrder
  <2>3. status[t] = "due"
    BY <1>1, <1>4 DEF Reclaiming
  <2> QED
    BY <1>4, <2>2, <2>3, RowKeys DEF Wanted
<1> QED
  BY <1>3, <1>4

\* Those that are blocked with a task's row in hand.
LEMMA TaskOfHolder ==
  ASSUME NEW y, NEW h, Blocked(y, h), NEW t \in Tasks, TaskRow(t) \in y.held,
         ~(Reclaiming(y) \/ Serving(y) \/ Scoring(y) \/ Moving(y))
  PROVE  (Grading(y) \/ Deciding(y) \/ Judging(y) \/ Resolving(y)) /\ y.task = t
<1>1. ~Closing(y)
  BY TaskApart DEF Closing
<1>2. /\ y.held # {ExpertRow(y.expert)} /\ y.held # {GradeRow(y.task, y.expert)}
      /\ y.held # {RoundRow(y.task)}
  BY TaskApart
<1>3. CASE y.held = {TaskRow(y.task)} \/ y.held = {TaskRow(y.task), ExpertRow(y.expert)}
           \/ y.held = {GradeRow(y.task, y.expert), TaskRow(y.task)}
  <2>1. y.task = t
    BY <1>3, TaskApart
  <2> QED
    BY <1>1, <1>2, <2>1 DEF Blocked
<1>4. CASE \/ y.held \subseteq {TaskRow(y.task), RoundRow(y.task)} \cup GradesOf(y.task)
           \/ y.held \subseteq {TaskRow(y.task), RoundRow(y.task), GradeRow(y.task, y.expert)}
           \/ y.held \subseteq {RoundRow(y.task), TaskRow(y.task)}
                              \cup GradesOf(y.task) \cup ExpertRows
  <2>1. y.task = t
    BY <1>4, TaskApart
  <2> QED
    BY <1>1, <1>2, <2>1 DEF Blocked
<1> QED
  BY <1>1, <1>2, <1>3, <1>4 DEF Blocked

\* The adjudicator's task is nobody else's.
LEMMA BehindResolution ==
  ASSUME IInv, NEW s \in Sessions, NEW o \in Sessions, Behind(s, o), Resolving(tx[s])
  PROVE  Wanted(s) \in ExpertRows
<1> DEFINE x == tx[s]
           y == tx[o]
           t == tx[s].task
           g == Wanted(s)
           h == Wanted(o)
<1>1. /\ Blocked(x, g) /\ Blocked(y, h) /\ g \in y.held
      /\ \A row \in x.held : row \notin y.held
  BY BehindBlocked
<1>2. /\ x.kind = "resolve" /\ x.task = t /\ t \in Tasks
      /\ round[t] = "adjudicating" /\ RoundRow(t) \in x.held
  BY DEF Resolving
<1>3. Life(t)
  BY <1>2 DEF IInv
<1>4. Several(t) /\ status[t] = "adjudication" /\ ~Settled(t)
  BY <1>2, <1>3 DEF Life, Settled
<1>5. g = TaskRow(t) \/ \E e \in Experts : g = GradeRow(t, e) \/ g = ExpertRow(e)
  <2> HIDE DEF x, y, g, h
  <2> QED
    BY <1>1, <1>2 DEF Blocked, Reclaiming, Serving, Scoring, Moving, Grading, Deciding, Judging,
       Reinstating, Closing
<1>6. ASSUME NEW e \in Experts, g = GradeRow(t, e) PROVE FALSE
  BY <1>2, <1>6, BehindGrade DEF Judging
<1>7. ASSUME g = TaskRow(t) PROVE FALSE
  <2>1. TaskRow(t) \in y.held /\ RoundRow(t) \notin y.held
    BY <1>1, <1>2, <1>7
  <2>2. ~(Reclaiming(y) \/ Serving(y) \/ Scoring(y) \/ Moving(y))
    BY <1>2, <1>4, <2>1 DEF Reclaiming, Serving, Scoring, Moving
  <2>3. (Grading(y) \/ Deciding(y) \/ Judging(y) \/ Resolving(y)) /\ y.task = t
    BY <1>1, <1>2, <2>1, <2>2, TaskOfHolder
  <2> QED
    BY <1>4, <2>1, <2>3 DEF Grading, Deciding, Judging, Resolving
<1> QED
  BY <1>5, <1>6, <1>7 DEF ExpertRows

-----------------------------------------------------------------------------
(* Circles.                                                                *)

\* If each of some transactions waits for another of them, there is a circle among them.
LEMMA CircleAmong ==
  ASSUME NEW D \in SUBSET Sessions, D # {}, \A s \in D : \E o \in D : Waits(s, o)
  PROVE  \E C \in SUBSET D : Circle(C)
<1> DEFINE Chained(S) == S # {} /\ \A s \in S : \E o \in S : Waits(s, o)
           T == {S \in SUBSET D : Chained(S)}
<1>1. IsFiniteSet(D)
  BY FS_Subset, Parameters
<1>2. T \subseteq SUBSET D /\ D \in T
  OBVIOUS
<1>3. PICK C \in T : \A S \in T : S \subseteq C => S = C
  <2> HIDE DEF T
  <2> QED
    BY <1>1, <1>2, Smallest
<1>4. C \subseteq D /\ Chained(C)
  BY <1>3
<1>5. ASSUME NEW s \in C, \A o \in C : ~Waits(o, s) PROVE FALSE
  <2> DEFINE S == C \ {s}
  <2>1. S # {}
    <3>1. PICK o \in C : Waits(s, o)
      BY <1>4
    <3> QED
      BY <3>1 DEF Waits
  <2>2. \A x \in S : \E o \in S : Waits(x, o)
    BY <1>4, <1>5
  <2>3. S \in T
    BY <1>4, <2>1, <2>2
  <2> QED
    BY <1>3, <2>3
<1>6. Circle(C)
  BY <1>4, <1>5 DEF Circle
<1> QED
  BY <1>4, <1>6

\* Everybody in a circle waits for somebody who waits too.
LEMMA RoundTheCircle ==
  ASSUME NEW C \in SUBSET Sessions, Circle(C)
  PROVE  \A s \in C : /\ \E o \in C : Behind(s, o)
                      /\ \E o \in C : Behind(o, s)
<1>1. \A s \in C : tx[s].todo # <<>> /\ tx[s].held # {}
  BY DEF Circle, Waits
<1> QED
  BY <1>1 DEF Circle, Behind

\* The tables of the rows that somebody waits for.
LEMMA WantedTables ==
  ASSUME NEW x, NEW h, Blocked(x, h)
  PROVE  \/ h \in TaskRows \/ h \in ExpertRows \/ h \in MoneyRows
         \/ \E t \in Tasks : \E e : h = GradeRow(t, e)
         \/ \E t : h = RoundRow(t)
<1>1. CASE Reclaiming(x) \/ Serving(x) \/ Scoring(x) \/ Moving(x) \/ Reinstating(x) \/ Closing(x)
  BY <1>1 DEF Blocked, Serving, Reinstating, ExpertRows, MoneyRows,
     Reclaiming, Scoring, Moving, Grading, Deciding, Judging, Resolving, Closing
<1>2. CASE Grading(x) \/ Deciding(x) \/ Judging(x) \/ Resolving(x)
  <2>1. x.task \in Tasks
    BY <1>2 DEF Grading, Deciding, Judging, Resolving
  <2>2. Grading(x) \/ Judging(x) => x.expert \in Experts
    BY DEF Grading, Judging
  <2> QED
    BY <2>1, <2>2 DEF Blocked, TaskRows, ExpertRows, MoneyRows, Serving, Reinstating
<1> QED
  BY <1>1, <1>2 DEF Blocked

\* No circle has a member that waits for payouts.
LEMMA NoMoneyInCircle ==
  ASSUME IInv, NEW C \in SUBSET Sessions, Circle(C), NEW s \in C
  PROVE  Wanted(s) \notin MoneyRows
<1> DEFINE M == {o \in C : Wanted(o) \in MoneyRows}
           rank == [o \in M |-> Place(Names, Wanted(o)[2])]
<1> SUFFICES ASSUME s \in M PROVE FALSE
  OBVIOUS
<1>1. \A o \in M : rank[o] \in 0 .. Len(Names)
  BY Places, RowKeys DEF MoneyRows
<1>2. ASSUME NEW o \in M PROVE \E y \in M : rank[y] > rank[o]
  <2>1. PICK y \in C : Behind(o, y)
    BY RoundTheCircle
  <2>2. y \in M /\ Place(Names, Wanted(o)[2]) < Place(Names, Wanted(y)[2])
    BY <2>1, BehindMoney
  <2>3. rank[y] > rank[o] /\ rank[o] \in 0 .. Len(Names)
    <3>1. rank[y] \in Int /\ rank[o] \in Int
      BY <1>1, <2>2
    <3> QED
      BY <2>2, <3>1, <1>1
  <2> QED
    BY <2>2, <2>3
<1>3. M # {} /\ Len(Names) \in Nat
  BY Places
<1> HIDE DEF M, rank
<1> QED
  BY <1>1, <1>2, <1>3, NoAscent

\* In a deadlock that has to do with experts' rows, everybody waits for one; the ticks among
\* them, which go by the names, are not enough for it.
LEMMA CircleOfExperts ==
  ASSUME IInv, NEW C \in SUBSET Sessions, Deadlock(C), NEW x \in C, Wanted(x) \in ExpertRows
  PROVE  /\ \A s \in C : tx[s].kind \in {"resolve", "tick"} /\ Head(tx[s].todo)[1] = "expert"
         /\ \E s \in C : tx[s].kind = "resolve"
<1> DEFINE Y == {s \in C : /\ Wanted(s) \in ExpertRows
                           /\ Resolving(tx[s]) \/ Scoring(tx[s])}
<1>1. Circle(C)
  BY DEF Deadlock
<1>2. ASSUME NEW s \in C, Wanted(s) \in ExpertRows
      PROVE  \E o \in Y : /\ Behind(s, o)
                          /\ \/ Resolving(tx[o])
                             \/ Place(Names, Wanted(s)[2]) < Place(Names, Wanted(o)[2])
  <2>1. PICK o \in C : Behind(s, o)
    BY <1>1, RoundTheCircle
  <2>2. PICK y \in C : Behind(o, y)
    BY <1>1, RoundTheCircle
  <2>3. Wanted(o) \notin MoneyRows
    BY <1>1, NoMoneyInCircle
  <2>4. Resolving(tx[o]) => Wanted(o) \in ExpertRows
    BY <2>2, BehindResolution
  <2> QED
    BY <1>2, <2>1, <2>3, <2>4, BehindExpert
<1>3. Y # {} /\ \A s \in Y : \E o \in Y : Waits(s, o)
  BY <1>2 DEF Behind
<1>4. PICK D \in SUBSET Y : Circle(D)
  <2>1. Y \in SUBSET Sessions
    OBVIOUS
  <2> HIDE DEF Y
  <2> QED
    BY <1>3, <2>1, CircleAmong
<1>5. D = C
  BY <1>4 DEF Deadlock
<1>6. \A s \in C : Wanted(s) \in ExpertRows /\ (Resolving(tx[s]) \/ Scoring(tx[s]))
  BY <1>4, <1>5
<1>7. \A s \in C : tx[s].kind \in {"resolve", "tick"} /\ Head(tx[s].todo)[1] = "expert"
  <2>1. \A s \in C : tx[s].kind \in {"resolve", "tick"}
    BY <1>6 DEF Resolving, Scoring
  <2>2. ASSUME NEW s \in C PROVE Wanted(s)[1] = "expert"
    <3>1. PICK e \in Experts : Wanted(s) = ExpertRow(e)
      BY <1>6 DEF ExpertRows
    <3> QED
      BY <3>1, RowKeys
  <2> QED
    BY <2>1, <2>2 DEF Wanted
<1>8. ASSUME \A s \in C : tx[s].kind # "resolve" PROVE FALSE
  <2> DEFINE rank == [s \in C |-> Place(Names, Wanted(s)[2])]
  <2>1. \A s \in C : rank[s] \in 0 .. Len(Names)
    BY <1>6, Places, RowKeys DEF ExpertRows
  <2>2. ASSUME NEW s \in C PROVE \E o \in C : rank[o] > rank[s]
    <3>1. PICK o \in Y : /\ \/ Resolving(tx[o])
                            \/ Place(Names, Wanted(s)[2]) < Place(Names, Wanted(o)[2])
      BY <1>2, <1>6
    <3>2. Place(Names, Wanted(s)[2]) < Place(Names, Wanted(o)[2])
      BY <1>8, <3>1 DEF Resolving
    <3>3. rank[s] \in Int /\ rank[o] \in Int
      BY <2>1
    <3> QED
      BY <3>2, <3>3
  <2>3. C # {} /\ Len(Names) \in Nat
    BY Places
  <2> HIDE DEF rank
  <2> QED
    BY <2>1, <2>2, <2>3, NoAscent
<1> QED
  BY <1>7, <1>8

\* A deadlock that has to do with a grade's row is that of two reviews of one task.
LEMMA CircleOfReviews ==
  ASSUME IInv, NEW C \in SUBSET Sessions, Deadlock(C), NEW x \in C,
         NEW t \in Tasks, NEW e, Wanted(x) = GradeRow(t, e)
  PROVE  /\ \A s \in C : tx[s].kind \in {"approve", "reject"}
         /\ \A s, o \in C : tx[s].task = tx[o].task
         /\ \E s \in C : tx[s].kind = "reject" /\ tx[s].pick # NoExpert
<1>1. Circle(C)
  BY DEF Deadlock
<1>2. PICK o \in C : Behind(x, o)
  BY <1>1, RoundTheCircle
<1>3. /\ Judging(tx[x]) /\ tx[x].kind = "reject" /\ tx[x].pick \in Experts
      /\ Deciding(tx[o])
      /\ tx[x].task = t /\ tx[o].task = t
      /\ Wanted(o) = TaskRow(t) /\ TaskRow(t) \in tx[x].held
  BY <1>2, BehindGrade
<1>4. Waits(x, o) /\ Waits(o, x)
  BY <1>2, <1>3 DEF Behind, Waits, Wanted
<1>5. Circle({x, o})
  BY <1>4 DEF Circle
<1>6. C = {x, o}
  BY <1>5 DEF Deadlock
<1>7. tx[o].kind \in {"approve", "reject"}
  BY <1>3 DEF Deciding
<1>8. tx[x].kind \in {"approve", "reject"} /\ tx[x].task = tx[o].task
  BY <1>3
<1>9. tx[x].kind = "reject" /\ tx[x].pick # NoExpert /\ x \in C
  BY <1>3, Parameters
<1> QED
  BY <1>6, <1>7, <1>8, <1>9

\* Tasks alone make no circle: reclaims take them in one order, and no publication waits for
\* an overdue task.
LEMMA NoCircleOfTasks ==
  ASSUME IInv, NEW C \in SUBSET Sessions, Circle(C), \A s \in C : Wanted(s) \in TaskRows
  PROVE  FALSE
<1>1. ASSUME NEW s \in C PROVE Reclaiming(tx[s]) \/ Moving(tx[s])
  <2>1. PICK o \in C : Behind(s, o)
    BY RoundTheCircle
  <2>2. PICK p \in C : Behind(p, s)
    BY RoundTheCircle
  <2>3. Blocked(tx[s], Wanted(s)) /\ Wanted(s) \notin ExpertRows
    BY <2>1, BehindBlocked, TaskApart DEF TaskRows
  <2>4. ~Resolving(tx[s])
    BY <2>1, <2>3, BehindResolution
  <2>5. Wanted(p) \in tx[s].held /\ Wanted(p) \in TaskRows
    BY <2>2, BehindBlocked
  <2>6. PICK t \in Tasks : Wanted(s) = TaskRow(t)
    BY DEF TaskRows
  <2>7. tx[s].held # {GradeRow(tx[s].task, tx[s].expert)}
    BY <2>5, GradeApart
  <2> DEFINE x == tx[s]
             h == Wanted(s)
  <2>8. /\ h # ExpertRow(x.expert) /\ h # PayoutRows(x.expert) /\ h # GradeRow(x.task, x.pick)
        /\ h # RoundRow(x.task) /\ h \notin MoneyRows
    BY <2>6, TaskApart
  <2> HIDE DEF x, h
  <2> QED
    BY <2>3, <2>4, <2>7, <2>8 DEF Blocked, x, h
<1>2. ASSUME NEW s \in C, NEW o \in C, Behind(s, o)
      PROVE  /\ Reclaiming(tx[o])
             /\ Place(Scan, Wanted(s)[2]) < Place(Scan, Wanted(o)[2])
  <2>1. PICK t \in Tasks : Wanted(s) = TaskRow(t)
    BY DEF TaskRows
  <2>2. \/ Moving(tx[o])
        \/ Reclaiming(tx[o]) /\ status[t] = "due" /\ Place(Scan, t) < Place(Scan, Wanted(o)[2])
    BY <1>2, <2>1, BehindTask
  <2>3. ASSUME Moving(tx[o]) PROVE FALSE
    <3>1. PICK y \in C : Behind(o, y)
      BY RoundTheCircle
    <3>2. PICK u \in Tasks : Wanted(o) = TaskRow(u)
      BY DEF TaskRows
    <3>3. TaskRow(u) \in ToSet(tx[o].todo)
      <4>1. tx[o].todo \in Seq(TaskRows) /\ tx[o].todo # <<>>
        BY <1>2, <2>3 DEF Moving, Behind
      <4>2. 1 \in DOMAIN tx[o].todo /\ tx[o].todo[1] = TaskRow(u)
        BY <3>2, <4>1 DEF Wanted
      <4> QED
        BY <4>2 DEF ToSet
    <3>4. status[u] # "due" /\ RubricRow \in tx[o].held
      BY <2>3, <3>3 DEF Moving
    <3>5. Moving(tx[y])
      BY <3>1, <3>2, <3>4, BehindTask
    <3> QED
      BY <3>1, <3>4, <3>5, BehindBlocked DEF Moving
  <2> QED
    BY <2>1, <2>2, <2>3, RowKeys
<1> DEFINE rank == [s \in C |-> Place(Scan, Wanted(s)[2])]
<1>3. \A s \in C : rank[s] \in 0 .. Len(Scan)
  BY Places, RowKeys DEF TaskRows
<1>4. ASSUME NEW s \in C PROVE \E o \in C : rank[o] > rank[s]
  <2>1. PICK o \in C : Behind(s, o)
    BY RoundTheCircle
  <2>2. Place(Scan, Wanted(s)[2]) < Place(Scan, Wanted(o)[2])
    BY <1>2, <2>1
  <2>3. rank[s] \in Int /\ rank[o] \in Int
    BY <1>3
  <2> QED
    BY <2>2, <2>3
<1>5. C # {} /\ Len(Scan) \in Nat
  BY Places DEF Circle
<1> HIDE DEF rank
<1> QED
  BY <1>3, <1>4, <1>5, NoAscent

\* A deadlock is over experts, over grades, or, which cannot be, over tasks alone.
LEMMA InvDeadlocks == IInv => DeadlocksKnown
<1> SUFFICES ASSUME IInv, NEW C \in SUBSET Sessions, Deadlock(C)
    PROVE  \/ /\ \A s \in C : /\ tx[s].kind \in {"resolve", "tick"}
                              /\ Head(tx[s].todo)[1] = "expert"
              /\ \E s \in C : tx[s].kind = "resolve"
           \/ /\ \A s \in C : tx[s].kind \in {"approve", "reject"}
              /\ \A s, o \in C : tx[s].task = tx[o].task
              /\ \E s \in C : tx[s].kind = "reject" /\ tx[s].pick # NoExpert
  BY DEF DeadlocksKnown
<1>1. CASE \E x \in C : Wanted(x) \in ExpertRows
  BY <1>1, CircleOfExperts
<1>2. CASE \E x \in C : \E t \in Tasks : \E e : Wanted(x) = GradeRow(t, e)
  <2>1. PICK x \in C, t \in Tasks : \E e : Wanted(x) = GradeRow(t, e)
    BY <1>2
  <2>2. PICK e : Wanted(x) = GradeRow(t, e)
    BY <2>1
  <2>3. /\ \A s \in C : tx[s].kind \in {"approve", "reject"}
        /\ \A s, o \in C : tx[s].task = tx[o].task
        /\ \E s \in C : tx[s].kind = "reject" /\ tx[s].pick # NoExpert
    <3>1. x \in C /\ t \in Tasks
      OBVIOUS
    <3> QED
      BY <2>2, <3>1, CircleOfReviews
  <2> QED
    BY <2>3
<1>3. CASE /\ \A x \in C : Wanted(x) \notin ExpertRows
           /\ \A x \in C : ~ \E t \in Tasks : \E e : Wanted(x) = GradeRow(t, e)
  <2>1. Circle(C)
    BY DEF Deadlock
  <2>2. ASSUME NEW s \in C PROVE Wanted(s) \in TaskRows
    <3>1. PICK o \in C : Behind(s, o)
      BY <2>1, RoundTheCircle
    <3>2. Blocked(tx[s], Wanted(s))
      BY <3>1, BehindBlocked
    <3>3. ~ \E t : Wanted(s) = RoundRow(t)
      BY <3>1, BehindRound
    <3>4. Wanted(s) \notin MoneyRows
      BY <2>1, NoMoneyInCircle
    <3> QED
      BY <1>3, <3>2, <3>3, <3>4, WantedTables
  <2> QED
    BY <2>1, <2>2, NoCircleOfTasks
<1> QED
  BY <1>1, <1>2, <1>3

-----------------------------------------------------------------------------
(* The invariant is inductive.                                             *)

\* Nothing is locked at first.
LEMMA InitInv == Init => IInv
<1> SUFFICES ASSUME Init PROVE IInv
  OBVIOUS
<1>1. Closed \in Transactions
  <2>1. <<>> \in Seq(Rows)
    BY EmptySeq
  <2> QED
    BY <2>1 DEF Closed, Transactions, Kinds
<1>2. TypeOK
  BY <1>1, EmptySeq DEF Init, TypeOK
<1>3. \A t \in Tasks : Life(t)
  <2>1. \A t \in Tasks : Len(graded[t]) = 0
    BY EmptySeq DEF Init
  <2> QED
    BY <2>1, Parameters DEF Init, Life
<1>4. \A s \in Sessions : Shape(tx[s]) /\ tx[s].held = {}
  BY DEF Init, Shape, Closed
<1> QED
  BY <1>2, <1>3, <1>4 DEF IInv, LockedOnce

\* The shape of a transaction in the next state is that of what it is there.
LEMMA ShapeNext ==
  ASSUME NEW s \in Sessions, NEW x, x = tx'[s], Shape(x)'
  PROVE  Shape(tx[s])'
<1>1. /\ Reclaiming(x)' => Reclaiming(tx[s])'
      /\ Serving(x)' => Serving(tx[s])'
      /\ Scoring(x)' => Scoring(tx[s])'
  BY DEF Reclaiming, Serving, Scoring
<1>2. /\ Superseding(x)' => Superseding(tx[s])'
      /\ Moving(x)' => Moving(tx[s])'
  BY DEF Superseding, Moving
<1>3. /\ GivingUp(x)' => GivingUp(tx[s])'
      /\ Grading(x)' => Grading(tx[s])'
  BY DEF GivingUp, Grading
<1>4. /\ Loading(x)' => Loading(tx[s])'
      /\ Deciding(x)' => Deciding(tx[s])'
      /\ Judging(x)' => Judging(tx[s])'
  BY DEF Loading, Deciding, Judging, Settled
<1>5. /\ Opening(x)' => Opening(tx[s])'
      /\ Resolving(x)' => Resolving(tx[s])'
  BY DEF Opening, Resolving
<1>6. /\ Reinstating(x)' => Reinstating(tx[s])'
      /\ Closing(x)' => Closing(tx[s])'
  BY DEF Reinstating, Closing
<1> QED
  BY <1>1, <1>2, <1>3, <1>4, <1>5, <1>6 DEF Shape

\* What a transaction has found still stands when its rows have not been changed, but for a
\* lease that passes.
LEMMA ShapeStands ==
  ASSUME NEW x, Shape(x),
         \A t \in Tasks : TaskRow(t) \in x.held =>
           status'[t] = status[t] \/ (status[t] = "assigned" /\ status'[t] = "due"),
         \A t \in Tasks : TaskRow(t) \in ToSet(x.todo) /\ status'[t] = "due" => status[t] = "due",
         \A t \in Tasks : Settled(t) => Settled(t)',
         \A t \in Tasks : round[t] = "adjudicating" /\ RoundRow(t) \in x.held =>
           round'[t] = "adjudicating"
  PROVE  Shape(x)'
<1>1. CASE x = Closed \/ Superseding(x) \/ GivingUp(x) \/ Loading(x) \/ Opening(x)
           \/ Reinstating(x) \/ Closing(x)
  BY <1>1 DEF Shape, Superseding, GivingUp, Loading, Opening, Reinstating, Closing
<1>2. CASE Reclaiming(x)
  BY <1>2 DEF Shape, Reclaiming
<1>3. CASE Serving(x)
  BY <1>3 DEF Shape, Serving
<1>4. CASE Scoring(x)
  BY <1>4 DEF Shape, Scoring
<1>5. CASE Moving(x)
  BY <1>5 DEF Shape, Moving
<1>6. CASE Grading(x)
  BY <1>6 DEF Shape, Grading
<1>7. CASE Deciding(x)
  BY <1>7 DEF Shape, Deciding
<1>8. CASE Judging(x)
  BY <1>8 DEF Shape, Judging
<1>9. CASE Resolving(x)
  BY <1>9 DEF Shape, Resolving
<1> QED
  BY <1>1, <1>2, <1>3, <1>4, <1>5, <1>6, <1>7, <1>8, <1>9 DEF Shape

\* A statement that changes no row.
LEMMA StatementKeeps ==
  ASSUME IInv, UNCHANGED rows, NEW s \in Sessions, NEW x \in Transactions,
         tx' = [tx EXCEPT ![s] = x], Shape(x),
         \A o \in Sessions : o # s => x.held \cap tx[o].held = {}
  PROVE  IInv'
<1>1. /\ TypeOK /\ LockedOnce
      /\ \A t \in Tasks : Life(t)
      /\ \A o \in Sessions : Shape(tx[o])
  BY DEF IInv
<1>2. tx'[s] = x /\ \A o \in Sessions : o # s => tx'[o] = tx[o]
  BY <1>1 DEF TypeOK
<1>3. TypeOK'
  BY <1>1 DEF TypeOK, rows
<1>4. ASSUME NEW t \in Tasks PROVE Life(t)'
  BY <1>1 DEF Life, rows
<1>5. ASSUME NEW o \in Sessions PROVE Shape(tx[o])'
  <2>1. PICK y : y = tx'[o]
    OBVIOUS
  <2>2. Shape(y)
    BY <1>1, <1>2, <2>1
  <2>3. Shape(y)'
    BY <2>2, ShapeStands DEF rows, Settled
  <2> QED
    BY <2>1, <2>3, ShapeNext
<1>6. LockedOnce'
  BY <1>1, <1>2 DEF LockedOnce
<1> QED
  BY <1>3, <1>4, <1>5, <1>6 DEF IInv

\* The end of a transaction, which has changed the rows that it holds.
LEMMA EndKeeps ==
  ASSUME IInv, NEW s \in Sessions, Free(s),
         status' \in [Tasks -> {"queued", "assigned", "due", "done", "adjudication"}],
         round' \in [Tasks -> {"none", "agreed", "adjudicating", "adjudicated"}],
         graded' \in [Tasks -> Seq(Experts)],
         \A t \in Tasks : /\ Life(t)'
                          /\ Settled(t) => Settled(t)'
                          /\ TaskRow(t) \notin tx[s].held => status'[t] = status[t]
                          /\ status'[t] = "due" => status[t] = "due"
                          /\ RoundRow(t) \notin tx[s].held /\ round[t] = "adjudicating" =>
                               round'[t] = "adjudicating"
  PROVE  IInv'
<1>1. /\ TypeOK /\ LockedOnce
      /\ \A o \in Sessions : Shape(tx[o])
  BY DEF IInv
<1>2. tx'[s] = Closed /\ \A o \in Sessions : o # s => tx'[o] = tx[o]
  BY <1>1 DEF TypeOK, Free
<1>3. TypeOK'
  <2>1. <<>> \in Seq(Rows)
    BY EmptySeq
  <2>2. Closed \in Transactions
    BY <2>1 DEF Closed, Transactions, Kinds
  <2> QED
    BY <1>1, <2>2 DEF TypeOK, Free
<1>4. ASSUME NEW o \in Sessions PROVE Shape(tx[o])'
  <2>1. PICK y : y = tx'[o]
    OBVIOUS
  <2>2. CASE o = s
    <3>1. Shape(y)'
      BY <1>2, <2>1, <2>2 DEF Shape
    <3> QED
      BY <2>1, <3>1, ShapeNext
  <2>3. CASE o # s
    <3>1. Shape(y) /\ y.held \cap tx[s].held = {}
      BY <1>1, <1>2, <2>1, <2>3 DEF LockedOnce
    <3>2. Shape(y)'
      BY <3>1, ShapeStands
    <3> QED
      BY <2>1, <3>2, ShapeNext
  <2> QED
    BY <2>2, <2>3
<1>5. LockedOnce'
  <2>1. tx'[s].held = {}
    BY <1>2 DEF Closed
  <2> QED
    BY <1>1, <1>2, <2>1 DEF LockedOnce
<1> QED
  BY <1>3, <1>4, <1>5 DEF IInv

\* A lease that passes disturbs nobody who holds the task, nor an UPDATE about to lock it.
LEMMA ExpireKeeps ==
  ASSUME IInv, NEW t \in Tasks, Expire(t)
  PROVE  IInv'
<1>1. /\ TypeOK /\ LockedOnce
      /\ \A u \in Tasks : Life(u)
      /\ \A o \in Sessions : Shape(tx[o])
  BY DEF IInv
<1>2. /\ status[t] = "assigned" /\ status' = [status EXCEPT ![t] = "due"]
      /\ tx' = tx /\ round' = round /\ graded' = graded
      /\ \A s \in Sessions : TaskRow(t) \notin ToSet(tx[s].todo)
  BY DEF Expire
<1>3. status'[t] = "due" /\ \A u \in Tasks : u # t => status'[u] = status[u]
  BY <1>1, <1>2 DEF TypeOK
<1>4. TypeOK'
  BY <1>1, <1>2 DEF TypeOK
<1>5. ASSUME NEW u \in Tasks PROVE Life(u)'
  BY <1>1, <1>2, <1>3 DEF Life
<1>6. ASSUME NEW o \in Sessions PROVE Shape(tx[o])'
  <2>1. PICK y : y = tx'[o]
    OBVIOUS
  <2>2. Shape(y) /\ TaskRow(t) \notin ToSet(y.todo)
    BY <1>1, <1>2, <2>1
  <2>3. \A u \in Tasks : Settled(u) => Settled(u)'
    BY <1>2, <1>3 DEF Settled
  <2>4. Shape(y)'
    BY <1>2, <1>3, <2>2, <2>3, ShapeStands
  <2> QED
    BY <2>1, <2>4, ShapeNext
<1>7. LockedOnce'
  BY <1>1, <1>2 DEF LockedOnce
<1> QED
  BY <1>4, <1>5, <1>6, <1>7 DEF IInv

-----------------------------------------------------------------------------
(* The first statement of a transaction.                                   *)

\* Every key has its row.
LEMMA RowsOfTables ==
  /\ TaskRows \subseteq Rows /\ ExpertRows \subseteq Rows /\ MoneyRows \subseteq Rows
  /\ RubricRow \in Rows
  /\ \A t \in Tasks : TaskRow(t) \in Rows /\ RoundRow(t) \in Rows /\ TaskRow(t) \in TaskRows
  /\ \A e \in Experts : /\ ExpertRow(e) \in Rows /\ PayoutRows(e) \in Rows
                        /\ ExpertRow(e) \in ExpertRows /\ PayoutRows(e) \in MoneyRows
  /\ \A t \in Tasks, e \in Experts : GradeRow(t, e) \in Rows
BY DEF Rows, TaskRows, ExpertRows, MoneyRows, GradesOf

\* A function on the first naturals is a sequence.
LEMMA AsSequence ==
  ASSUME NEW S, NEW n \in Nat, NEW f \in [1 .. n -> S]
  PROVE  f \in Seq(S)
BY SeqDef

\* A set is taken in turns: each of its members, in the order of seq.
LEMMA TurnsInOrder ==
  ASSUME NEW seq, NEW S, IsFiniteSet(S), NEW turns \in Turns(seq, S)
  PROVE  /\ turns \in Seq(S)
         /\ \A i, j \in DOMAIN turns : i < j => Place(seq, turns[i]) < Place(seq, turns[j])
<1>1. Cardinality(S) \in Nat
  BY FS_CardinalityType
<1> QED
  BY <1>1 DEF Turns

\* reclaim_expired locks the tasks in the order of the scan,
LEMMA DueInOrder ==
  ASSUME NEW due \in DueRows
  PROVE  due \in Seq(TaskRows) /\ InOrder(Scan, due, {})
<1> DEFINE S == {t \in Tasks : status[t] = "due"}
<1>1. IsFiniteSet(S)
  BY Places, FS_Subset
<1>2. PICK turns \in Turns(Scan, S) : due = [i \in DOMAIN turns |-> TaskRow(turns[i])]
  BY DEF DueRows, InTurn
<1>3. /\ turns \in Seq(S)
      /\ \A i, j \in DOMAIN turns : i < j => Place(Scan, turns[i]) < Place(Scan, turns[j])
  <2> HIDE DEF S
  <2> QED
    BY <1>1, TurnsInOrder
<1>4. due \in Seq(TaskRows)
  <2>1. turns \in [1 .. Len(turns) -> S] /\ Len(turns) \in Nat
    BY <1>3
  <2>2. due \in [1 .. Len(turns) -> TaskRows]
    BY <1>2, <2>1, RowsOfTables
  <2> QED
    BY <2>1, <2>2, AsSequence
<1>5. DOMAIN due = DOMAIN turns /\ \A i \in DOMAIN due : due[i][2] = turns[i]
  BY <1>2, RowKeys
<1> QED
  BY <1>3, <1>4, <1>5 DEF InOrder

\* the tick the experts in the order of their names,
LEMMA ScoredInOrder ==
  ASSUME NEW todo \in ScoredExperts
  PROVE  todo \in Seq(ExpertRows) /\ InOrder(Names, todo, {})
<1>1. PICK S \in SUBSET Experts : todo \in InTurn(Names, S, ExpertRow)
  BY DEF ScoredExperts
<1>2. IsFiniteSet(S)
  BY Places, FS_Subset
<1>3. PICK turns \in Turns(Names, S) : todo = [i \in DOMAIN turns |-> ExpertRow(turns[i])]
  BY <1>1 DEF InTurn
<1>4. /\ turns \in Seq(S)
      /\ \A i, j \in DOMAIN turns : i < j => Place(Names, turns[i]) < Place(Names, turns[j])
  BY <1>2, TurnsInOrder
<1>5. todo \in Seq(ExpertRows)
  <2>1. turns \in [1 .. Len(turns) -> Experts] /\ Len(turns) \in Nat
    BY <1>4
  <2>2. todo \in [1 .. Len(turns) -> ExpertRows]
    BY <1>3, <2>1, RowsOfTables
  <2> QED
    BY <2>1, <2>2, AsSequence
<1>6. DOMAIN todo = DOMAIN turns /\ \A i \in DOMAIN todo : todo[i][2] = turns[i]
  BY <1>3, RowKeys
<1> QED
  BY <1>4, <1>5, <1>6 DEF InOrder

\* and close_period the experts' payouts likewise.
LEMMA PendingInOrder ==
  ASSUME NEW S \in SUBSET Experts, NEW todo \in InTurn(Names, S, PayoutRows)
  PROVE  todo \in Seq(MoneyRows) /\ InOrder(Names, todo, {})
<1>1. IsFiniteSet(S)
  BY Places, FS_Subset
<1>2. PICK turns \in Turns(Names, S) : todo = [i \in DOMAIN turns |-> PayoutRows(turns[i])]
  BY DEF InTurn
<1>3. /\ turns \in Seq(S)
      /\ \A i, j \in DOMAIN turns : i < j => Place(Names, turns[i]) < Place(Names, turns[j])
  BY <1>1, TurnsInOrder
<1>4. todo \in Seq(MoneyRows)
  <2>1. turns \in [1 .. Len(turns) -> Experts] /\ Len(turns) \in Nat
    BY <1>3
  <2>2. todo \in [1 .. Len(turns) -> MoneyRows]
    BY <1>2, <2>1, RowsOfTables
  <2> QED
    BY <2>1, <2>2, AsSequence
<1>5. DOMAIN todo = DOMAIN turns /\ \A i \in DOMAIN todo : todo[i][2] = turns[i]
  BY <1>2, RowKeys
<1> QED
  BY <1>3, <1>4, <1>5 DEF InOrder

Begun(x, kind, t, e, todo) ==
  /\ x.kind = kind /\ x.task = t /\ x.expert = e /\ x.at = 1
  /\ x.todo = todo /\ x.held = {}

\* A transaction begins with no row, and with the rows of its first statement to lock.
LEMMA BeginKeeps ==
  ASSUME IInv, NEW s \in Sessions, NEW kind \in Kinds, NEW t \in Tasks \cup {NoTask},
         NEW e \in Experts \cup {NoExpert}, NEW todo \in Seq(Rows), Begin(s, kind, t, e, todo),
         \A x : Begun(x, kind, t, e, todo) => Shape(x)
  PROVE  IInv'
<1> DEFINE x == [kind |-> kind, task |-> t, expert |-> e, at |-> 1, todo |-> todo,
                 held |-> {}, pick |-> NoExpert]
<1>1. x \in Transactions
  BY DEF Transactions
<1>2. tx' = [tx EXCEPT ![s] = x] /\ UNCHANGED rows
  BY DEF Begin
<1>3. Begun(x, kind, t, e, todo) /\ x.held = {}
  BY DEF Begun
<1> HIDE DEF x
<1>4. Shape(x)
  BY <1>3
<1> QED
  BY <1>1, <1>2, <1>3, <1>4, StatementKeeps

\* A sweep, a tick or a claim begins (ops.tick, routing.claim_next).
LEMMA BeginReclaimKeeps ==
  ASSUME IInv, NEW s \in Sessions,
         BeginSweep(s) \/ \E e \in Experts : BeginClaim(s, e)
  PROVE  IInv'
<1>1. PICK kind \in {"sweep", "tick", "claim"}, e \in Experts \cup {NoExpert}, due \in DueRows :
        Begin(s, kind, NoTask, e, due) /\ (kind = "claim" => e \in Experts)
  BY DEF BeginSweep, BeginClaim
<1>2. due \in Seq(TaskRows) /\ InOrder(Scan, due, {})
  BY DueInOrder
<1>3. due \in Seq(Rows)
  BY <1>2, RowsOfTables, SeqMonotonic
<1>4. ASSUME NEW x, Begun(x, kind, NoTask, e, due) PROVE Shape(x)
  BY <1>1, <1>2, <1>4 DEF Begun, Shape, Reclaiming
<1>5. kind \in Kinds
  BY DEF Kinds
<1> QED
  BY <1>1, <1>3, <1>4, <1>5, BeginKeeps

\* A publication begins (rubrics.publish_version).
LEMMA BeginPublishKeeps ==
  ASSUME IInv, NEW s \in Sessions, BeginPublish(s)
  PROVE  IInv'
<1>1. ASSUME NEW x, Begun(x, "publish", NoTask, NoExpert, <<RubricRow>>) PROVE Shape(x)
  BY <1>1 DEF Begun, Shape, Superseding, FirstRow
<1>2. <<RubricRow>> \in Seq(Rows) /\ "publish" \in Kinds
  BY RowsOfTables DEF Kinds
<1> QED
  BY <1>1, <1>2, BeginKeeps DEF BeginPublish

\* The closing of a period begins (payouts.close_period).
LEMMA BeginCloseKeeps ==
  ASSUME IInv, NEW s \in Sessions, BeginClose(s)
  PROVE  IInv'
<1>0. PICK S \in SUBSET Experts :
        \E payouts \in InTurn(Names, S, PayoutRows) : Begin(s, "close", NoTask, NoExpert, payouts)
  BY DEF BeginClose
<1>1. PICK todo \in InTurn(Names, S, PayoutRows) : Begin(s, "close", NoTask, NoExpert, todo)
  BY <1>0
<1>2. todo \in Seq(MoneyRows) /\ InOrder(Names, todo, {})
  BY PendingInOrder
<1>3. todo \in Seq(Rows) /\ "close" \in Kinds
  BY <1>2, RowsOfTables, SeqMonotonic DEF Kinds
<1>4. ASSUME NEW x, Begun(x, "close", NoTask, NoExpert, todo) PROVE Shape(x)
  BY <1>2, <1>4 DEF Begun, Shape, Closing
<1> QED
  BY <1>1, <1>3, <1>4, BeginKeeps

\* A change of an expert begins (experts.set_status).
LEMMA BeginStatusKeeps ==
  ASSUME IInv, NEW s \in Sessions, NEW e \in Experts, BeginStatus(s, e)
  PROVE  IInv'
<1>1. PICK todo \in {<<ExpertRow(e)>>, <<ExpertRow(e), PayoutRows(e)>>} :
        Begin(s, "set_status", NoTask, e, todo)
  <2>1. PICK payouts \in {<<>>, <<PayoutRows(e)>>} :
          Begin(s, "set_status", NoTask, e, <<ExpertRow(e)>> \o payouts)
    BY DEF BeginStatus, Perhaps
  <2>2. /\ <<ExpertRow(e)>> \o <<>> = <<ExpertRow(e)>>
        /\ <<ExpertRow(e)>> \o <<PayoutRows(e)>> = <<ExpertRow(e), PayoutRows(e)>>
    BY FewRows
  <2> QED
    BY <2>1, <2>2
<1>2. todo \in Seq(Rows) /\ "set_status" \in Kinds
  <2>1. ExpertRow(e) \in Rows /\ PayoutRows(e) \in Rows
    BY RowsOfTables
  <2>2. <<ExpertRow(e)>> \in Seq(Rows) /\ <<ExpertRow(e), PayoutRows(e)>> \in Seq(Rows)
    BY <2>1
  <2> QED
    BY <2>2 DEF Kinds
<1>3. ASSUME NEW x, Begun(x, "set_status", NoTask, e, todo) PROVE Shape(x)
  BY <1>3 DEF Begun, Shape, Reinstating
<1> QED
  BY <1>1, <1>2, <1>3, BeginKeeps

\* A submission, a release, a review or a resolution begins.
LEMMA BeginTaskKeeps ==
  ASSUME IInv, NEW s \in Sessions, NEW t \in Tasks,
         \/ \E e \in Experts : BeginGivingUp(s, e, t) \/ BeginReview(s, e, t)
         \/ BeginResolve(s, t)
  PROVE  IInv'
<1>1. CASE \E e \in Experts : BeginGivingUp(s, e, t)
  <2>1. PICK e \in Experts, kind \in {"submit", "release"} :
          Begin(s, kind, t, e, <<TaskRow(t)>>)
    BY <1>1 DEF BeginGivingUp
  <2>2. ASSUME NEW x, Begun(x, kind, t, e, <<TaskRow(t)>>) PROVE Shape(x)
    BY <2>2 DEF Begun, Shape, GivingUp, FirstRow
  <2>3. <<TaskRow(t)>> \in Seq(Rows) /\ kind \in Kinds
    BY RowsOfTables DEF Kinds
  <2> QED
    BY <2>1, <2>2, <2>3, BeginKeeps
<1>2. CASE \E e \in Experts : BeginReview(s, e, t)
  <2>1. PICK e \in Experts, kind \in {"approve", "reject"} :
          Begin(s, kind, t, e, <<GradeRow(t, e)>>)
    BY <1>2 DEF BeginReview
  <2>2. ASSUME NEW x, Begun(x, kind, t, e, <<GradeRow(t, e)>>) PROVE Shape(x)
    BY <2>2 DEF Begun, Shape, Loading, FirstRow
  <2>3. <<GradeRow(t, e)>> \in Seq(Rows) /\ kind \in Kinds
    BY RowsOfTables DEF Kinds
  <2> QED
    BY <2>1, <2>2, <2>3, BeginKeeps
<1>3. CASE BeginResolve(s, t)
  <2>1. Begin(s, "resolve", t, NoExpert, <<RoundRow(t)>>)
    BY <1>3 DEF BeginResolve
  <2>2. ASSUME NEW x, Begun(x, "resolve", t, NoExpert, <<RoundRow(t)>>) PROVE Shape(x)
    BY <2>2 DEF Begun, Shape, Opening, FirstRow
  <2>3. <<RoundRow(t)>> \in Seq(Rows) /\ "resolve" \in Kinds
    BY RowsOfTables DEF Kinds
  <2> QED
    BY <2>1, <2>2, <2>3, BeginKeeps
<1> QED
  BY <1>1, <1>2, <1>3

-----------------------------------------------------------------------------
(* A statement gets its next row.                                          *)

\* What is left of one row or of two.
LEMMA RowsLeft ==
  /\ \A todo, a : todo = <<a>> => Head(todo) = a /\ Tail(todo) = <<>>
  /\ \A todo, a, b : todo = <<a, b>> => Head(todo) = a /\ Tail(todo) = <<b>>
<1>1. ASSUME NEW todo, NEW a, todo = <<a>> PROVE Head(todo) = a /\ Tail(todo) = <<>>
  <2>1. Head(<<a>>) = a /\ Tail(<<a>>) = <<>>
    BY FewRows
  <2> QED
    BY <1>1, <2>1
<1>2. ASSUME NEW todo, NEW a, NEW b, todo = <<a, b>> PROVE Head(todo) = a /\ Tail(todo) = <<b>>
  <2>1. Head(<<a, b>>) = a /\ Tail(<<a, b>>) = <<b>>
    BY FewRows
  <2> QED
    BY <1>2, <2>1
<1> QED
  BY <1>1, <1>2

\* Rows are locked in order, and what is left is in order and after what is held.
LEMMA OrderTail ==
  ASSUME NEW seq, NEW S, NEW todo \in Seq(S), todo # <<>>, NEW held, InOrder(seq, todo, held)
  PROVE  /\ Tail(todo) \in Seq(S) /\ ToSet(Tail(todo)) \subseteq ToSet(todo)
         /\ InOrder(seq, Tail(todo), held)
         /\ InOrder(seq, Tail(todo), held \cup {Head(todo)})
         /\ Head(todo) \in S /\ Head(todo) \in ToSet(todo)
<1>1. /\ Tail(todo) \in Seq(S) /\ Head(todo) \in S /\ Head(todo) = todo[1]
      /\ Len(todo) \in Nat /\ Len(todo) >= 1 /\ DOMAIN todo = 1 .. Len(todo)
      /\ DOMAIN Tail(todo) = 1 .. Len(todo) - 1
  OBVIOUS
<1>2. \A i \in 1 .. Len(todo) - 1 : Tail(todo)[i] = todo[i + 1] /\ i + 1 \in DOMAIN todo
  BY <1>1
<1>3. ToSet(Tail(todo)) \subseteq ToSet(todo) /\ Head(todo) \in ToSet(todo)
  <2>1. 1 \in DOMAIN todo
    BY <1>1
  <2>2. ASSUME NEW row \in ToSet(Tail(todo)) PROVE row \in ToSet(todo)
    <3>1. PICK i \in DOMAIN Tail(todo) : row = Tail(todo)[i]
      BY DEF ToSet
    <3> QED
      BY <1>1, <1>2, <3>1 DEF ToSet
  <2> QED
    BY <1>1, <2>1, <2>2 DEF ToSet
<1>4. ASSUME NEW i \in DOMAIN Tail(todo), NEW j \in DOMAIN Tail(todo), i < j
      PROVE  Place(seq, Tail(todo)[i][2]) < Place(seq, Tail(todo)[j][2])
  <2>1. i + 1 \in DOMAIN todo /\ j + 1 \in DOMAIN todo /\ i + 1 < j + 1
    BY <1>1, <1>4
  <2> QED
    BY <1>1, <1>2, <2>1 DEF InOrder
<1>5. ASSUME NEW row \in held \cup {Head(todo)}, NEW i \in DOMAIN Tail(todo)
      PROVE  Place(seq, row[2]) < Place(seq, Tail(todo)[i][2])
  <2>1. i + 1 \in DOMAIN todo /\ 1 \in DOMAIN todo /\ 1 < i + 1 /\ Tail(todo)[i] = todo[i + 1]
    BY <1>1, <1>2
  <2> QED
    BY <1>1, <2>1 DEF InOrder
<1> QED
  BY <1>1, <1>3, <1>4, <1>5 DEF InOrder

\* Once it has its lock, the row still matches the statement.
Matched(w) ==
  /\ w.kind \in {"claim", "sweep", "tick"} /\ Head(w.todo)[1] = "task" =>
       status[Head(w.todo)[2]] = "due"
  /\ w.kind = "publish" /\ Head(w.todo)[1] = "task" =>
       status[Head(w.todo)[2]] = "queued" /\ Untouched(Head(w.todo)[2])

\* A transaction that gets its next row is still what its statement makes it.
LEMMA LockShape ==
  ASSUME NEW w \in Transactions, NEW x \in Transactions, Shape(w), w.todo # <<>>,
         x.kind = w.kind, x.task = w.task, x.expert = w.expert, x.at = w.at, x.pick = w.pick,
         x.todo = Tail(w.todo),
         Matched(w) => x.held = w.held \cup {Head(w.todo)},
         ~Matched(w) => x.held = w.held
  PROVE  Shape(x)
<1> DEFINE h == Head(w.todo)
<1>1. \A a : w.todo = <<a>> => h = a /\ x.todo = <<>>
  BY RowsLeft
<1>2. \A a, b : w.todo = <<a, b>> => h = a /\ x.todo = <<b>>
  BY RowsLeft
<1>3. ASSUME NEW seq, NEW S, w.todo \in Seq(S), NEW held, InOrder(seq, w.todo, held)
       PROVE  /\ x.todo \in Seq(S) /\ h \in S
              /\ InOrder(seq, x.todo, held) /\ InOrder(seq, x.todo, held \cup {h})
  <2>1. /\ Tail(w.todo) \in Seq(S) /\ Head(w.todo) \in S
        /\ InOrder(seq, Tail(w.todo), held)
        /\ InOrder(seq, Tail(w.todo), held \cup {Head(w.todo)})
    BY <1>3, OrderTail
  <2> QED
    BY <2>1
<1>4. CASE w = Closed
  BY <1>4 DEF Closed
<1>5. CASE Reclaiming(w)
  <2>1. /\ x.todo \in Seq(TaskRows) /\ h \in TaskRows
        /\ InOrder(Scan, x.todo, w.held) /\ InOrder(Scan, x.todo, w.held \cup {h})
    <3>1. w.todo \in Seq(TaskRows) /\ InOrder(Scan, w.todo, w.held)
      BY <1>5 DEF Reclaiming
    <3> QED
      BY <3>1, <1>3
  <2>2. PICK u \in Tasks : h = TaskRow(u)
    BY <2>1 DEF TaskRows
  <2>3. Matched(w) <=> status[u] = "due"
    BY <1>5, <2>2, RowKeys DEF Reclaiming, Matched
  <2>4. \A t \in Tasks : h = TaskRow(t) => t = u
    BY <2>2, TaskApart
  <2>5. Reclaiming(x)
    <3>1. CASE Matched(w)
      BY <1>5, <2>1, <2>3, <2>4, <3>1 DEF Reclaiming
    <3>2. CASE ~Matched(w)
      BY <1>5, <2>1, <3>2 DEF Reclaiming
    <3> QED
      BY <3>1, <3>2
  <2> QED
    BY <2>5 DEF Shape
<1>6. CASE Scoring(w)
  <2>1. /\ x.todo \in Seq(ExpertRows) /\ h \in ExpertRows
        /\ InOrder(Names, x.todo, (w.held \cap ExpertRows) \cup {h})
    <3>1. w.todo \in Seq(ExpertRows) /\ InOrder(Names, w.todo, w.held \cap ExpertRows)
      BY <1>6 DEF Scoring
    <3> QED
      BY <3>1, <1>3
  <2>2. Matched(w) /\ x.held = w.held \cup {h}
    BY <1>6, <2>1, RowKeys DEF Scoring, ExpertRows, Matched
  <2>3. x.held = w.held \cup {h} /\ x.held \cap ExpertRows = (w.held \cap ExpertRows) \cup {h}
    BY <2>1, <2>2
  <2>4. \A t \in Tasks : TaskRow(t) # h
    BY <2>1, TaskApart
  <2>5. Scoring(x)
    BY <1>6, <2>1, <2>3, <2>4 DEF Scoring
  <2> QED
    BY <2>5 DEF Shape
<1>7. CASE Moving(w)
  <2>1. x.todo \in Seq(TaskRows) /\ h \in TaskRows /\ ToSet(x.todo) \subseteq ToSet(w.todo)
    <3>1. w.todo \in Seq(TaskRows)
      BY <1>7 DEF Moving
    <3>2. ToSet(Tail(w.todo)) \subseteq ToSet(w.todo)
      BY <3>1 DEF ToSet
    <3> QED
      BY <3>1, <3>2, HeadTailProperties
  <2>2. PICK u \in Tasks : h = TaskRow(u)
    BY <2>1 DEF TaskRows
  <2>3. Matched(w) <=> status[u] = "queued" /\ Untouched(u)
    BY <1>7, <2>2, RowKeys DEF Moving, Matched
  <2>4. \A t \in Tasks : h = TaskRow(t) => t = u
    BY <2>2, TaskApart
  <2>5. Moving(x)
    BY <1>7, <2>1, <2>3, <2>4 DEF Moving
  <2> QED
    BY <2>5 DEF Shape
<1>8. CASE Closing(w)
  <2>1. x.todo \in Seq(MoneyRows) /\ h \in MoneyRows /\ InOrder(Names, x.todo, w.held \cup {h})
    <3>1. w.todo \in Seq(MoneyRows) /\ InOrder(Names, w.todo, w.held)
      BY <1>8 DEF Closing
    <3> QED
      BY <3>1, <1>3
  <2>2. Matched(w) /\ x.held = w.held \cup {h}
    BY <1>8 DEF Closing, Matched
  <2>3. Closing(x)
    BY <1>8, <2>1, <2>2 DEF Closing
  <2> QED
    BY <2>3 DEF Shape
<1>9. CASE Serving(w)
  <2>1. h = ExpertRow(w.expert) /\ x.todo = <<>>
    BY <1>9, RowsLeft DEF Serving
  <2>2. \A t \in Tasks : TaskRow(t) # h
    BY <2>1, TaskApart
  <2>3. Serving(x)
    BY <1>9, <2>1, <2>2 DEF Serving
  <2> QED
    BY <2>3 DEF Shape
<1>10. CASE Superseding(w)
  <2>1. h = RubricRow /\ x.todo = <<>> /\ w.held = {}
    BY <1>10, RowsLeft DEF Superseding, FirstRow
  <2>2. Matched(w) /\ x.held = w.held \cup {h}
    BY <1>10, <2>1, RowKeys DEF Superseding, Matched
  <2>3. Superseding(x)
    BY <1>10, <2>1, <2>2 DEF Superseding, FirstRow
  <2> QED
    BY <2>3 DEF Shape
<1>11. CASE GivingUp(w) \/ Loading(w) \/ Opening(w)
  <2>1. Matched(w) /\ x.held = w.held \cup {h}
    BY <1>11 DEF GivingUp, Loading, Opening, Matched
  <2>2. ASSUME NEW row, FirstRow(w, row) PROVE FirstRow(x, row)
    BY <1>1, <2>1, <2>2 DEF FirstRow
  <2>3. CASE GivingUp(w)
    BY <2>2, <2>3 DEF GivingUp, Shape
  <2>4. CASE Loading(w)
    BY <2>2, <2>4 DEF Loading, Shape
  <2>5. CASE Opening(w)
    BY <2>2, <2>5 DEF Opening, Shape
  <2> QED
    BY <1>11, <2>3, <2>4, <2>5
<1>12. CASE Grading(w)
  <2>1. Matched(w) /\ x.held = w.held \cup {h}
    BY <1>12 DEF Grading, Matched
  <2>2. Grading(x)
    BY <1>12, <1>1, <1>2, <2>1 DEF Grading
  <2> QED
    BY <2>2 DEF Shape
<1>13. CASE Deciding(w)
  <2>1. Matched(w) /\ x.held = w.held \cup {h}
    BY <1>13 DEF Deciding, Matched
  <2>2. Deciding(x)
    BY <1>13, <1>1, <1>2, <2>1 DEF Deciding
  <2> QED
    BY <2>2 DEF Shape
<1>14. CASE Judging(w)
  <2>1. Matched(w) /\ x.held = w.held \cup {h}
    BY <1>14 DEF Judging, Matched
  <2>2. Judging(x)
    BY <1>14, <1>1, <1>2, <2>1 DEF Judging, GradesOf
  <2> QED
    BY <2>2 DEF Shape
<1>15. CASE Resolving(w)
  <2>1. Matched(w) /\ x.held = w.held \cup {h}
    BY <1>15 DEF Resolving, Matched
  <2>2. ASSUME w.todo = <<TaskRow(w.task)>>, w.held = {RoundRow(w.task)}
        PROVE  Resolving(x)
    <3>1. x.todo = <<>> /\ x.held = {RoundRow(w.task), TaskRow(w.task)}
      BY <1>1, <2>1, <2>2
    <3>2. /\ TaskRow(w.task) \in x.held /\ RoundRow(w.task) \in x.held
          /\ x.held \subseteq {RoundRow(w.task), TaskRow(w.task)}
                              \cup GradesOf(w.task) \cup ExpertRows
      BY <3>1
    <3>3. /\ x.kind = "resolve" /\ x.at \in Nat /\ x.at >= 2 /\ x.task \in Tasks
          /\ round[x.task] = "adjudicating" /\ x.task = w.task
      BY <1>15 DEF Resolving
    <3> QED
      BY <3>1, <3>2, <3>3 DEF Resolving
  <2>3. ASSUME TaskRow(w.task) \in w.held,
               w.held \subseteq {RoundRow(w.task), TaskRow(w.task)}
                                \cup GradesOf(w.task) \cup ExpertRows,
               NEW e \in Experts,
               w.todo \in {<<GradeRow(w.task, e)>>, <<GradeRow(w.task, e), ExpertRow(e)>>,
                           <<ExpertRow(e)>>}
        PROVE  Resolving(x)
    <3>1. (h = GradeRow(w.task, e) \/ h = ExpertRow(e)) /\ x.todo \in {<<>>, <<ExpertRow(e)>>}
      BY <1>1, <1>2, <2>3
    <3>2. h \in GradesOf(w.task) \cup ExpertRows
      BY <3>1 DEF GradesOf, ExpertRows
    <3>3. /\ TaskRow(w.task) \in x.held /\ RoundRow(w.task) \in x.held
          /\ x.held \subseteq {RoundRow(w.task), TaskRow(w.task)}
                              \cup GradesOf(w.task) \cup ExpertRows
      BY <1>15, <2>1, <2>3, <3>2 DEF Resolving
    <3> QED
      BY <1>15, <3>1, <3>3 DEF Resolving
  <2>4. Resolving(x)
    <3>1. \/ w.todo = <<TaskRow(w.task)>> /\ w.held = {RoundRow(w.task)}
          \/ /\ TaskRow(w.task) \in w.held
             /\ w.held \subseteq {RoundRow(w.task), TaskRow(w.task)}
                                 \cup GradesOf(w.task) \cup ExpertRows
             /\ \E e \in Experts :
                  w.todo \in {<<GradeRow(w.task, e)>>, <<GradeRow(w.task, e), ExpertRow(e)>>,
                              <<ExpertRow(e)>>}
      BY <1>15 DEF Resolving
    <3> QED
      BY <2>2, <2>3, <3>1
  <2> QED
    BY <2>4 DEF Shape
<1>16. CASE Reinstating(w)
  <2>1. Matched(w) /\ x.held = w.held \cup {h}
    BY <1>16 DEF Reinstating, Matched
  <2>2. Reinstating(x)
    BY <1>16, <1>1, <1>2, <2>1 DEF Reinstating
  <2> QED
    BY <2>2 DEF Shape
<1> QED
  BY <1>4, <1>5, <1>6, <1>7, <1>8, <1>9, <1>10, <1>11, <1>12, <1>13, <1>14, <1>15, <1>16 DEF Shape

\* The next row of a statement is locked.
LEMMA LockKeeps ==
  ASSUME IInv, NEW s \in Sessions, Lock(s)
  PROVE  IInv'
<1>1. TypeOK /\ LockedOnce /\ Shape(tx[s])
  BY DEF IInv
<1>2. PICK w : w = tx[s]
  OBVIOUS
<1>3. w \in Transactions /\ Shape(w) /\ w.todo # <<>>
  BY <1>1, <1>2 DEF TypeOK, Lock
<1>4. Matched(w) <=> StillMatches(s, Head(w.todo))
  BY <1>2 DEF Matched, StillMatches
<1>5. PICK x : x = [w EXCEPT !.todo = Tail(@),
                             !.held = IF Matched(w) THEN @ \cup {Head(w.todo)} ELSE @]
  OBVIOUS
<1>6. tx' = [tx EXCEPT ![s] = x] /\ UNCHANGED rows
  BY <1>1, <1>2, <1>4, <1>5 DEF Lock, TypeOK, Transactions
<1>7. /\ x.kind = w.kind /\ x.task = w.task /\ x.expert = w.expert /\ x.at = w.at
      /\ x.pick = w.pick /\ x.todo = Tail(w.todo)
      /\ x.held = IF Matched(w) THEN w.held \cup {Head(w.todo)} ELSE w.held
  BY <1>3, <1>5 DEF Transactions
<1>8. Head(w.todo) \in Rows /\ Tail(w.todo) \in Seq(Rows)
  BY <1>3, HeadTailProperties DEF Transactions
<1>9. x \in Transactions
  BY <1>3, <1>5, <1>8 DEF Transactions
<1>10. Shape(x)
  BY <1>3, <1>7, <1>9, LockShape
<1>11. \A o \in Sessions : o # s => x.held \cap tx[o].held = {}
  <2>1. \A o \in Sessions : o # s => Head(w.todo) \notin tx[o].held
    BY <1>2, <1>3 DEF Lock, Waits
  <2> QED
    BY <1>1, <1>2, <1>7, <2>1 DEF LockedOnce
<1> QED
  BY <1>6, <1>9, <1>10, <1>11, StatementKeeps

-----------------------------------------------------------------------------
(* A statement has its rows, and the next one begins.                      *)

\* The statement that a transaction has reached.
LEMMA StatementOf ==
  ASSUME NEW x, Shape(x)
  PROVE  /\ x.kind = "claim" /\ x.at = 1 => Reclaiming(x)
         /\ x.kind = "tick" /\ x.at = 1 => Reclaiming(x)
         /\ x.kind = "publish" /\ x.at = 1 => Superseding(x)
         /\ x.kind \in {"submit", "release"} /\ x.at = 1 => GivingUp(x)
         /\ x.kind = "submit" /\ x.at = 2 => Grading(x)
         /\ x.kind \in {"approve", "reject"} /\ x.at = 1 => Loading(x)
         /\ x.kind \in {"approve", "reject"} /\ x.at = 2 => Deciding(x)
         /\ x.kind \in {"approve", "reject"} /\ x.at = 3 => Judging(x)
         /\ x.kind = "resolve" => Opening(x) \/ Resolving(x)
<1>1. /\ x = Closed \/ Reinstating(x) \/ Closing(x) =>
           x.kind \in {"none", "set_status", "close"}
      /\ Opening(x) \/ Resolving(x) => x.kind = "resolve"
  BY DEF Closed, Reinstating, Closing, Opening, Resolving
<1>2. /\ Reclaiming(x) => x.kind \in {"sweep", "claim", "tick"} /\ x.at = 1
      /\ Serving(x) => x.kind = "claim" /\ x.at # 1
      /\ Scoring(x) => x.kind = "tick" /\ x.at # 1
  BY DEF Reclaiming, Serving, Scoring
<1>3. /\ Superseding(x) => x.kind = "publish" /\ x.at = 1
      /\ Moving(x) => x.kind = "publish" /\ x.at # 1
  BY DEF Superseding, Moving
<1>4. /\ GivingUp(x) => x.kind \in {"submit", "release"} /\ x.at = 1
      /\ Grading(x) => x.kind = "submit" /\ x.at = 2
  BY DEF GivingUp, Grading
<1>5. /\ Loading(x) => x.kind \in {"approve", "reject"} /\ x.at = 1
      /\ Deciding(x) => x.kind \in {"approve", "reject"} /\ x.at = 2
      /\ Judging(x) => x.kind \in {"approve", "reject"} /\ x.at = 3
  BY DEF Loading, Deciding, Judging
<1> QED
  BY <1>1, <1>2, <1>3, <1>4, <1>5 DEF Shape

\* x is w at its next statement.
Proceeded(x, w, todo, pick) ==
  /\ x.kind = w.kind /\ x.task = w.task /\ x.expert = w.expert /\ x.at = w.at + 1
  /\ x.todo = todo /\ x.held = w.held /\ x.pick = pick

\* The next statement begins: the rows that are held stay.
LEMMA ProceedKeeps ==
  ASSUME IInv, NEW s \in Sessions, NEW todo \in Seq(Rows), NEW pick \in Experts \cup {NoExpert},
         Proceed(s, todo, pick), \A x : Proceeded(x, tx[s], todo, pick) => Shape(x)
  PROVE  IInv'
<1>1. tx \in [Sessions -> Transactions] /\ LockedOnce
  BY DEF IInv, TypeOK
<1>2. PICK x : x = [tx[s] EXCEPT !.at = @ + 1, !.todo = todo, !.pick = pick]
  OBVIOUS
<1>3. tx' = [tx EXCEPT ![s] = x] /\ UNCHANGED rows
  BY <1>1, <1>2 DEF Proceed, Transactions
<1>4. x \in Transactions /\ Proceeded(x, tx[s], todo, pick)
  <2>1. tx[s] \in Transactions
    BY <1>1
  <2>2. PICK w \in Transactions : w = tx[s]
    BY <2>1
  <2>3. w.at + 1 \in Nat
    BY DEF Transactions
  <2>4. x = [w EXCEPT !.at = w.at + 1, !.todo = todo, !.pick = pick]
    BY <1>2, <2>2
  <2>5. x \in Transactions
    BY <2>3, <2>4 DEF Transactions
  <2>6. Proceeded(x, w, todo, pick)
    BY <2>4 DEF Transactions, Proceeded
  <2> QED
    BY <2>2, <2>5, <2>6
<1>5. Shape(x)
  BY <1>4
<1>6. \A o \in Sessions : o # s => x.held \cap tx[o].held = {}
  BY <1>1, <1>4 DEF LockedOnce, Proceeded
<1> QED
  BY <1>3, <1>4, <1>5, <1>6, StatementKeeps

\* What the rows say is typed.
LEMMA Typed ==
  ASSUME IInv
  PROVE  /\ \A s \in Sessions : tx[s] \in Transactions /\ Shape(tx[s]) /\ tx[s].at \in Nat
         /\ \A t \in Tasks : /\ graded[t] \in Seq(Experts) /\ Len(graded[t]) \in Nat
                             /\ Graders(t) \subseteq Experts
         /\ \A t \in Tasks : \A k \in DOMAIN graded[t] :
              k \in Nat /\ k >= 1 /\ graded[t][k] \in Experts
<1>1. /\ \A s \in Sessions : tx[s] \in Transactions /\ Shape(tx[s])
      /\ \A t \in Tasks : graded[t] \in Seq(Experts)
  BY DEF IInv, TypeOK
<1>2. \A s \in Sessions : tx[s].at \in Nat
  BY <1>1 DEF Transactions
<1>3. ASSUME NEW t \in Tasks
      PROVE  /\ Len(graded[t]) \in Nat
             /\ \A k \in DOMAIN graded[t] : k \in Nat /\ k >= 1 /\ graded[t][k] \in Experts
  <2>1. PICK seq : seq = graded[t]
    OBVIOUS
  <2>2. seq \in Seq(Experts)
    BY <1>1, <2>1
  <2> QED
    BY <2>1, <2>2
<1>4. \A t \in Tasks : Graders(t) \subseteq Experts
  BY <1>3 DEF Graders, ToSet
<1> QED
  BY <1>1, <1>2, <1>3, <1>4

\* The claim locks a task that is queued, or that it has just reclaimed.
LEMMA PickTaskKeeps ==
  ASSUME IInv, NEW s \in Sessions, NEW t \in Tasks, PickTask(s, t)
  PROVE  IInv'
<1>1. PICK w : w = tx[s]
  OBVIOUS
<1>2. /\ w \in Transactions /\ Reclaiming(w) /\ w.kind = "claim" /\ w.todo = <<>>
      /\ LockedOnce
  BY <1>1, Typed, StatementOf DEF PickTask, Ready, IInv
<1>3. PICK x : x = [w EXCEPT !.at = 2, !.task = t, !.held = @ \cup {TaskRow(t)},
                             !.todo = <<ExpertRow(w.expert)>>]
  OBVIOUS
<1>4. w.expert \in Experts /\ w.held \subseteq TaskRows
  BY <1>2 DEF Reclaiming
<1>5. /\ TaskRow(t) \in Rows /\ TaskRow(t) \in TaskRows
      /\ <<ExpertRow(w.expert)>> \in Seq(Rows)
  BY <1>4, RowsOfTables
<1>6. x \in Transactions
  BY <1>2, <1>3, <1>5 DEF Transactions
<1>7. /\ x.kind = "claim" /\ x.at = 2 /\ x.task = t /\ x.expert = w.expert
      /\ x.todo = <<ExpertRow(w.expert)>> /\ x.held = w.held \cup {TaskRow(t)}
  BY <1>2, <1>3 DEF Transactions
<1>8. tx' = [tx EXCEPT ![s] = x] /\ UNCHANGED rows
  BY <1>1, <1>3, Typed DEF PickTask, IInv, TypeOK, Transactions
<1>9. Shape(x)
  <2>1. status[t] = "queued" \/ TaskRow(t) \in w.held
    BY <1>1 DEF PickTask
  <2>2. ASSUME NEW u \in Tasks, TaskRow(u) \in x.held PROVE status[u] \in {"queued", "due"}
    <3>1. TaskRow(u) \in w.held \/ u = t
      BY <1>7, <2>2, TaskApart
    <3> QED
      BY <1>2, <2>1, <3>1 DEF Reclaiming
  <2>3. Serving(x)
    BY <1>4, <1>5, <1>7, <2>2 DEF Serving
  <2> QED
    BY <2>3 DEF Shape
<1>10. \A o \in Sessions : o # s => x.held \cap tx[o].held = {}
  <2>1. \A o \in Sessions : o # s => TaskRow(t) \notin tx[o].held
    BY DEF PickTask
  <2> QED
    BY <1>1, <1>2, <1>7, <2>1 DEF LockedOnce
<1> QED
  BY <1>6, <1>8, <1>9, <1>10, StatementKeeps

\* The tick has done with the tasks, and turns to the scores.
LEMMA ScoreExpertsKeeps ==
  ASSUME IInv, NEW s \in Sessions, ScoreExperts(s)
  PROVE  IInv'
<1>1. PICK w : w = tx[s]
  OBVIOUS
<1>2. Reclaiming(w) /\ w.kind = "tick" /\ w.todo = <<>>
  BY <1>1, Typed, StatementOf DEF ScoreExperts, Ready
<1>3. PICK todo \in ScoredExperts : Proceed(s, todo, NoExpert)
  BY DEF ScoreExperts
<1>4. todo \in Seq(ExpertRows) /\ InOrder(Names, todo, {})
  BY ScoredInOrder
<1>5. todo \in Seq(Rows)
  BY <1>4, RowsOfTables, SeqMonotonic
<1>6. ASSUME NEW x, Proceeded(x, w, todo, NoExpert) PROVE Shape(x)
  <2>1. x.held \subseteq TaskRows /\ x.held \cap ExpertRows = {}
    BY <1>2, <1>6, TaskApart DEF Proceeded, Reclaiming, TaskRows
  <2>2. InOrder(Names, x.todo, x.held \cap ExpertRows)
    BY <1>4, <1>6, <2>1 DEF Proceeded
  <2>3. x.kind = "tick" /\ x.at = 2 /\ x.task = NoTask /\ x.todo \in Seq(ExpertRows)
    BY <1>2, <1>4, <1>6 DEF Proceeded, Reclaiming
  <2>4. \A t \in Tasks : TaskRow(t) \in x.held => status[t] = "due"
    BY <1>2, <1>6 DEF Proceeded, Reclaiming
  <2>5. Scoring(x)
    BY <2>1, <2>2, <2>3, <2>4 DEF Scoring
  <2> QED
    BY <2>5 DEF Shape
<1> QED
  BY <1>1, <1>3, <1>5, <1>6, ProceedKeeps

\* The grade is inserted.
LEMMA GradeKeeps ==
  ASSUME IInv, NEW s \in Sessions, Grade(s)
  PROVE  IInv'
<1>1. PICK w : w = tx[s]
  OBVIOUS
<1>2. GivingUp(w) /\ w.kind = "submit" /\ w.at = 1 /\ w.todo = <<>>
  BY <1>1, Typed, StatementOf DEF Grade, Ready
<1>3. /\ w.task \in Tasks /\ w.expert \in Experts /\ w.held = {TaskRow(w.task)}
      /\ status[w.task] \in {"assigned", "due"}
  BY <1>1, <1>2, FewRows DEF GivingUp, FirstRow, Grade, Holds
<1>4. ASSUME NEW pick \in Experts \cup {NoExpert}, NEW todo, Proceed(s, todo, pick),
             pick # NoExpert => Several(w.task),
             \/ todo \in {<<>>, <<ExpertRow(w.expert)>>,
                          <<ExpertRow(w.expert), PayoutRows(w.expert)>>}
             \/ todo = <<GradeRow(w.task, pick)>> /\ Several(w.task) /\ pick \in Experts
      PROVE  IInv'
  <2>1. todo \in Seq(Rows)
    <3>1. ExpertRow(w.expert) \in Rows /\ PayoutRows(w.expert) \in Rows
      BY <1>3, RowsOfTables
    <3>2. pick \in Experts => GradeRow(w.task, pick) \in Rows
      BY <1>3, RowsOfTables
    <3>3. /\ <<>> \in Seq(Rows) /\ <<ExpertRow(w.expert)>> \in Seq(Rows)
          /\ <<ExpertRow(w.expert), PayoutRows(w.expert)>> \in Seq(Rows)
      BY <3>1
    <3>4. pick \in Experts => <<GradeRow(w.task, pick)>> \in Seq(Rows)
      BY <3>2
    <3> QED
      BY <1>4, <3>3, <3>4
  <2>2. ASSUME NEW x, Proceeded(x, w, todo, pick) PROVE Shape(x)
    <3>1. Grading(x)
      BY <1>2, <1>3, <1>4, <2>2 DEF Proceeded, Grading
    <3> QED
      BY <3>1 DEF Shape
  <2> QED
    BY <1>1, <1>4, <2>1, <2>2, ProceedKeeps
<1>5. CASE \E todo \in {<<>>, <<ExpertRow(w.expert)>>,
                        <<ExpertRow(w.expert), PayoutRows(w.expert)>>} :
             Proceed(s, todo, NoExpert)
  BY <1>4, <1>5
<1>6. CASE /\ w.task \notin Golden /\ Required[w.task] >= 2
           /\ \E pick \in Graders(w.task) \cup {w.expert} :
                Proceed(s, IF pick = w.expert THEN <<>> ELSE <<GradeRow(w.task, pick)>>, pick)
  <2>1. PICK pick \in Graders(w.task) \cup {w.expert} :
          Proceed(s, IF pick = w.expert THEN <<>> ELSE <<GradeRow(w.task, pick)>>, pick)
    BY <1>6
  <2>2. pick \in Experts /\ Several(w.task)
    BY <1>3, <1>6, Typed DEF Several
  <2> QED
    BY <1>4, <2>1, <2>2
<1> QED
  BY <1>1, <1>5, <1>6 DEF Grade

\* A review gets as far as the task only when its round is settled.
LEMMA ReviewTaskKeeps ==
  ASSUME IInv, NEW s \in Sessions, ReviewTask(s)
  PROVE  IInv'
<1>1. PICK w : w = tx[s]
  OBVIOUS
<1>2. Loading(w) /\ w.at = 1 /\ w.todo = <<>>
  BY <1>1, Typed, StatementOf DEF ReviewTask, Ready
<1>3. /\ w.task \in Tasks /\ w.expert \in Experts /\ w.kind \in {"approve", "reject"}
      /\ w.held = {GradeRow(w.task, w.expert)}
  BY <1>2, FewRows DEF Loading, FirstRow
<1>4. Settled(w.task)
  <2>1. /\ Life(w.task) /\ ~ConsensusPending(w.task)
        /\ Required[w.task] \in Nat /\ Len(graded[w.task]) \in Nat
    BY <1>1, <1>3, Typed, Parameters DEF IInv, ReviewTask
  <2> QED
    BY <2>1 DEF Life, ConsensusPending, Several, Settled
<1>5. PICK todo \in {<<TaskRow(w.task)>>, <<TaskRow(w.task), RoundRow(w.task)>>} :
        Proceed(s, todo, NoExpert)
  <2>1. PICK rounds \in {<<>>, <<RoundRow(w.task)>>} :
          Proceed(s, <<TaskRow(w.task)>> \o rounds, NoExpert)
    BY <1>1 DEF ReviewTask
  <2>2. /\ <<TaskRow(w.task)>> \o <<>> = <<TaskRow(w.task)>>
        /\ <<TaskRow(w.task)>> \o <<RoundRow(w.task)>> = <<TaskRow(w.task), RoundRow(w.task)>>
    BY FewRows
  <2> QED
    BY <2>1, <2>2
<1>6. todo \in Seq(Rows)
  <2>1. TaskRow(w.task) \in Rows /\ RoundRow(w.task) \in Rows
    BY <1>3, RowsOfTables
  <2>2. <<TaskRow(w.task)>> \in Seq(Rows) /\ <<TaskRow(w.task), RoundRow(w.task)>> \in Seq(Rows)
    BY <2>1
  <2> QED
    BY <2>2
<1>7. ASSUME NEW x, Proceeded(x, w, todo, NoExpert) PROVE Shape(x)
  <2>1. Deciding(x)
    BY <1>2, <1>3, <1>4, <1>5, <1>7 DEF Proceeded, Deciding
  <2> QED
    BY <2>1 DEF Shape
<1> QED
  BY <1>1, <1>5, <1>6, <1>7, ProceedKeeps

\* The delivery is picked again, and the score written.
LEMMA ReviewExpertKeeps ==
  ASSUME IInv, NEW s \in Sessions, ReviewExpert(s)
  PROVE  IInv'
<1>1. PICK w : w = tx[s]
  OBVIOUS
<1>2. Deciding(w) /\ w.at = 2 /\ w.todo = <<>>
  BY <1>1, Typed, StatementOf DEF ReviewExpert, Ready
<1>3. /\ w.task \in Tasks /\ w.expert \in Experts /\ w.kind \in {"approve", "reject"}
      /\ Settled(w.task) /\ TaskRow(w.task) \in w.held
      /\ w.held \subseteq {GradeRow(w.task, w.expert), TaskRow(w.task), RoundRow(w.task)}
  BY <1>2, FewRows DEF Deciding
<1>4. GradeRow(w.task, w.expert) \in GradesOf(w.task)
  BY <1>3 DEF GradesOf
<1>5. CASE \E todo \in {<<>>, <<ExpertRow(w.expert)>>} : Proceed(s, todo, NoExpert)
  <2>1. PICK todo \in {<<>>, <<ExpertRow(w.expert)>>} : Proceed(s, todo, NoExpert)
    BY <1>5
  <2>2. todo \in Seq(Rows)
    <3>1. ExpertRow(w.expert) \in Rows
      BY <1>3, RowsOfTables
    <3>2. <<>> \in Seq(Rows) /\ <<ExpertRow(w.expert)>> \in Seq(Rows)
      BY <3>1
    <3> QED
      BY <2>1, <3>2
  <2>3. ASSUME NEW x, Proceeded(x, w, todo, NoExpert) PROVE Shape(x)
    <3>1. Judging(x)
      BY <1>2, <1>3, <1>4, <2>1, <2>3 DEF Proceeded, Judging
    <3> QED
      BY <3>1 DEF Shape
  <2> QED
    BY <1>1, <2>1, <2>2, <2>3, ProceedKeeps
<1>6. CASE /\ w.kind = "reject"
           /\ \E pick \in Experts :
                \E todo \in {<<GradeRow(w.task, pick)>>,
                             <<GradeRow(w.task, pick), ExpertRow(w.expert)>>} :
                  Proceed(s, todo, pick)
  <2>1. PICK pick \in Experts :
               \E todo \in {<<GradeRow(w.task, pick)>>,
                            <<GradeRow(w.task, pick), ExpertRow(w.expert)>>} :
                 Proceed(s, todo, pick)
    BY <1>6
  <2>2. PICK todo \in {<<GradeRow(w.task, pick)>>,
                       <<GradeRow(w.task, pick), ExpertRow(w.expert)>>} : Proceed(s, todo, pick)
    BY <2>1
  <2>3. todo \in Seq(Rows)
    <3>1. ExpertRow(w.expert) \in Rows /\ GradeRow(w.task, pick) \in Rows
      BY <1>3, RowsOfTables
    <3>2. /\ <<GradeRow(w.task, pick)>> \in Seq(Rows)
          /\ <<GradeRow(w.task, pick), ExpertRow(w.expert)>> \in Seq(Rows)
      BY <3>1
    <3> QED
      BY <2>2, <3>2
  <2>4. ASSUME NEW x, Proceeded(x, w, todo, pick) PROVE Shape(x)
    <3>1. Judging(x)
      BY <1>2, <1>3, <1>6, <2>2, <2>4 DEF Proceeded, Judging
    <3> QED
      BY <3>1 DEF Shape
  <2> QED
    BY <1>1, <2>2, <2>3, <2>4, ProceedKeeps
<1>7. Candidates(w.task, w.expert) \subseteq Experts
  BY <1>3, Typed DEF Candidates
<1>8. PICK score \in {<<>>, <<ExpertRow(w.expert)>>} :
        \/ /\ w.kind = "reject"
           /\ \E pick \in Candidates(w.task, w.expert) :
                Proceed(s, <<GradeRow(w.task, pick)>> \o score, pick)
        \/ Proceed(s, score, NoExpert)
  BY <1>1 DEF ReviewExpert, Perhaps
<1>9. CASE /\ w.kind = "reject"
           /\ \E pick \in Candidates(w.task, w.expert) :
                Proceed(s, <<GradeRow(w.task, pick)>> \o score, pick)
  <2>1. PICK pick \in Experts : Proceed(s, <<GradeRow(w.task, pick)>> \o score, pick)
    BY <1>7, <1>9
  <2>2. <<GradeRow(w.task, pick)>> \o score \in
          {<<GradeRow(w.task, pick)>>, <<GradeRow(w.task, pick), ExpertRow(w.expert)>>}
    BY <1>8, FewRows
  <2> QED
    BY <1>6, <1>9, <2>1, <2>2
<1> QED
  BY <1>5, <1>8, <1>9

\* The adjudicator turns from the round to the task,
LEMMA ResolveTaskKeeps ==
  ASSUME IInv, NEW s \in Sessions, ResolveTask(s)
  PROVE  IInv'
<1>1. PICK w : w = tx[s]
  OBVIOUS
<1>2. Opening(w) /\ w.at = 1 /\ w.todo = <<>>
  BY <1>1, Typed, StatementOf DEF ResolveTask, Ready, Resolving
<1>3. /\ w.task \in Tasks /\ w.kind = "resolve" /\ w.held = {RoundRow(w.task)}
      /\ round[w.task] = "adjudicating"
  BY <1>1, <1>2, FewRows DEF Opening, FirstRow, ResolveTask
<1>4. PICK pick \in Experts : Proceed(s, <<TaskRow(w.task)>>, pick)
  BY <1>1, <1>3, Typed DEF ResolveTask
<1>5. <<TaskRow(w.task)>> \in Seq(Rows)
  BY <1>3, RowsOfTables
<1>6. ASSUME NEW x, Proceeded(x, w, <<TaskRow(w.task)>>, pick) PROVE Shape(x)
  <2>1. Resolving(x)
    BY <1>2, <1>3, <1>6 DEF Proceeded, Resolving
  <2> QED
    BY <2>1 DEF Shape
<1> QED
  BY <1>1, <1>4, <1>5, <1>6, ProceedKeeps

\* and then to each grade and its author.
LEMMA ResolveGradeKeeps ==
  ASSUME IInv, NEW s \in Sessions, ResolveGrade(s)
  PROVE  IInv'
<1>1. PICK w : w = tx[s]
  OBVIOUS
<1>2. PICK k : k = w.at - 1
  OBVIOUS
<1>3. /\ w.kind = "resolve" /\ w.todo = <<>> /\ k \in DOMAIN graded[w.task]
      /\ \E score \in Perhaps(<<ExpertRow(graded[w.task][k])>>) :
           Proceed(s, <<GradeRow(w.task, graded[w.task][k])>> \o score, w.pick)
  BY <1>1, <1>2 DEF ResolveGrade, Ready
<1>4. Resolving(w) \/ Opening(w)
  BY <1>1, <1>3, Typed, StatementOf
<1>5. w.task \in Tasks /\ w.at \in Nat
  BY <1>1, <1>4, Typed DEF Resolving, Opening
<1>6. k \in Nat /\ k >= 1 /\ graded[w.task][k] \in Experts
  BY <1>3, <1>5, Typed
<1>7. Resolving(w) /\ w.at >= 2
  BY <1>2, <1>4, <1>5, <1>6 DEF Opening
<1>8. PICK e \in Experts : e = graded[w.task][k]
  BY <1>6
<1>9. PICK todo \in {<<GradeRow(w.task, e)>>, <<GradeRow(w.task, e), ExpertRow(e)>>} :
        Proceed(s, todo, w.pick)
  <2>1. PICK score \in {<<>>, <<ExpertRow(e)>>} :
          Proceed(s, <<GradeRow(w.task, e)>> \o score, w.pick)
    BY <1>3, <1>8 DEF Perhaps
  <2>2. <<GradeRow(w.task, e)>> \o score \in
          {<<GradeRow(w.task, e)>>, <<GradeRow(w.task, e), ExpertRow(e)>>}
    BY <2>1, FewRows
  <2> QED
    BY <2>1, <2>2
<1>10. todo \in Seq(Rows) /\ w.pick \in Experts \cup {NoExpert}
  <2>1. ExpertRow(e) \in Rows /\ GradeRow(w.task, e) \in Rows
    BY <1>5, RowsOfTables
  <2>2. /\ <<GradeRow(w.task, e)>> \in Seq(Rows)
        /\ <<GradeRow(w.task, e), ExpertRow(e)>> \in Seq(Rows)
    BY <2>1
  <2>3. w.pick \in Experts \cup {NoExpert}
    BY <1>1, Typed DEF Transactions
  <2> QED
    BY <1>9, <2>2, <2>3
<1>11. /\ RoundRow(w.task) \in w.held /\ TaskRow(w.task) \in w.held
       /\ round[w.task] = "adjudicating"
       /\ w.held \subseteq {RoundRow(w.task), TaskRow(w.task)}
                           \cup GradesOf(w.task) \cup ExpertRows
  BY <1>3, <1>7, FewRows DEF Resolving
<1>12. ASSUME NEW x, Proceeded(x, w, todo, w.pick) PROVE Shape(x)
  <2>1. Resolving(x)
    BY <1>3, <1>5, <1>7, <1>9, <1>11, <1>12 DEF Proceeded, Resolving
  <2> QED
    BY <2>1 DEF Shape
<1> QED
  BY <1>1, <1>9, <1>10, <1>12, ProceedKeeps

\* A publication moves tasks that are queued.
LEMMA MoveQueueKeeps ==
  ASSUME IInv, NEW s \in Sessions, MoveQueue(s)
  PROVE  IInv'
<1>1. PICK w : w = tx[s]
  OBVIOUS
<1>2. Superseding(w) /\ w.kind = "publish" /\ w.at = 1 /\ w.todo = <<>>
  BY <1>1, Typed, StatementOf DEF MoveQueue, Ready
<1>3. w.held = {RubricRow}
  BY <1>2, FewRows DEF Superseding, FirstRow
<1>4. PICK Q \in SUBSET {u \in Tasks : status[u] = "queued" /\ Untouched(u)} :
         \E todo \in SetToSeqs({TaskRow(t) : t \in Q}) : Proceed(s, todo, NoExpert)
  BY DEF MoveQueue
<1> DEFINE S == {TaskRow(t) : t \in Q}
<1>5. PICK todo \in SetToSeqs(S) : Proceed(s, todo, NoExpert)
  BY <1>4
<1>6. S \subseteq TaskRows /\ Cardinality(S) \in Nat
  <2>1. IsFiniteSet(Q)
    BY Places, FS_Subset
  <2>2. IsFiniteSet(S)
    <3> DEFINE row == [t \in Q |-> TaskRow(t)]
    <3>1. S = {row[t] : t \in Q}
      OBVIOUS
    <3> HIDE DEF S, row
    <3>2. IsFiniteSet({row[t] : t \in Q})
      BY <2>1, FiniteImage
    <3> QED
      BY <3>1, <3>2
  <2>3. S \subseteq TaskRows
    BY DEF TaskRows
  <2> HIDE DEF S
  <2> QED
    BY <2>2, <2>3, FS_CardinalityType
<1>7. todo \in [1 .. Cardinality(S) -> S]
  BY <1>5 DEF SetToSeqs
<1>8. ASSUME NEW t \in Tasks, TaskRow(t) \in ToSet(todo) PROVE status[t] # "due"
  <2>1. TaskRow(t) \in S
    <3>1. PICK i \in DOMAIN todo : todo[i] = TaskRow(t)
      BY <1>8 DEF ToSet
    <3>2. DOMAIN todo = 1 .. Cardinality(S) /\ \A j \in 1 .. Cardinality(S) : todo[j] \in S
      BY <1>7
    <3> HIDE DEF S
    <3> QED
      BY <3>1, <3>2
  <2>2. PICK u \in Q : TaskRow(t) = TaskRow(u)
    BY <2>1
  <2>3. u = t
    BY <2>2, TaskApart
  <2> QED
    BY <2>2, <2>3
<1> HIDE DEF S
<1>9. todo \in Seq(TaskRows)
  <2>1. todo \in Seq(S)
    BY <1>6, <1>7, AsSequence
  <2> QED
    BY <1>6, <2>1, SeqMonotonic
<1>10. todo \in Seq(Rows)
  BY <1>9, RowsOfTables, SeqMonotonic
<1>11. ASSUME NEW x, Proceeded(x, w, todo, NoExpert) PROVE Shape(x)
  <2>1. \A t \in Tasks : TaskRow(t) \notin x.held
    BY <1>3, <1>11, TaskApart DEF Proceeded
  <2>2. Moving(x)
    BY <1>2, <1>3, <1>8, <1>9, <1>11, <2>1 DEF Proceeded, Moving
  <2> QED
    BY <2>2 DEF Shape
<1> QED
  BY <1>1, <1>5, <1>10, <1>11, ProceedKeeps

-----------------------------------------------------------------------------
(* The end of a transaction.                                               *)

\* The transaction gives a task that it has locked to an expert or to the queue, before the
\* last grade; or later, when the task has one grader.
Returned(s, t) ==
  /\ TaskRow(t) \in tx[s].held
  /\ status'[t] \in {"queued", "assigned"}
  /\ status[t] \in {"queued", "assigned", "due"} \/ ~Several(t)

\* A task with several graders that is returned is not settled, and has no open round.
LEMMA ReturnKeeps ==
  ASSUME IInv, NEW s \in Sessions, Free(s), round' = round, graded' = graded,
         status' \in [Tasks -> {"queued", "assigned", "due", "done", "adjudication"}],
         \A t \in Tasks : status'[t] = status[t] \/ Returned(s, t)
  PROVE  IInv'
<1>1. TypeOK /\ \A t \in Tasks : Life(t)
  BY DEF IInv
<1>2. ASSUME NEW t \in Tasks
      PROVE  /\ Life(t)'
             /\ Settled(t) => Settled(t)'
             /\ TaskRow(t) \notin tx[s].held => status'[t] = status[t]
             /\ status'[t] = "due" => status[t] = "due"
             /\ RoundRow(t) \notin tx[s].held /\ round[t] = "adjudicating" =>
                  round'[t] = "adjudicating"
  <2>1. CASE status'[t] = status[t]
    BY <1>1, <2>1 DEF Life, Settled
  <2>2. CASE Returned(s, t)
    <3>1. Life(t)'
      BY <1>1, <2>2 DEF Life, Returned
    <3>2. Settled(t) => Settled(t)'
      BY <2>2 DEF Settled, Returned
    <3> QED
      BY <2>2, <3>1, <3>2 DEF Returned
  <2> QED
    BY <2>1, <2>2
<1>3. /\ round' \in [Tasks -> {"none", "agreed", "adjudicating", "adjudicated"}]
      /\ graded' \in [Tasks -> Seq(Experts)]
  BY <1>1 DEF TypeOK
<1> QED
  BY <1>2, <1>3, EndKeeps

\* A sweep, a tick or a claim commits.
LEMMA CommitReclaimKeeps ==
  ASSUME IInv, NEW s \in Sessions, CommitReclaim(s)
  PROVE  IInv'
<1>1. PICK w : w = tx[s]
  OBVIOUS
<1>2. /\ \/ w.kind \in {"sweep", "claim"} /\ w.at = 1
         \/ w.kind \in {"claim", "tick"} /\ w.at = 2
      /\ Shape(w)
  <2>1. Ready(s, {"sweep"}, 1) \/ Ready(s, {"claim", "tick"}, 2) \/ Ready(s, {"claim"}, 1)
    BY DEF CommitReclaim
  <2> QED
    BY <1>1, <2>1, Typed DEF Ready
<1>3. Reclaiming(w) \/ Serving(w) \/ Scoring(w)
  BY <1>2 DEF Shape, Closed, Reclaiming, Serving, Scoring, Superseding, Moving, GivingUp,
              Grading, Loading, Deciding, Judging, Opening, Resolving, Reinstating, Closing
<1>4. \/ w.task = NoTask
      \/ TaskRow(w.task) \in w.held /\ w.task \in Tasks /\ status[w.task] \in {"queued", "due"}
  BY <1>3 DEF Reclaiming, Serving, Scoring
<1>5. /\ round' = round /\ graded' = graded /\ Free(s)
      /\ \A t \in Tasks : status'[t] = IF t = w.task THEN "assigned"
                                       ELSE IF t \in Reclaimed(s) THEN "queued" ELSE status[t]
      /\ status' \in [Tasks -> {"queued", "assigned", "due", "done", "adjudication"}]
  BY <1>1 DEF CommitReclaim, IInv, TypeOK
<1>6. ASSUME NEW t \in Tasks PROVE status'[t] = status[t] \/ Returned(s, t)
  <2>1. CASE t = w.task
    BY <1>1, <1>4, <1>5, <2>1, Parameters DEF Returned
  <2>2. CASE t # w.task /\ t \in Reclaimed(s)
    BY <1>5, <2>2 DEF Returned, Reclaimed
  <2> QED
    BY <1>5, <2>1, <2>2
<1> QED
  BY <1>5, <1>6, ReturnKeeps

\* A release commits.
LEMMA CommitReleaseKeeps ==
  ASSUME IInv, NEW s \in Sessions, CommitRelease(s)
  PROVE  IInv'
<1>1. PICK w : w = tx[s]
  OBVIOUS
<1>2. GivingUp(w) /\ w.todo = <<>>
  BY <1>1, Typed, StatementOf DEF CommitRelease, Ready
<1>3. w.task \in Tasks /\ TaskRow(w.task) \in w.held
  BY <1>2, FewRows DEF GivingUp, FirstRow
<1>4. /\ round' = round /\ graded' = graded /\ Free(s)
      /\ status[w.task] \in {"assigned", "due"}
      /\ status' = [status EXCEPT ![w.task] = "queued"]
  BY <1>1 DEF CommitRelease, Holds
<1>5. /\ status' \in [Tasks -> {"queued", "assigned", "due", "done", "adjudication"}]
      /\ status'[w.task] = "queued" /\ \A t \in Tasks : t # w.task => status'[t] = status[t]
  BY <1>3, <1>4 DEF IInv, TypeOK
<1>6. Returned(s, w.task)
  BY <1>1, <1>3, <1>4, <1>5 DEF Returned
<1> QED
  BY <1>4, <1>5, <1>6, ReturnKeeps

\* A review commits; it queues a task again when one grader was required.
LEMMA CommitReviewKeeps ==
  ASSUME IInv, NEW s \in Sessions, CommitReview(s)
  PROVE  IInv'
<1>1. PICK w : w = tx[s]
  OBVIOUS
<1>2. Judging(w)
  BY <1>1, Typed, StatementOf DEF CommitReview, Ready
<1>3. w.task \in Tasks /\ TaskRow(w.task) \in w.held
  BY <1>2 DEF Judging
<1>4. round' = round /\ graded' = graded /\ Free(s)
  BY DEF CommitReview
<1>5. /\ status' \in [Tasks -> {"queued", "assigned", "due", "done", "adjudication"}]
      /\ \A t \in Tasks : t # w.task => status'[t] = status[t]
      /\ \/ status' = status
         \/ status'[w.task] = "queued" /\ Required[w.task] = 1
  BY <1>1, <1>3 DEF CommitReview, IInv, TypeOK
<1>6. status'[w.task] = status[w.task] \/ Returned(s, w.task)
  BY <1>1, <1>3, <1>5 DEF Returned, Several
<1> QED
  BY <1>4, <1>5, <1>6, ReturnKeeps

\* A transaction is rolled back.
LEMMA AnyEndKeeps ==
  ASSUME IInv, NEW s \in Sessions, End(s)
  PROVE  IInv'
<1>1. round' = round /\ graded' = graded /\ status' = status /\ Free(s)
  BY DEF End, rows
<1>2. status' \in [Tasks -> {"queued", "assigned", "due", "done", "adjudication"}]
  BY <1>1 DEF IInv, TypeOK
<1> QED
  BY <1>1, <1>2, ReturnKeeps

\* A submission commits; its last grade settles the task or opens an adjudication.
LEMMA CommitSubmitKeeps ==
  ASSUME IInv, NEW s \in Sessions, CommitSubmit(s)
  PROVE  IInv'
<1>1. PICK w : w = tx[s]
  OBVIOUS
<1>2. Grading(w)
  BY <1>1, Typed, StatementOf DEF CommitSubmit, Ready
<1>3. PICK t \in Tasks : t = w.task
  BY <1>2 DEF Grading
<1>4. /\ TaskRow(t) \in tx[s].held /\ status[t] \in {"assigned", "due"} /\ w.expert \in Experts
      /\ TypeOK /\ \A u \in Tasks : Life(u)
      /\ graded[t] \in Seq(Experts) /\ Len(graded[t]) \in Nat /\ Required[t] \in Nat
  BY <1>1, <1>2, <1>3, Typed, Parameters DEF Grading, IInv
<1>5. graded' = [graded EXCEPT ![t] = Append(@, w.expert)] /\ Free(s)
  BY <1>1, <1>3 DEF CommitSubmit
<1>6. /\ graded' \in [Tasks -> Seq(Experts)] /\ Len(graded'[t]) = Len(graded[t]) + 1
      /\ \A u \in Tasks : u # t => graded'[u] = graded[u]
  <2>1. PICK seq \in Seq(Experts) : seq = graded[t]
    BY <1>4
  <2>2. Append(seq, w.expert) \in Seq(Experts) /\ Len(Append(seq, w.expert)) = Len(seq) + 1
    BY <1>4
  <2>3. graded' = [graded EXCEPT ![t] = Append(seq, w.expert)]
    BY <1>4, <1>5, <2>1 DEF TypeOK
  <2> QED
    BY <1>4, <2>1, <2>2, <2>3 DEF TypeOK
<1>7. round[t] # "adjudicating"
  BY <1>4 DEF Life
<1>8. \/ ~Completes(t) /\ status' = [status EXCEPT ![t] = "queued"] /\ round' = round
      \/ /\ Completes(t) /\ status' = [status EXCEPT ![t] = "done"]
         /\ \/ round' = round
            \/ round' = [round EXCEPT ![t] = "agreed"]
      \/ /\ Completes(t) /\ Required[t] >= 2
         /\ status' = [status EXCEPT ![t] = "adjudication"]
         /\ round' = [round EXCEPT ![t] = "adjudicating"]
  BY <1>1, <1>3, <1>4 DEF CommitSubmit, TypeOK
<1>9. /\ \A u \in Tasks : u # t => status'[u] = status[u] /\ round'[u] = round[u]
      /\ status' \in [Tasks -> {"queued", "assigned", "due", "done", "adjudication"}]
      /\ round' \in [Tasks -> {"none", "agreed", "adjudicating", "adjudicated"}]
  BY <1>4, <1>8 DEF TypeOK
<1>10. status'[t] # "due" /\ Life(t)'
  BY <1>4, <1>6, <1>7, <1>8 DEF TypeOK, Life, Several, Completes
<1>11. Settled(t) => Settled(t)'
  BY <1>4 DEF Settled
<1>12. ASSUME NEW u \in Tasks
       PROVE  /\ Life(u)'
              /\ Settled(u) => Settled(u)'
              /\ TaskRow(u) \notin tx[s].held => status'[u] = status[u]
              /\ status'[u] = "due" => status[u] = "due"
              /\ RoundRow(u) \notin tx[s].held /\ round[u] = "adjudicating" =>
                   round'[u] = "adjudicating"
  <2>1. CASE u = t
    BY <1>4, <1>7, <1>10, <1>11, <2>1
  <2>2. CASE u # t
    BY <1>4, <1>6, <1>9, <2>2 DEF Life, Settled
  <2> QED
    BY <2>1, <2>2
<1> QED
  BY <1>5, <1>6, <1>9, <1>12, EndKeeps

\* A resolution commits, and the round is closed.
LEMMA CommitResolveKeeps ==
  ASSUME IInv, NEW s \in Sessions, CommitResolve(s)
  PROVE  IInv'
<1>1. PICK w : w = tx[s]
  OBVIOUS
<1>2. Opening(w) \/ Resolving(w)
  BY <1>1, Typed, StatementOf DEF CommitResolve, Ready
<1>3. PICK t \in Tasks : t = w.task
  BY <1>2 DEF Opening, Resolving
<1>4. Resolving(w) /\ w.todo = <<>>
  BY <1>1, <1>2, <1>3, Typed DEF Opening, CommitResolve, Ready
<1>5. TaskRow(t) \in tx[s].held /\ RoundRow(t) \in tx[s].held
  BY <1>1, <1>3, <1>4, FewRows DEF Resolving
<1>6. /\ status' = [status EXCEPT ![t] = "done"] /\ round' = [round EXCEPT ![t] = "adjudicated"]
      /\ graded' = graded /\ Free(s)
  BY <1>1, <1>3 DEF CommitResolve
<1>7. TypeOK /\ \A u \in Tasks : Life(u)
  BY DEF IInv
<1>8. /\ status'[t] = "done" /\ round'[t] = "adjudicated"
      /\ \A u \in Tasks : u # t => status'[u] = status[u] /\ round'[u] = round[u]
      /\ status' \in [Tasks -> {"queued", "assigned", "due", "done", "adjudication"}]
      /\ round' \in [Tasks -> {"none", "agreed", "adjudicating", "adjudicated"}]
      /\ graded' \in [Tasks -> Seq(Experts)]
  BY <1>6, <1>7 DEF TypeOK
<1>9. ASSUME NEW u \in Tasks
      PROVE  /\ Life(u)'
             /\ Settled(u) => Settled(u)'
             /\ TaskRow(u) \notin tx[s].held => status'[u] = status[u]
             /\ status'[u] = "due" => status[u] = "due"
             /\ RoundRow(u) \notin tx[s].held /\ round[u] = "adjudicating" =>
                  round'[u] = "adjudicating"
  <2>1. CASE u = t
    BY <1>5, <1>8, <2>1 DEF Life, Settled
  <2>2. CASE u # t
    BY <1>6, <1>7, <1>8, <2>2 DEF Life, Settled
  <2> QED
    BY <2>1, <2>2
<1> QED
  BY <1>6, <1>8, <1>9, EndKeeps

-----------------------------------------------------------------------------
\* Every step keeps the invariant.
LEMMA NextInv == IInv /\ [Next]_vars => IInv'
<1> SUFFICES ASSUME IInv, [Next]_vars PROVE IInv'
  OBVIOUS
<1>1. CASE \E t \in Tasks : Expire(t)
  BY <1>1, ExpireKeeps
<1>2. ASSUME NEW s \in Sessions,
             \/ BeginSweep(s) \/ BeginPublish(s) \/ BeginClose(s)
             \/ \E e \in Experts : BeginClaim(s, e) \/ BeginStatus(s, e)
             \/ \E e \in Experts, t \in Tasks : BeginGivingUp(s, e, t) \/ BeginReview(s, e, t)
             \/ \E t \in Tasks : BeginResolve(s, t)
      PROVE  IInv'
  BY <1>2, BeginReclaimKeeps, BeginPublishKeeps, BeginCloseKeeps, BeginStatusKeeps,
     BeginTaskKeeps
<1>3. ASSUME NEW s \in Sessions,
             \/ \E t \in Tasks : PickTask(s, t)
             \/ Lock(s) \/ ScoreExperts(s) \/ Grade(s) \/ ReviewTask(s) \/ ReviewExpert(s)
             \/ ResolveTask(s) \/ ResolveGrade(s) \/ MoveQueue(s)
      PROVE  IInv'
  BY <1>3, PickTaskKeeps, LockKeeps, ScoreExpertsKeeps, GradeKeeps, ReviewTaskKeeps,
     ReviewExpertKeeps, ResolveTaskKeeps, ResolveGradeKeeps, MoveQueueKeeps
<1>4. ASSUME NEW s \in Sessions,
             \/ CommitReclaim(s) \/ CommitRelease(s) \/ CommitSubmit(s) \/ CommitReview(s)
             \/ CommitResolve(s) \/ End(s)
      PROVE  IInv'
  BY <1>4, CommitReclaimKeeps, CommitReleaseKeeps, CommitSubmitKeeps, CommitReviewKeeps,
     CommitResolveKeeps, AnyEndKeeps
<1>5. CASE UNCHANGED vars
  <2>1. ASSUME NEW s \in Sessions PROVE Shape(tx[s])'
    <3>1. PICK x : x = tx'[s]
      OBVIOUS
    <3>2. Shape(x)
      BY <1>5, <3>1 DEF IInv, vars
    <3>3. Shape(x)'
      BY <1>5, <3>2, ShapeStands DEF vars, rows, Settled
    <3> QED
      BY <3>1, <3>3, ShapeNext
  <2> QED
    BY <1>5, <2>1 DEF IInv, TypeOK, Life, LockedOnce, vars, rows
<1> QED
  BY <1>1, <1>2, <1>3, <1>4, <1>5 DEF Next

\* Every deadlock that the database has to break, among any number of sessions, is a circle
\* of resolutions and ticks at the experts' rows, or of reviews of one task around a
\* rejection that picks another grade (consensus.resolve, ops.tick, consensus.redeliver).
THEOREM DeadlocksAreKnown == Spec => []DeadlocksKnown
<1>1. Spec => []IInv
  BY InitInv, NextInv, PTL DEF Spec
<1> QED
  BY <1>1, InvDeadlocks, PTL
==============================================================================
