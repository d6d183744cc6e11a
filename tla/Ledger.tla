-------------------------------- MODULE Ledger --------------------------------
(***************************************************************************)
(* Payouts, and the standing of the experts who earn them.  (services/     *)
(* payouts.py, attention.py; set_status in routers/experts.py.)            *)
(*                                                                         *)
(* An approved grade is paid; a paused expert's money is withheld until an *)
(* admin reinstates them; closing a period pays what is pending.  Whether  *)
(* an expert is paused follows from the golden tasks they grade.           *)
(*                                                                         *)
(* Nothing here locks the expert's row.  Every transaction reads it at its *)
(* beginning and acts on what it read, so each is split at that read.      *)
(* Closing a period reads no expert and is one step.                       *)
(***************************************************************************)
EXTENDS Integers, Sequences, FiniteSets

CONSTANTS
  Experts,
  Grades,
  Author,                      \* the expert who wrote each grade
  Periods,                     \* the labels of payout periods
  NoPeriod,                    \* NULL in payouts.period_id
  Window,                      \* ATTENTION_WINDOW
  MinChecks,                   \* ATTENTION_MIN_CHECKS
  ThresholdNum, ThresholdDen,  \* ATTENTION_THRESHOLD, as a fraction
  Settable,                    \* the standings that admins set
  MaxOpen,                     \* bound: transactions open at the same time
  MaxChecks                    \* bound: golden tasks graded per expert

Standings == {"active", "paused", "inactive"}

LedgerAssumption ==
  /\ Author \in [Grades -> Experts]
  /\ NoPeriod \notin Periods
  /\ Window \in Nat \ {0} /\ MinChecks \in Nat
  /\ ThresholdNum \in Nat /\ ThresholdDen \in Nat \ {0}
  /\ Settable \subseteq Standings
  /\ MaxOpen \in Nat /\ MaxChecks \in Nat

ASSUME LedgerAssumption

VARIABLES
  standing,  \* experts.status
  checks,    \* attention_results per expert by created_at; "open" is not committed
  payout,    \* payouts.status per grade, "none" without a row
  period,    \* payouts.period_id per grade
  closed,    \* payout_periods
  paying,    \* open transactions that pay grades: a review or an adjudication
  checking,  \* open transactions that submit a grade of a golden task
  setting    \* open transactions that set an expert's standing

txVars == <<paying, checking, setting>>
vars   == <<standing, checks, payout, period, closed, txVars>>

PayoutStates == {"none", "pending", "withheld", "paid"}

\* A payment has the grades it pays, and those whose author was paused when it began.
PayTx == [grades : SUBSET Grades, withheld : SUBSET Grades]

\* A check has its row in attention_results, the standing that was read, and what the
\* rolling rate was found to be after a failure.
CheckTx == [expert : Experts, slot : Nat \ {0}, seen : Standings,
            rate : {"unread", "low", "high"}]

SetTx == [expert : Experts, seen : Standings, to : Settable]

TypeOK ==
  /\ standing \in [Experts -> Standings]
  /\ checks \in [Experts -> Seq({"open", "pass", "fail"})]
  /\ payout \in [Grades -> PayoutStates]
  /\ period \in [Grades -> Periods \cup {NoPeriod}]
  /\ closed \subseteq Periods
  /\ paying \subseteq PayTx
  /\ checking \subseteq CheckTx
  /\ setting \subseteq SetTx

Init ==
  /\ standing = [e \in Experts |-> "active"]
  /\ checks = [e \in Experts |-> <<>>]
  /\ payout = [g \in Grades |-> "none"]
  /\ period = [g \in Grades |-> NoPeriod]
  /\ closed = {}
  /\ paying = {} /\ checking = {} /\ setting = {}

MayOpen ==
  Cardinality(paying) + Cardinality(checking) + Cardinality(setting) < MaxOpen

-----------------------------------------------------------------------------
(* Payments.                                                               *)

\* An UPDATE of the payouts in S to state s.
Moved(S, s) == [g \in Grades |-> IF g \in S THEN s ELSE payout[g]]

\* A review has locked one grade, or an adjudication the round of several grades, each
\* of another expert, and has loaded their authors.
BeginPayment(S) ==
  /\ MayOpen
  /\ S # {}
  /\ \A g \in S : payout[g] = "none" /\ \A x \in paying : g \notin x.grades
  /\ \A g, h \in S : Author[g] = Author[h] => g = h
  /\ paying' = paying \cup
       {[grades |-> S, withheld |-> {g \in S : standing[Author[g]] = "paused"}]}
  /\ UNCHANGED <<standing, checks, payout, period, closed, checking, setting>>

\* create_for_grade for each of them, and the commit.
FinishPayment(x) ==
  /\ x \in paying
  /\ paying' = paying \ {x}
  /\ payout' = [g \in Grades |-> IF g \notin x.grades THEN payout[g]
                                 ELSE IF g \in x.withheld THEN "withheld" ELSE "pending"]
  /\ UNCHANGED <<standing, checks, period, closed, checking, setting>>

\* Faulty variant of Due: what an earlier period has paid is paid again.
DueAgain == {g \in Grades : payout[g] \in {"pending", "paid"}}

\* What the closing of a period pays.
Due == {g \in Grades : payout[g] = "pending"}

\* payout_periods.label is unique.
ClosePeriod(p) ==
  /\ p \notin closed
  /\ closed' = closed \cup {p}
  /\ payout' = Moved(Due, "paid")
  /\ period' = [g \in Grades |-> IF g \in Due THEN p ELSE period[g]]
  /\ UNCHANGED <<standing, checks, txVars>>

-----------------------------------------------------------------------------
(* Attention checks.                                                       *)

\* The results that count for the rolling pass rate: the newest ones of a history c.
Recent(c) ==
  LET results == SelectSeq(c, LAMBDA r : r # "open")
      first   == IF Len(results) > Window THEN Len(results) - Window + 1 ELSE 1
  IN SubSeq(results, first, Len(results))

\* There are enough results, and too few of them are passes.
LowRate(c) ==
  LET r == Recent(c)
      passed == Cardinality({i \in DOMAIN r : r[i] = "pass"})
  IN /\ Len(r) > 0
     /\ Len(r) >= MinChecks
     /\ passed * ThresholdDen < ThresholdNum * Len(r)

WithResult(c, x, result) == [c EXCEPT ![x.expert][x.slot] = result]

\* An expert submits a grade of a golden task.  A result is dated by the beginning of
\* its transaction, so its place in the history is taken here.
BeginCheck(e) ==
  /\ MayOpen
  /\ Len(checks[e]) < MaxChecks
  /\ checks' = [checks EXCEPT ![e] = Append(@, "open")]
  /\ checking' = checking \cup {[expert |-> e, slot |-> Len(checks[e]) + 1,
                                 seen |-> standing[e], rate |-> "unread"]}
  /\ UNCHANGED <<standing, payout, period, closed, paying, setting>>

\* The scores are within the tolerance, and the transaction commits.
PassCheck(x) ==
  /\ x \in checking
  /\ x.rate = "unread"
  /\ checks' = WithResult(checks, x, "pass")
  /\ checking' = checking \ {x}
  /\ UNCHANGED <<standing, payout, period, closed, paying, setting>>

\* Faulty variant of RateAfter: the rate is read before the new result is stored.
RateBefore(x) == IF LowRate(checks[x.expert]) THEN "low" ELSE "high"

\* The rolling rate of committed results and the failure that is being submitted.
RateAfter(x) ==
  IF LowRate(WithResult(checks, x, "fail")[x.expert]) THEN "low" ELSE "high"

\* They are not, and the rolling rate is read.
FailCheck(x) ==
  /\ x \in checking
  /\ x.rate = "unread"
  /\ checking' = (checking \ {x}) \cup {[x EXCEPT !.rate = RateAfter(x)]}
  /\ UNCHANGED <<standing, checks, payout, period, closed, paying, setting>>

\* Faulty variant of Held: nothing is withheld.
HeldNone(e) == {}

\* The payouts that a pause withholds.
Held(e) == {g \in Grades : Author[g] = e /\ payout[g] = "pending"}

\* enforce, on the standing that was read when the transaction began.
FinishFailed(x) ==
  LET pause == x.rate = "low" /\ x.seen # "paused"
  IN
  /\ x \in checking
  /\ x.rate # "unread"
  /\ checks' = WithResult(checks, x, "fail")
  /\ checking' = checking \ {x}
  /\ standing' = IF pause THEN [standing EXCEPT ![x.expert] = "paused"] ELSE standing
  /\ payout' = IF pause THEN Moved(Held(x.expert), "withheld") ELSE payout
  /\ UNCHANGED <<period, closed, paying, setting>>

-----------------------------------------------------------------------------
(* PATCH /experts/{id}/status.                                             *)

BeginSetting(e, to) ==
  /\ MayOpen
  /\ setting' = setting \cup {[expert |-> e, seen |-> standing[e], to |-> to]}
  /\ UNCHANGED <<standing, checks, payout, period, closed, paying, checking>>

\* Faulty variants of Released: no payout is; every change away from a pause releases.
ReleasedNone(x) == {}
ReleasedAny(x)  ==
  {g \in Grades : Author[g] = x.expert /\ payout[g] = "withheld" /\ x.seen = "paused"}

\* The payouts that a reinstatement releases.
Released(x) ==
  {g \in Grades : /\ Author[g] = x.expert /\ payout[g] = "withheld"
                  /\ x.seen = "paused" /\ x.to = "active"}

\* The session writes the status only when it differs from what was loaded.
FinishSetting(x) ==
  /\ x \in setting
  /\ setting' = setting \ {x}
  /\ standing' = IF x.to = x.seen THEN standing ELSE [standing EXCEPT ![x.expert] = x.to]
  /\ payout' = Moved(Released(x), "pending")
  /\ UNCHANGED <<checks, period, closed, paying, checking>>

\* An error response, a lost connection or a crash rolls a transaction back.
Rollback ==
  /\ \/ \E x \in paying   : paying' = paying \ {x} /\ UNCHANGED <<checking, setting>>
     \/ \E x \in checking : checking' = checking \ {x} /\ UNCHANGED <<paying, setting>>
     \/ \E x \in setting  : setting' = setting \ {x} /\ UNCHANGED <<paying, checking>>
  /\ UNCHANGED <<standing, checks, payout, period, closed>>

-----------------------------------------------------------------------------
Next ==
  \/ \E S \in SUBSET Grades : BeginPayment(S)
  \/ \E x \in paying : FinishPayment(x)
  \/ \E p \in Periods : ClosePeriod(p)
  \/ \E e \in Experts : BeginCheck(e)
  \/ \E x \in checking : PassCheck(x) \/ FailCheck(x) \/ FinishFailed(x)
  \/ \E e \in Experts, to \in Settable : BeginSetting(e, to)
  \/ \E x \in setting : FinishSetting(x)
  \/ Rollback

Spec == Init /\ [][Next]_vars

-----------------------------------------------------------------------------
(* Properties.                                                             *)

\* The statements, as the rows of payouts have them.
Paid == [p \in Periods |-> {g \in Grades : period[g] = p}]

Promise == INSTANCE Statements WITH statement <- Paid

\* The ledger implements the promise of the statements: no pause, reinstatement or
\* payment that commits around a closing pays a grade twice or changes a statement.
StatementsSpec == Promise!Spec

\* A payout is in a closed period exactly when it is paid, and a payment in flight has
\* its grades to itself: create_for_grade never meets a second payout of one grade.
IInv ==
  /\ TypeOK
  /\ \A g \in Grades : payout[g] = "paid" <=> period[g] # NoPeriod
  /\ \A g \in Grades : period[g] # NoPeriod => period[g] \in closed
  /\ \A x \in paying : \A g \in x.grades : payout[g] = "none"
  /\ \A x, y \in paying : x.grades \cap y.grades # {} => x = y

\* Withheld money waits: whatever overlaps, it is never paid before a step that makes its
\* expert active has released it (close_period, release_withheld).
WithheldWaits ==
  [][\A g \in Grades : payout[g] = "withheld" /\ payout'[g] # "withheld" =>
       payout'[g] = "pending" /\ standing'[Author[g]] = "active"]_vars

\* ARCHITECTURE.md:29: when a check pauses an expert "all of their `pending` payouts become
\* `withheld`", and "New approvals for a paused expert are created as `withheld`".  Not true
\* of approvals that have loaded the expert before: while no admin pauses anyone, a paused
\* expert still may have a payout pending (enforce, create_for_grade).
PausedWithheld ==
  \A g \in Grades : standing[Author[g]] = "paused" => payout[g] # "pending"
==============================================================================
