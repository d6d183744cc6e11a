---------------------------- MODULE Ledger_proofs ----------------------------
(***************************************************************************)
(* Proofs about the ledger, for every set of experts, grades and periods   *)
(* and for any number of open transactions.                                *)
(***************************************************************************)
EXTENDS MCLedger, Sums, SequenceTheorems

USE LedgerAssumption DEF LedgerAssumption

Results == {"open", "pass", "fail"}

-----------------------------------------------------------------------------
(* The parts of the invariant, named for the proofs.                       *)

PaidHasPeriod  == \A g \in Grades : payout[g] = "paid" <=> period[g] # NoPeriod
PeriodIsClosed == \A g \in Grades : period[g] # NoPeriod => period[g] \in closed
PaymentIsNew   == \A x \in paying : \A g \in x.grades : payout[g] = "none"
PaymentIsAlone == \A x, y \in paying : x.grades \cap y.grades # {} => x = y

LEMMA IInvParts ==
  IInv <=> TypeOK /\ PaidHasPeriod /\ PeriodIsClosed /\ PaymentIsNew /\ PaymentIsAlone
BY DEF IInv, PaidHasPeriod, PeriodIsClosed, PaymentIsNew, PaymentIsAlone

-----------------------------------------------------------------------------
(* Lemmas about the operators of the model.                                *)

\* Putting a result in its place keeps the histories histories.
LEMMA WithResultType ==
  ASSUME NEW c \in [Experts -> Seq(Results)], NEW x \in CheckTx, NEW r \in Results
  PROVE  WithResult(c, x, r) \in [Experts -> Seq(Results)]
<1> DEFINE s == c[x.expert]
<1>1. x.expert \in Experts /\ x.slot \in Nat \ {0} /\ s \in Seq(Results)
  BY DEF CheckTx
<1>2. CASE x.slot \in 1 .. Len(s)
  <2>1. [s EXCEPT ![x.slot] = r] \in Seq(Results)
    BY <1>1, <1>2, ExceptSeq
  <2> QED
    BY <1>1, <2>1 DEF WithResult
<1>3. CASE x.slot \notin 1 .. Len(s)
  <2>1. [s EXCEPT ![x.slot] = r] = s
    BY <1>1, <1>3
  <2> QED
    BY <1>1, <2>1 DEF WithResult
<1> QED
  BY <1>2, <1>3

\* An UPDATE of payouts that are not paid, to a state that is not paid, keeps every
\* payout that it does not touch and the payouts that are paid.
LEMMA MovedKeepsPaid ==
  ASSUME TypeOK, NEW S \in SUBSET Grades, \A g \in S : payout[g] \in {"pending", "withheld"},
         NEW s \in {"pending", "withheld"}, payout' = Moved(S, s)
  PROVE  /\ payout' \in [Grades -> PayoutStates]
         /\ \A g \in Grades : payout'[g] = "paid" <=> payout[g] = "paid"
         /\ \A g \in Grades : payout[g] = "none" => payout'[g] = "none"
BY DEF TypeOK, Moved, PayoutStates

-----------------------------------------------------------------------------
(* Type correctness and the invariant.                                     *)

LEMMA InitIInv == Init => IInv
<1> SUFFICES ASSUME Init PROVE IInv
  OBVIOUS
<1>1. TypeOK
  BY DEF Init, TypeOK, Standings, PayoutStates
<1>2. PaidHasPeriod /\ PeriodIsClosed /\ PaymentIsNew /\ PaymentIsAlone
  BY DEF Init, PaidHasPeriod, PeriodIsClosed, PaymentIsNew, PaymentIsAlone
<1> QED
  BY <1>1, <1>2, IInvParts

\* A step that changes neither the ledger nor the payments in flight.
LEMMA LedgerUntouched ==
  ASSUME IInv, TypeOK', UNCHANGED <<payout, period, closed, paying>>
  PROVE  IInv'
BY DEF IInv

LEMMA BeginPaymentIInv ==
  ASSUME IInv, NEW S \in SUBSET Grades, BeginPayment(S)
  PROVE  IInv'
<1> DEFINE n == [grades |-> S, withheld |-> {g \in S : standing[Author[g]] = "paused"}]
<1>1. TypeOK /\ PaidHasPeriod /\ PeriodIsClosed /\ PaymentIsNew /\ PaymentIsAlone
  BY IInvParts
<1>2. n \in PayTx
  BY DEF PayTx
<1>3. paying' = paying \cup {n}
  BY DEF BeginPayment
<1>4. UNCHANGED <<standing, checks, payout, period, closed, checking, setting>>
  BY DEF BeginPayment
<1>5. \A g \in S : payout[g] = "none" /\ \A x \in paying : g \notin x.grades
  BY DEF BeginPayment
<1>6. TypeOK'
  BY <1>1, <1>2, <1>3, <1>4 DEF TypeOK
<1>7. PaidHasPeriod' /\ PeriodIsClosed'
  BY <1>1, <1>4 DEF PaidHasPeriod, PeriodIsClosed
<1>8. n.grades = S
  OBVIOUS
<1>9. PaymentIsNew'
  BY <1>1, <1>3, <1>4, <1>5, <1>8 DEF PaymentIsNew
<1>10. PaymentIsAlone'
  <2> SUFFICES ASSUME NEW x \in paying', NEW y \in paying', x.grades \cap y.grades # {}
               PROVE  x = y
    BY DEF PaymentIsAlone
  <2>1. CASE x = n /\ y = n
    BY <2>1
  <2>2. CASE x = n /\ y \in paying
    BY <1>5, <1>8, <2>2
  <2>3. CASE x \in paying /\ y = n
    BY <1>5, <1>8, <2>3
  <2>4. CASE x \in paying /\ y \in paying
    BY <1>1, <2>4 DEF PaymentIsAlone
  <2> QED
    BY <1>3, <2>1, <2>2, <2>3, <2>4
<1> QED
  BY <1>6, <1>7, <1>9, <1>10 DEF IInv, PaidHasPeriod, PeriodIsClosed, PaymentIsNew,
                                 PaymentIsAlone

LEMMA FinishPaymentIInv ==
  ASSUME IInv, NEW x \in paying, FinishPayment(x)
  PROVE  IInv'
<1>1. TypeOK /\ PaidHasPeriod /\ PeriodIsClosed /\ PaymentIsNew /\ PaymentIsAlone
  BY IInvParts
<1>2. paying' = paying \ {x} /\ UNCHANGED <<standing, checks, period, closed, checking, setting>>
  BY DEF FinishPayment
<1>3. payout' = [g \in Grades |-> IF g \notin x.grades THEN payout[g]
                                  ELSE IF g \in x.withheld THEN "withheld" ELSE "pending"]
  BY DEF FinishPayment
<1>4. TypeOK'
  BY <1>1, <1>2, <1>3 DEF TypeOK, PayoutStates
<1>5. \A g \in x.grades : payout[g] = "none"
  BY <1>1 DEF PaymentIsNew
<1>6. PaidHasPeriod' /\ PeriodIsClosed'
  <2>1. \A g \in Grades : payout'[g] = "paid" <=> payout[g] = "paid"
    BY <1>3, <1>5
  <2> QED
    BY <1>1, <1>2, <2>1 DEF PaidHasPeriod, PeriodIsClosed
<1>7. PaymentIsNew'
  <2> SUFFICES ASSUME NEW y \in paying', NEW g \in y.grades
               PROVE  payout'[g] = "none"
    BY DEF PaymentIsNew
  <2>1. y \in paying /\ y # x /\ g \in Grades
    BY <1>1, <1>2 DEF TypeOK, PayTx
  <2>2. g \notin x.grades
    BY <1>1, <2>1 DEF PaymentIsAlone
  <2> QED
    BY <1>1, <1>3, <2>1, <2>2 DEF PaymentIsNew
<1>8. PaymentIsAlone'
  BY <1>1, <1>2 DEF PaymentIsAlone
<1> QED
  BY <1>4, <1>6, <1>7, <1>8 DEF IInv, PaidHasPeriod, PeriodIsClosed, PaymentIsNew,
                                PaymentIsAlone

LEMMA ClosePeriodIInv ==
  ASSUME IInv, NEW p \in Periods, ClosePeriod(p)
  PROVE  IInv'
<1>1. TypeOK /\ PaidHasPeriod /\ PeriodIsClosed /\ PaymentIsNew /\ PaymentIsAlone
  BY IInvParts
<1>2. /\ closed' = closed \cup {p}
      /\ UNCHANGED <<standing, checks, txVars>>
  BY DEF ClosePeriod
<1>3. payout' = [g \in Grades |-> IF payout[g] = "pending" THEN "paid" ELSE payout[g]]
  BY DEF ClosePeriod, Moved, Due
<1>4. period' = [g \in Grades |-> IF payout[g] = "pending" THEN p ELSE period[g]]
  BY DEF ClosePeriod, Due
<1>5. TypeOK'
  BY <1>1, <1>2, <1>3, <1>4 DEF TypeOK, PayoutStates, txVars
<1>6. PaidHasPeriod'
  BY <1>1, <1>3, <1>4 DEF PaidHasPeriod
<1>7. PeriodIsClosed'
  BY <1>1, <1>2, <1>4 DEF PeriodIsClosed
<1>8. PaymentIsNew'
  <2>1. \A x \in paying : x.grades \in SUBSET Grades
    BY <1>1 DEF TypeOK, PayTx
  <2> QED
    BY <1>1, <1>2, <1>3, <2>1 DEF PaymentIsNew, txVars
<1>9. PaymentIsAlone'
  BY <1>1, <1>2 DEF PaymentIsAlone, txVars
<1> QED
  BY <1>5, <1>6, <1>7, <1>8, <1>9 DEF IInv, PaidHasPeriod, PeriodIsClosed, PaymentIsNew,
                                      PaymentIsAlone

\* A pause or a reinstatement: an UPDATE of payouts that are not paid.
LEMMA MovedIInv ==
  ASSUME IInv, TypeOK', UNCHANGED <<period, closed, paying>>,
         \A g \in Grades : payout'[g] = "paid" <=> payout[g] = "paid",
         \A g \in Grades : payout[g] = "none" => payout'[g] = "none"
  PROVE  IInv'
<1>1. TypeOK /\ PaidHasPeriod /\ PeriodIsClosed /\ PaymentIsNew /\ PaymentIsAlone
  BY IInvParts
<1>2. PaidHasPeriod' /\ PeriodIsClosed'
  BY <1>1 DEF PaidHasPeriod, PeriodIsClosed
<1>3. \A x \in paying : x.grades \in SUBSET Grades
  BY <1>1 DEF TypeOK, PayTx
<1>4. PaymentIsNew' /\ PaymentIsAlone'
  BY <1>1, <1>3 DEF PaymentIsNew, PaymentIsAlone
<1> QED
  BY <1>2, <1>4 DEF IInv, PaidHasPeriod, PeriodIsClosed, PaymentIsNew, PaymentIsAlone

LEMMA BeginCheckIInv ==
  ASSUME IInv, NEW e \in Experts, BeginCheck(e)
  PROVE  IInv'
<1>1. TypeOK
  BY IInvParts
<1>2. /\ checks' = [checks EXCEPT ![e] = Append(@, "open")]
      /\ checking' = checking \cup {[expert |-> e, slot |-> Len(checks[e]) + 1,
                                     seen |-> standing[e], rate |-> "unread"]}
      /\ UNCHANGED <<standing, payout, period, closed, paying, setting>>
  BY DEF BeginCheck
<1>3. checks[e] \in Seq(Results) /\ Len(checks[e]) \in Nat
  BY <1>1, LenProperties DEF TypeOK, Results
<1>4. Append(checks[e], "open") \in Seq(Results)
  BY <1>3, AppendProperties DEF Results
<1>5. checks' \in [Experts -> Seq({"open", "pass", "fail"})]
  BY <1>1, <1>2, <1>4 DEF TypeOK, Results
<1>6. checking' \subseteq CheckTx
  BY <1>1, <1>2, <1>3 DEF TypeOK, CheckTx
<1>7. TypeOK'
  BY <1>1, <1>2, <1>5, <1>6 DEF TypeOK
<1> QED
  BY <1>2, <1>7, LedgerUntouched

LEMMA PassCheckIInv ==
  ASSUME IInv, NEW x \in checking, PassCheck(x)
  PROVE  IInv'
<1>1. TypeOK /\ x \in CheckTx
  BY IInvParts DEF TypeOK
<1>2. /\ checks' = WithResult(checks, x, "pass")
      /\ checking' = checking \ {x}
      /\ UNCHANGED <<standing, payout, period, closed, paying, setting>>
  BY DEF PassCheck
<1>3. checks \in [Experts -> Seq(Results)] /\ "pass" \in Results
  BY <1>1 DEF TypeOK, Results
<1>4. checks' \in [Experts -> Seq(Results)]
  BY <1>1, <1>2, <1>3, WithResultType
<1>5. TypeOK'
  BY <1>1, <1>2, <1>4 DEF TypeOK, Results
<1> QED
  BY <1>2, <1>5, LedgerUntouched

LEMMA FailCheckIInv ==
  ASSUME IInv, NEW x \in checking, FailCheck(x)
  PROVE  IInv'
<1>1. TypeOK /\ x \in CheckTx
  BY IInvParts DEF TypeOK
<1>2. /\ checking' = (checking \ {x}) \cup {[x EXCEPT !.rate = RateAfter(x)]}
      /\ UNCHANGED <<standing, checks, payout, period, closed, paying, setting>>
  BY DEF FailCheck
<1>3. RateAfter(x) \in {"low", "high"}
  BY DEF RateAfter
<1>4. [x EXCEPT !.rate = RateAfter(x)] \in CheckTx
  BY <1>1, <1>3 DEF CheckTx
<1>5. TypeOK'
  BY <1>1, <1>2, <1>4 DEF TypeOK
<1> QED
  BY <1>2, <1>5, LedgerUntouched

LEMMA FinishFailedIInv ==
  ASSUME IInv, NEW x \in checking, FinishFailed(x)
  PROVE  IInv'
<1> DEFINE pause == x.rate = "low" /\ x.seen # "paused"
<1>1. TypeOK /\ x \in CheckTx
  BY IInvParts DEF TypeOK
<1>2. /\ checks' = WithResult(checks, x, "fail")
      /\ checking' = checking \ {x}
      /\ UNCHANGED <<period, closed, paying, setting>>
  BY DEF FinishFailed
<1>3. standing' = IF pause THEN [standing EXCEPT ![x.expert] = "paused"] ELSE standing
  BY DEF FinishFailed
<1>4. payout' = IF pause THEN Moved(Held(x.expert), "withheld") ELSE payout
  BY DEF FinishFailed
<1>5. checks \in [Experts -> Seq(Results)] /\ "fail" \in Results
  BY <1>1 DEF TypeOK, Results
<1>6. checks' \in [Experts -> Seq(Results)]
  BY <1>1, <1>2, <1>5, WithResultType
<1>7. standing' \in [Experts -> Standings]
  BY <1>1, <1>3 DEF TypeOK, CheckTx, Standings
<1>8. /\ payout' \in [Grades -> PayoutStates]
      /\ \A g \in Grades : payout'[g] = "paid" <=> payout[g] = "paid"
      /\ \A g \in Grades : payout[g] = "none" => payout'[g] = "none"
  <2>1. CASE pause
    <3>1. Held(x.expert) \in SUBSET Grades /\ \A g \in Held(x.expert) : payout[g] = "pending"
      BY DEF Held
    <3> QED
      BY <1>1, <1>4, <2>1, <3>1, MovedKeepsPaid
  <2>2. CASE ~pause
    BY <1>1, <1>4, <2>2 DEF TypeOK
  <2> QED
    BY <2>1, <2>2
<1>9. TypeOK'
  BY <1>1, <1>2, <1>6, <1>7, <1>8 DEF TypeOK, Results
<1> QED
  BY <1>2, <1>8, <1>9, MovedIInv

LEMMA BeginSettingIInv ==
  ASSUME IInv, NEW e \in Experts, NEW to \in Settable, BeginSetting(e, to)
  PROVE  IInv'
<1>1. TypeOK
  BY IInvParts
<1>2. /\ setting' = setting \cup {[expert |-> e, seen |-> standing[e], to |-> to]}
      /\ UNCHANGED <<standing, checks, payout, period, closed, paying, checking>>
  BY DEF BeginSetting
<1>3. [expert |-> e, seen |-> standing[e], to |-> to] \in SetTx
  BY <1>1 DEF TypeOK, SetTx
<1>4. TypeOK'
  BY <1>1, <1>2, <1>3 DEF TypeOK
<1> QED
  BY <1>2, <1>4, LedgerUntouched

LEMMA FinishSettingIInv ==
  ASSUME IInv, NEW x \in setting, FinishSetting(x)
  PROVE  IInv'
<1>1. TypeOK /\ x \in SetTx
  BY IInvParts DEF TypeOK
<1>2. setting' = setting \ {x} /\ UNCHANGED <<checks, period, closed, paying, checking>>
  BY DEF FinishSetting
<1>3. standing' \in [Experts -> Standings]
  BY <1>1 DEF FinishSetting, TypeOK, SetTx
<1>4. Released(x) \in SUBSET Grades /\ \A g \in Released(x) : payout[g] = "withheld"
  BY DEF Released
<1>5. payout' = Moved(Released(x), "pending")
  BY DEF FinishSetting
<1>6. /\ payout' \in [Grades -> PayoutStates]
      /\ \A g \in Grades : payout'[g] = "paid" <=> payout[g] = "paid"
      /\ \A g \in Grades : payout[g] = "none" => payout'[g] = "none"
  BY <1>1, <1>4, <1>5, MovedKeepsPaid
<1>7. TypeOK'
  BY <1>1, <1>2, <1>3, <1>6 DEF TypeOK
<1> QED
  BY <1>2, <1>6, <1>7, MovedIInv

LEMMA RollbackIInv ==
  ASSUME IInv, Rollback
  PROVE  IInv'
<1>1. TypeOK /\ PaidHasPeriod /\ PeriodIsClosed /\ PaymentIsNew /\ PaymentIsAlone
  BY IInvParts
<1>2. /\ UNCHANGED <<standing, checks, payout, period, closed>>
      /\ paying' \subseteq paying /\ checking' \subseteq checking /\ setting' \subseteq setting
  BY DEF Rollback
<1>3. TypeOK'
  BY <1>1, <1>2 DEF TypeOK
<1>4. PaidHasPeriod' /\ PeriodIsClosed' /\ PaymentIsNew' /\ PaymentIsAlone'
  BY <1>1, <1>2 DEF PaidHasPeriod, PeriodIsClosed, PaymentIsNew, PaymentIsAlone
<1> QED
  BY <1>3, <1>4 DEF IInv, PaidHasPeriod, PeriodIsClosed, PaymentIsNew, PaymentIsAlone

LEMMA NextIInv == IInv /\ [Next]_vars => IInv'
<1> SUFFICES ASSUME IInv, [Next]_vars PROVE IInv'
  OBVIOUS
<1>1. CASE \E S \in SUBSET Grades : BeginPayment(S)
  BY <1>1, BeginPaymentIInv
<1>2. CASE \E x \in paying : FinishPayment(x)
  BY <1>2, FinishPaymentIInv
<1>3. CASE \E p \in Periods : ClosePeriod(p)
  BY <1>3, ClosePeriodIInv
<1>4. CASE \E e \in Experts : BeginCheck(e)
  BY <1>4, BeginCheckIInv
<1>5. CASE \E x \in checking : PassCheck(x) \/ FailCheck(x) \/ FinishFailed(x)
  BY <1>5, PassCheckIInv, FailCheckIInv, FinishFailedIInv
<1>6. CASE \E e \in Experts, to \in Settable : BeginSetting(e, to)
  BY <1>6, BeginSettingIInv
<1>7. CASE \E x \in setting : FinishSetting(x)
  BY <1>7, FinishSettingIInv
<1>8. CASE Rollback
  BY <1>8, RollbackIInv
<1>9. CASE UNCHANGED vars
  <2>1. UNCHANGED <<standing, checks, payout, period, closed, paying, checking, setting>>
    BY <1>9 DEF vars, txVars
  <2>2. TypeOK'
    BY <2>1, IInvParts DEF TypeOK
  <2> QED
    BY <2>1, <2>2, LedgerUntouched
<1> QED
  BY <1>1, <1>2, <1>3, <1>4, <1>5, <1>6, <1>7, <1>8, <1>9 DEF Next

\* A payout is in a closed period exactly when it is paid, and no two transactions pay
\* the same grade, whatever transactions overlap.
THEOREM LedgerInvariant == Spec => []IInv
BY InitIInv, NextIInv, PTL DEF Spec

-----------------------------------------------------------------------------
(* The ledger implements the promise of the statements.                    *)

\* Closing a period is the abstract step: its statement gets grades no period has paid.
LEMMA ClosePeriodCloses ==
  ASSUME IInv, NEW p \in Periods, ClosePeriod(p)
  PROVE  Promise!Close(p)
<1>1. PaidHasPeriod /\ PeriodIsClosed
  BY IInvParts
<1>2. p \notin closed /\ closed' = closed \cup {p}
  BY DEF ClosePeriod
<1>3. period' = [g \in Grades |-> IF g \in Due THEN p ELSE period[g]]
  BY DEF ClosePeriod
<1>4. Due \subseteq Grades /\ \A g \in Due : period[g] = NoPeriod
  BY <1>1 DEF PaidHasPeriod, Due
<1>5. Due \in SUBSET Promise!Unpaid
  BY <1>4 DEF Promise!Unpaid, Paid
<1>6. Paid' = [Paid EXCEPT ![p] = Due]
  <2>1. ASSUME NEW q \in Periods, q # p
        PROVE  {g \in Grades : period'[g] = q} = {g \in Grades : period[g] = q}
    BY <1>3, <1>4, <2>1
  <2>2. {g \in Grades : period'[g] = p} = Due
    <3>1. \A g \in Grades : period[g] # p
      BY <1>1, <1>2 DEF PeriodIsClosed
    <3> QED
      BY <1>3, <1>4, <3>1
  <2> QED
    BY <2>1, <2>2 DEF Paid
<1> QED
  BY <1>2, <1>5, <1>6 DEF Promise!Close

\* Every other step leaves the periods of the payouts alone.
LEMMA StepImplements == IInv /\ [Next]_vars => [Promise!Next]_<<closed, Paid>>
<1> SUFFICES ASSUME IInv, [Next]_vars PROVE [Promise!Next]_<<closed, Paid>>
  OBVIOUS
<1>1. CASE \E p \in Periods : ClosePeriod(p)
  BY <1>1, ClosePeriodCloses DEF Promise!Next
<1>2. CASE UNCHANGED <<closed, period>>
  BY <1>2 DEF Paid
<1> QED
  BY <1>1, <1>2 DEF Next, vars, BeginPayment, FinishPayment, BeginCheck, PassCheck, FailCheck,
     FinishFailed, BeginSetting, FinishSetting, Rollback

\* No grade is paid twice and no statement changes after its period is closed, whatever
\* pauses, reinstatements, reviews and closings overlap.
THEOREM StatementsImplemented == Spec => StatementsSpec
<1>1. Init => Promise!Init
  <2> SUFFICES ASSUME Init PROVE Promise!Init
    OBVIOUS
  <2>1. closed = {} /\ \A g \in Grades : period[g] = NoPeriod
    BY DEF Init
  <2>2. \A p \in Periods : {g \in Grades : period[g] = p} = {}
    BY <2>1
  <2> QED
    BY <2>1, <2>2 DEF Promise!Init, Paid
<1> QED
  BY <1>1, StepImplements, LedgerInvariant, PTL DEF Spec, StatementsSpec, Promise!Spec

-----------------------------------------------------------------------------
(* Withheld money waits.                                                   *)

\* What WithheldWaits says of one step.
Waits ==
  \A g \in Grades : payout[g] = "withheld" /\ payout'[g] # "withheld" =>
    payout'[g] = "pending" /\ standing'[Author[g]] = "active"

LEMMA NextWaits == IInv /\ [Next]_vars => Waits
<1> SUFFICES ASSUME IInv, [Next]_vars PROVE Waits
  OBVIOUS
<1>1. TypeOK /\ PaymentIsNew
  BY IInvParts
<1>2. ASSUME NEW x \in paying, FinishPayment(x) PROVE Waits
  <2>1. \A g \in x.grades : payout[g] = "none"
    BY <1>1 DEF PaymentIsNew
  <2> QED
    BY <1>2, <2>1 DEF FinishPayment, Waits
<1>3. ASSUME NEW p \in Periods, ClosePeriod(p) PROVE Waits
  BY <1>3 DEF ClosePeriod, Moved, Due, Waits
<1>4. ASSUME NEW x \in checking, FinishFailed(x) PROVE Waits
  BY <1>4 DEF FinishFailed, Moved, Held, Waits
<1>5. ASSUME NEW x \in setting, FinishSetting(x) PROVE Waits
  <2> SUFFICES ASSUME NEW g \in Grades, payout[g] = "withheld", payout'[g] # "withheld"
               PROVE  payout'[g] = "pending" /\ standing'[Author[g]] = "active"
    BY DEF Waits
  <2>1. g \in Released(x) /\ payout'[g] = "pending"
    BY <1>5 DEF FinishSetting, Moved
  <2>2. x.expert = Author[g] /\ x.to = "active" /\ x.to # x.seen
    BY <2>1 DEF Released
  <2>3. standing' = [standing EXCEPT ![x.expert] = x.to]
    BY <1>5, <2>2 DEF FinishSetting
  <2> QED
    BY <1>1, <2>1, <2>2, <2>3 DEF TypeOK
<1>6. CASE UNCHANGED payout
  BY <1>6 DEF Waits
<1> QED
  BY <1>2, <1>3, <1>4, <1>5, <1>6 DEF Next, vars, BeginPayment, BeginCheck, PassCheck, FailCheck,
     BeginSetting, Rollback

\* Withheld money is never paid before its expert has been made active again.
THEOREM WithheldMoneyWaits == Spec => WithheldWaits
BY NextWaits, LedgerInvariant, PTL DEF Spec, WithheldWaits, Waits

-----------------------------------------------------------------------------
(* As long as transactions do not overlap (AloneSpec).                     *)

\* What is pending while its author is paused, or withheld while they are not.
Explained == PausedExplained /\ WithheldExplained

\* What an open transaction has read is still so, and the pauses and the withheld money
\* agree, but for what admins have left where it was.
Undisturbed ==
  /\ Explained
  /\ \A x \in paying : x.withheld = {g \in x.grades : standing[Author[g]] = "paused"}
  /\ \A x \in checking : /\ x.seen = standing[x.expert]
                         /\ x.rate # "unread" => x.rate = RateAfter(x)
  /\ \A x \in setting : x.seen = standing[x.expert]

FinitelyOpen == IsFiniteSet(paying) /\ IsFiniteSet(checking) /\ IsFiniteSet(setting)

AloneInv ==
  /\ IInv /\ FinitelyOpen
  /\ alone \in BOOLEAN
  /\ alone => Open <= 1 /\ Undisturbed

\* A transaction that is open has no other one beside it.
OneOpen ==
  /\ \A x \in paying   : paying = {x} /\ checking = {} /\ setting = {}
  /\ \A x \in checking : checking = {x} /\ paying = {} /\ setting = {}
  /\ \A x \in setting  : setting = {x} /\ paying = {} /\ checking = {}

\* A finite set with at most one element.
LEMMA AtMostOne ==
  ASSUME NEW S, IsFiniteSet(S)
  PROVE  /\ Cardinality(S) \in Nat
         /\ Cardinality(S) = 0 => S = {}
         /\ \A x \in S : Cardinality(S) >= 1 /\ (Cardinality(S) <= 1 => S = {x})
<1>1. Cardinality(S) \in Nat /\ (Cardinality(S) = 0 => S = {})
  BY FS_CardinalityType, FS_EmptySet
<1>2. ASSUME NEW x \in S PROVE Cardinality(S) >= 1 /\ (Cardinality(S) <= 1 => S = {x})
  <2>1. {x} \subseteq S /\ Cardinality({x}) = 1 /\ IsFiniteSet({x})
    BY FS_Singleton
  <2>2. Cardinality({x}) <= Cardinality(S) /\ (Cardinality({x}) = Cardinality(S) => {x} = S)
    BY <2>1, FS_Subset
  <2> QED
    BY <1>1, <2>1, <2>2
<1> QED
  BY <1>1, <1>2

LEMMA OpenOne == FinitelyOpen /\ Open <= 1 => OneOpen
<1> SUFFICES ASSUME FinitelyOpen, Open <= 1 PROVE OneOpen
  OBVIOUS
<1> DEFINE p == Cardinality(paying)
           c == Cardinality(checking)
           s == Cardinality(setting)
<1>1. p \in Nat /\ c \in Nat /\ s \in Nat /\ p + c + s <= 1
  BY AtMostOne DEF FinitelyOpen, Open
<1>2. /\ p = 0 => paying = {}
      /\ c = 0 => checking = {}
      /\ s = 0 => setting = {}
      /\ \A x \in paying : p >= 1 /\ (p <= 1 => paying = {x})
      /\ \A x \in checking : c >= 1 /\ (c <= 1 => checking = {x})
      /\ \A x \in setting : s >= 1 /\ (s <= 1 => setting = {x})
  BY AtMostOne DEF FinitelyOpen
<1> HIDE DEF p, c, s
<1>3. ASSUME NEW x \in paying PROVE paying = {x} /\ checking = {} /\ setting = {}
  <2>1. p = 1 /\ c = 0 /\ s = 0
    BY <1>1, <1>2
  <2> QED
    BY <1>2, <2>1
<1>4. ASSUME NEW x \in checking PROVE checking = {x} /\ paying = {} /\ setting = {}
  <2>1. c = 1 /\ p = 0 /\ s = 0
    BY <1>1, <1>2
  <2> QED
    BY <1>2, <2>1
<1>5. ASSUME NEW x \in setting PROVE setting = {x} /\ paying = {} /\ checking = {}
  <2>1. s = 1 /\ p = 0 /\ c = 0
    BY <1>1, <1>2
  <2> QED
    BY <1>2, <2>1
<1> QED
  BY <1>3, <1>4, <1>5 DEF OneOpen

\* Transactions are opened one at a time.
LEMMA FinitelyOpenNext == FinitelyOpen /\ [Next]_vars => FinitelyOpen'
<1> SUFFICES ASSUME FinitelyOpen, [Next]_vars PROVE FinitelyOpen'
  OBVIOUS
<1>1. /\ \/ paying' \subseteq paying
         \/ \E x : paying' = paying \cup {x}
      /\ \/ checking' \subseteq checking
         \/ \E x : checking' = checking \cup {x}
         \/ \E x, y : checking' = (checking \ {x}) \cup {y}
      /\ \/ setting' \subseteq setting
         \/ \E x : setting' = setting \cup {x}
  BY DEF Next, vars, txVars, BeginPayment, FinishPayment, ClosePeriod, BeginCheck, PassCheck,
         FailCheck, FinishFailed, BeginSetting, FinishSetting, Rollback
<1>2. \A x : checking \ {x} \subseteq checking
  OBVIOUS
<1>3. ASSUME NEW S, NEW T, IsFiniteSet(S),
             \/ T \subseteq S
             \/ \E x : T = S \cup {x}
             \/ \E x, y : T = (S \ {x}) \cup {y}
      PROVE  IsFiniteSet(T)
  <2>1. CASE T \subseteq S
    BY <1>3, <2>1, FS_Subset
  <2>2. ASSUME NEW x, T = S \cup {x} PROVE IsFiniteSet(T)
    BY <1>3, <2>2, FS_AddElement
  <2>3. ASSUME NEW x, NEW y, T = (S \ {x}) \cup {y} PROVE IsFiniteSet(T)
    <3>1. IsFiniteSet(S \ {x})
      BY <1>3, FS_Subset
    <3> QED
      BY <2>3, <3>1, FS_AddElement
  <2> QED
    BY <1>3, <2>1, <2>2, <2>3
<1> QED
  BY <1>1, <1>3 DEF FinitelyOpen

\* A step that leaves the standings and the payouts alone, or the history too.
LEMMA ExplainedKept ==
  ASSUME Explained, UNCHANGED <<standing, payout>>,
         Remember \/ UNCHANGED <<leftPending, leftWithheld>>
  PROVE  Explained'
BY DEF Explained, PausedExplained, WithheldExplained, Remember

\* A step that leaves the standings, the checks and the payouts alone, and opens at most a
\* transaction that has read the present.
LEMMA UndisturbedReads ==
  ASSUME Undisturbed, UNCHANGED <<standing, checks, payout>>,
         Remember \/ UNCHANGED <<leftPending, leftWithheld>>,
         \A x \in paying' :
           x \in paying \/ x.withheld = {g \in x.grades : standing[Author[g]] = "paused"},
         \A x \in checking' :
           x \in checking \/ /\ x.seen = standing[x.expert]
                             /\ x.rate # "unread" => x.rate = RateAfter(x),
         \A x \in setting' : x \in setting \/ x.seen = standing[x.expert]
  PROVE  Undisturbed'
<1>1. Explained'
  BY ExplainedKept DEF Undisturbed
<1>2. \A x : RateAfter(x)' = RateAfter(x)
  BY DEF RateAfter, WithResult
<1>3. \A x \in checking' : x.seen = standing[x.expert] /\ (x.rate # "unread" => x.rate = RateAfter(x))
  BY DEF Undisturbed
<1>4. \A x \in paying' : x.withheld = {g \in x.grades : standing[Author[g]] = "paused"}
  BY DEF Undisturbed
<1>5. \A x \in setting' : x.seen = standing[x.expert]
  BY DEF Undisturbed
<1>6. \A x \in checking' : x.rate # "unread" => x.rate = RateAfter(x)'
  BY <1>2, <1>3
<1> QED
  BY <1>1, <1>3, <1>4, <1>5, <1>6 DEF Undisturbed

\* When nothing is open after a step, what was read is of no concern.
LEMMA UndisturbedClosed ==
  ASSUME Explained', paying' = {}, checking' = {}, setting' = {}
  PROVE  Undisturbed'
BY DEF Undisturbed

LEMMA UndisturbedBeginPayment ==
  ASSUME IInv, Undisturbed, NEW S \in SUBSET Grades, BeginPayment(S), Remember
  PROVE  Undisturbed'
<1> DEFINE n == [grades |-> S, withheld |-> {g \in S : standing[Author[g]] = "paused"}]
<1>1. /\ paying' = paying \cup {n}
      /\ UNCHANGED <<standing, checks, payout, period, closed, checking, setting>>
  BY DEF BeginPayment
<1>2. n.withheld = {g \in n.grades : standing[Author[g]] = "paused"}
  OBVIOUS
<1> QED
  BY <1>1, <1>2, UndisturbedReads

LEMMA UndisturbedFinishPayment ==
  ASSUME IInv, Undisturbed, OneOpen, NEW x \in paying, FinishPayment(x), Remember
  PROVE  Undisturbed'
<1>1. /\ paying' = {} /\ checking' = {} /\ setting' = {}
      /\ payout' = [g \in Grades |-> IF g \notin x.grades THEN payout[g]
                                     ELSE IF g \in x.withheld THEN "withheld" ELSE "pending"]
      /\ UNCHANGED standing
  BY DEF FinishPayment, OneOpen
<1>2. x.withheld = {g \in x.grades : standing[Author[g]] = "paused"}
  BY DEF Undisturbed
<1>3. Explained'
  BY <1>1, <1>2 DEF Undisturbed, Explained, PausedExplained, WithheldExplained, Remember
<1> QED
  BY <1>1, <1>3, UndisturbedClosed

\* A statement is closed while nothing is open.
LEMMA UndisturbedClosePeriod ==
  ASSUME IInv, Undisturbed, NEW p \in Periods, ClosePeriod(p), Remember,
         paying = {}, checking = {}, setting = {}
  PROVE  Undisturbed'
<1>1. /\ payout' = [g \in Grades |-> IF payout[g] = "pending" THEN "paid" ELSE payout[g]]
      /\ UNCHANGED standing
      /\ paying' = {} /\ checking' = {} /\ setting' = {}
  BY DEF ClosePeriod, Moved, Due, txVars
<1>2. Explained'
  BY <1>1 DEF Undisturbed, Explained, PausedExplained, WithheldExplained, Remember
<1> QED
  BY <1>1, <1>2, UndisturbedClosed

\* The open check is the only one, so the history is as it was when its rate was read.
LEMMA UndisturbedBeginCheck ==
  ASSUME IInv, Undisturbed, OneOpen', NEW e \in Experts, BeginCheck(e), Remember
  PROVE  Undisturbed'
<1> DEFINE n == [expert |-> e, slot |-> Len(checks[e]) + 1, seen |-> standing[e],
                 rate |-> "unread"]
<1>1. checking' = checking \cup {n} /\ UNCHANGED <<standing, payout>>
  BY DEF BeginCheck
<1>2. n.expert = e /\ n.seen = standing[e] /\ n.rate = "unread"
  OBVIOUS
<1> HIDE DEF n
<1>3. checking' = {n} /\ paying' = {} /\ setting' = {}
  BY <1>1 DEF OneOpen
<1>4. Explained'
  BY <1>1, ExplainedKept DEF Undisturbed
<1> QED
  BY <1>1, <1>2, <1>3, <1>4 DEF Undisturbed

LEMMA UndisturbedPassCheck ==
  ASSUME IInv, Undisturbed, OneOpen, NEW x \in checking, PassCheck(x), Remember
  PROVE  Undisturbed'
<1>1. paying' = {} /\ checking' = {} /\ setting' = {} /\ UNCHANGED <<standing, payout>>
  BY DEF PassCheck, OneOpen
<1>2. Explained'
  BY <1>1, ExplainedKept DEF Undisturbed
<1> QED
  BY <1>1, <1>2, UndisturbedClosed

LEMMA UndisturbedFailCheck ==
  ASSUME IInv, Undisturbed, NEW x \in checking, FailCheck(x), Remember
  PROVE  Undisturbed'
<1> DEFINE n == [x EXCEPT !.rate = RateAfter(x)]
<1>1. /\ checking' = (checking \ {x}) \cup {n}
      /\ UNCHANGED <<standing, checks, payout, period, closed, paying, setting>>
  BY DEF FailCheck
<1>2. x \in CheckTx
  BY IInvParts DEF TypeOK
<1>3. n.expert = x.expert /\ n.slot = x.slot /\ n.seen = x.seen /\ n.rate = RateAfter(x)
  BY <1>2 DEF CheckTx
<1> HIDE DEF n
<1>4. RateAfter(n) = RateAfter(x)
  BY <1>3 DEF RateAfter, WithResult
<1>5. n.seen = standing[n.expert] /\ n.rate = RateAfter(n)
  BY <1>3, <1>4 DEF Undisturbed
<1> QED
  BY <1>1, <1>5, UndisturbedReads

\* A pause withholds what is pending; an expert who is paused already keeps what is left.
LEMMA UndisturbedFinishFailed ==
  ASSUME IInv, Undisturbed, OneOpen, NEW x \in checking, FinishFailed(x), Remember
  PROVE  Undisturbed'
<1> DEFINE pause == x.rate = "low" /\ x.seen # "paused"
<1>1. /\ paying' = {} /\ checking' = {} /\ setting' = {}
      /\ standing' = IF pause THEN [standing EXCEPT ![x.expert] = "paused"] ELSE standing
      /\ payout' = IF pause THEN Moved(Held(x.expert), "withheld") ELSE payout
  BY DEF FinishFailed, OneOpen
<1>2. standing \in [Experts -> Standings]
  BY IInvParts DEF TypeOK
<1>3. Explained'
  <2>1. CASE pause
    BY <1>1, <1>2, <2>1 DEF Moved, Held, Undisturbed, Explained, PausedExplained,
                            WithheldExplained, Remember
  <2>2. CASE ~pause
    BY <1>1, <2>2, ExplainedKept DEF Undisturbed
  <2> QED
    BY <2>1, <2>2
<1> QED
  BY <1>1, <1>3, UndisturbedClosed

LEMMA UndisturbedBeginSetting ==
  ASSUME IInv, Undisturbed, NEW e \in Experts, NEW to \in Settable, BeginSetting(e, to),
         Remember
  PROVE  Undisturbed'
<1> DEFINE n == [expert |-> e, seen |-> standing[e], to |-> to]
<1>1. /\ setting' = setting \cup {n}
      /\ UNCHANGED <<standing, checks, payout, period, closed, paying, checking>>
  BY DEF BeginSetting
<1>2. n.seen = standing[n.expert]
  OBVIOUS
<1> HIDE DEF n
<1> QED
  BY <1>1, <1>2, UndisturbedReads

\* A reinstatement releases all that is withheld; every other setting leaves the payouts
\* where they are, and the history tells which.
LEMMA UndisturbedFinishSetting ==
  ASSUME IInv, Undisturbed, OneOpen, NEW x \in setting, FinishSetting(x), Remember
  PROVE  Undisturbed'
<1>1. /\ paying' = {} /\ checking' = {} /\ setting' = {}
      /\ standing' = IF x.to = x.seen THEN standing ELSE [standing EXCEPT ![x.expert] = x.to]
      /\ payout' = Moved(Released(x), "pending")
  BY DEF FinishSetting, OneOpen
<1>2. /\ standing \in [Experts -> Standings] /\ Author \in [Grades -> Experts]
      /\ x.to \in Standings
  BY IInvParts, LedgerAssumption DEF TypeOK, SetTx, LedgerAssumption
<1>3. /\ x.seen = standing[x.expert] /\ x \in setting /\ x \notin setting'
      /\ Explained
  BY DEF Undisturbed, FinishSetting
<1>4. standing' = [standing EXCEPT ![x.expert] = x.to]
  BY <1>1, <1>2, <1>3
<1>5. Explained'
  <2> SUFFICES ASSUME NEW g \in Grades
               PROVE  /\ standing'[Author[g]] = "paused" /\ payout'[g] = "pending"
                           => g \in leftPending'
                      /\ payout'[g] = "withheld" /\ standing'[Author[g]] # "paused"
                           => g \in leftWithheld'
    BY DEF Explained, PausedExplained, WithheldExplained
  <2>1. CASE Author[g] # x.expert
    <3>1. standing'[Author[g]] = standing[Author[g]] /\ payout'[g] = payout[g]
      BY <1>1, <1>2, <1>4, <2>1 DEF Moved, Released
    <3> QED
      BY <1>3, <3>1 DEF Explained, PausedExplained, WithheldExplained, Remember
  <2>2. CASE Author[g] = x.expert
    <3>1. standing'[Author[g]] = x.to
      BY <1>2, <1>4, <2>2
    <3>2. payout'[g] = IF payout[g] = "withheld" /\ x.seen = "paused" /\ x.to = "active"
                       THEN "pending" ELSE payout[g]
      BY <1>1, <2>2 DEF Moved, Released
    <3>3. setting' # setting
      BY <1>3
    <3>4. x.to \in {"active", "paused", "inactive"} /\ x.seen = standing[Author[g]]
      BY <1>2, <1>3, <2>2 DEF Standings
    <3> QED
      BY <1>3, <3>1, <3>2, <3>3, <3>4 DEF Explained, PausedExplained, WithheldExplained, Remember
  <2> QED
    BY <2>1, <2>2
<1> QED
  BY <1>1, <1>5, UndisturbedClosed

LEMMA UndisturbedRollback ==
  ASSUME Undisturbed, Rollback, Remember
  PROVE  Undisturbed'
<1>1. /\ UNCHANGED <<standing, checks, payout>>
      /\ paying' \subseteq paying /\ checking' \subseteq checking /\ setting' \subseteq setting
  BY DEF Rollback
<1> QED
  BY <1>1, UndisturbedReads

LEMMA AloneInit == MCInit => AloneInv
<1> SUFFICES ASSUME MCInit PROVE AloneInv
  OBVIOUS
<1>1. IInv /\ alone = TRUE
  BY InitIInv DEF MCInit
<1>2. paying = {} /\ checking = {} /\ setting = {}
  BY DEF MCInit, Init
<1>3. FinitelyOpen /\ Open <= 1
  BY <1>2, FS_EmptySet DEF FinitelyOpen, Open
<1>4. Undisturbed
  BY <1>2 DEF Undisturbed, Explained, PausedExplained, WithheldExplained, MCInit, Init
<1> QED
  BY <1>1, <1>3, <1>4 DEF AloneInv

LEMMA AloneNextInv == AloneInv /\ [AloneNext]_<<vars, history>> => AloneInv'
<1> SUFFICES ASSUME AloneInv, [AloneNext]_<<vars, history>> PROVE AloneInv'
  OBVIOUS
<1>1. IInv /\ FinitelyOpen /\ alone \in BOOLEAN /\ [Next]_vars
  BY DEF AloneInv, AloneNext
<1>2. IInv' /\ FinitelyOpen'
  BY <1>1, NextIInv, FinitelyOpenNext
<1>3. CASE UNCHANGED <<vars, history>>
  <2>1. UNCHANGED <<standing, checks, payout, paying, checking, setting, alone, leftPending,
                    leftWithheld>>
    BY <1>3 DEF vars, txVars, history
  <2>2. alone => Undisturbed /\ Open' <= 1
    BY <2>1 DEF AloneInv, Undisturbed, Open
  <2>3. alone => Undisturbed'
    BY <2>1, <2>2, UndisturbedReads
  <2> QED
    BY <1>1, <1>2, <2>1, <2>2, <2>3 DEF AloneInv
<1>4. CASE AloneNext
  <2>1. /\ alone' \in BOOLEAN
        /\ alone' => alone /\ Open' <= 1 /\ (closed' # closed => Open = 0) /\ Remember
    BY <1>1, <1>4 DEF AloneNext
  <2> SUFFICES ASSUME alone' PROVE Undisturbed'
    BY <1>2, <2>1 DEF AloneInv
  <2>2. Next /\ Undisturbed /\ Open <= 1 /\ Open' <= 1 /\ Remember
    BY <1>4, <2>1 DEF AloneNext, AloneInv
  <2>3. OneOpen
    BY <1>1, <2>2, OpenOne
  <2>4. FinitelyOpen' /\ (Open <= 1)' => OneOpen'
    BY OpenOne, PTL
  <2>5. OneOpen'
    BY <1>2, <2>2, <2>4
  <2>6. ASSUME NEW p \in Periods, ClosePeriod(p) PROVE Undisturbed'
    <3>1. closed' # closed
      BY <2>6 DEF ClosePeriod
    <3>2. Cardinality(paying) + Cardinality(checking) + Cardinality(setting) = 0
      BY <2>1, <3>1 DEF Open
    <3>3. paying = {} /\ checking = {} /\ setting = {}
      <4>1. /\ Cardinality(paying) \in Nat /\ Cardinality(checking) \in Nat
            /\ Cardinality(setting) \in Nat
        BY <1>1, AtMostOne DEF FinitelyOpen
      <4>2. Cardinality(paying) = 0 /\ Cardinality(checking) = 0 /\ Cardinality(setting) = 0
        BY <3>2, <4>1
      <4> QED
        BY <1>1, <4>2, AtMostOne DEF FinitelyOpen
    <3> QED
      BY <1>1, <2>2, <2>6, <3>3, UndisturbedClosePeriod
  <2>7. CASE \E S \in SUBSET Grades : BeginPayment(S)
    BY <1>1, <2>2, <2>7, UndisturbedBeginPayment
  <2>8. CASE \E x \in paying : FinishPayment(x)
    BY <1>1, <2>2, <2>3, <2>8, UndisturbedFinishPayment
  <2>9. CASE \E e \in Experts : BeginCheck(e)
    BY <1>1, <2>2, <2>5, <2>9, UndisturbedBeginCheck
  <2>10. CASE \E x \in checking : PassCheck(x) \/ FailCheck(x) \/ FinishFailed(x)
    BY <1>1, <2>2, <2>3, <2>10, UndisturbedPassCheck, UndisturbedFailCheck,
       UndisturbedFinishFailed
  <2>11. CASE \E e \in Experts, to \in Settable : BeginSetting(e, to)
    BY <1>1, <2>2, <2>11, UndisturbedBeginSetting
  <2>12. CASE \E x \in setting : FinishSetting(x)
    BY <1>1, <2>2, <2>3, <2>12, UndisturbedFinishSetting
  <2>13. CASE Rollback
    BY <2>2, <2>13, UndisturbedRollback
  <2> QED
    BY <2>2, <2>6, <2>7, <2>8, <2>9, <2>10, <2>11, <2>12, <2>13 DEF Next
<1> QED
  BY <1>3, <1>4

LEMMA AloneHolds == AloneSpec => []AloneInv
BY AloneInit, AloneNextInv, PTL DEF AloneSpec

\* AlonePausedWithheld: as long as transactions do not overlap, a paused expert has nothing
\* pending but what was pending before an admin paused them (create_for_grade, enforce,
\* set_status).
THEOREM AlonePausesWithhold == AloneSpec => []AlonePausedWithheld
<1>1. AloneInv => AlonePausedWithheld
  BY DEF AloneInv, Undisturbed, Explained, AlonePausedWithheld
<1> QED
  BY <1>1, AloneHolds, PTL

\* AloneWithheldPaused: as long as transactions do not overlap, an expert who is not paused
\* has nothing withheld but what they have left behind on the way from paused to inactive
\* (release_withheld, set_status).
THEOREM AloneNothingLeftBehind == AloneSpec => []AloneWithheldPaused
<1>1. AloneInv => AloneWithheldPaused
  BY DEF AloneInv, Undisturbed, Explained, AloneWithheldPaused
<1> QED
  BY <1>1, AloneHolds, PTL

\* A finished failure leaves its expert paused when the rate it has read is low.
LEMMA FinishFailedPauses ==
  ASSUME IInv, Undisturbed, NEW x \in checking, FinishFailed(x), LowRate(checks'[x.expert])
  PROVE  standing'[x.expert] = "paused"
<1>1. standing \in [Experts -> Standings] /\ x \in CheckTx
  BY IInvParts DEF TypeOK
<1>2. /\ x.rate # "unread" /\ checks' = WithResult(checks, x, "fail")
      /\ standing' = IF x.rate = "low" /\ x.seen # "paused"
                     THEN [standing EXCEPT ![x.expert] = "paused"] ELSE standing
  BY DEF FinishFailed
<1>3. x.seen = standing[x.expert] /\ x.rate = RateAfter(x)
  BY <1>2 DEF Undisturbed
<1>4. x.rate = "low"
  BY <1>2, <1>3 DEF RateAfter
<1> QED
  BY <1>1, <1>2, <1>3, <1>4 DEF CheckTx

\* Only the end of a failed check turns an open result into a failure.
LEMMA FailureFinishes ==
  ASSUME IInv, [Next]_vars, NEW e \in Experts, NEW i \in DOMAIN checks[e],
         checks[e][i] = "open", checks'[e][i] = "fail"
  PROVE  \E x \in checking : FinishFailed(x) /\ x.expert = e
<1>1. /\ checks \in [Experts -> Seq(Results)]
      /\ checking \subseteq CheckTx
  BY IInvParts DEF TypeOK, Results
<1>2. checks # checks'
  OBVIOUS
<1>3. ASSUME NEW f \in Experts, BeginCheck(f) PROVE FALSE
  <2>1. checks' = [checks EXCEPT ![f] = Append(@, "open")]
    BY <1>3 DEF BeginCheck
  <2>2. f = e
    BY <1>1, <2>1
  <2>3. checks'[e] = Append(checks[e], "open")
    BY <1>1, <2>1, <2>2
  <2>4. Append(checks[e], "open")[i] = checks[e][i]
    BY <1>1, AppendProperties, LenProperties DEF Results
  <2> QED
    BY <2>3, <2>4
<1>4. ASSUME NEW x \in checking, PassCheck(x) PROVE FALSE
  <2>1. checks' = [checks EXCEPT ![x.expert][x.slot] = "pass"]
    BY <1>4 DEF PassCheck, WithResult
  <2>2. x.expert \in Experts /\ checks[e] \in Seq(Results)
    BY <1>1 DEF CheckTx
  <2>3. checks'[e] = IF x.expert = e THEN [checks[e] EXCEPT ![x.slot] = "pass"] ELSE checks[e]
    BY <1>1, <2>1, <2>2
  <2> QED
    BY <2>2, <2>3
<1>5. ASSUME NEW x \in checking, FinishFailed(x) PROVE x.expert = e
  <2>1. checks' = [checks EXCEPT ![x.expert][x.slot] = "fail"] /\ x.expert \in Experts
    BY <1>1, <1>5 DEF FinishFailed, WithResult, CheckTx
  <2> QED
    BY <1>1, <2>1
<1> QED
  BY <1>2, <1>3, <1>4, <1>5 DEF Next, vars, txVars, BeginPayment, FinishPayment, ClosePeriod,
     FailCheck, BeginSetting, FinishSetting, Rollback

\* AloneLowRatePauses: as long as transactions do not overlap, a failed check that leaves
\* the rolling rate below the threshold leaves its expert paused (enforce).
THEOREM AloneLowRateAlwaysPauses == AloneSpec => AloneLowRatePauses
<1> DEFINE Pauses ==
             alone' => \A e \in Experts :
               /\ \E i \in DOMAIN checks[e] : checks[e][i] = "open" /\ checks'[e][i] = "fail"
               /\ LowRate(checks'[e])
               => standing'[e] = "paused"
<1>1. AloneInv /\ [AloneNext]_<<vars, history>> => [Pauses]_vars
  <2> SUFFICES ASSUME AloneInv, [AloneNext]_<<vars, history>>, alone', vars' # vars,
                      NEW e \in Experts, NEW i \in DOMAIN checks[e],
                      checks[e][i] = "open", checks'[e][i] = "fail", LowRate(checks'[e])
               PROVE  standing'[e] = "paused"
    OBVIOUS
  <2>1. AloneNext /\ alone /\ [Next]_vars
    BY DEF AloneNext
  <2>2. IInv /\ Undisturbed
    BY <2>1 DEF AloneInv
  <2>3. PICK x \in checking : FinishFailed(x) /\ x.expert = e
    BY <2>1, <2>2, FailureFinishes
  <2> QED
    BY <2>2, <2>3, FinishFailedPauses
<1>2. AloneSpec => [][Pauses]_vars
  BY <1>1, AloneHolds, PTL DEF AloneSpec
<1> QED
  BY <1>2 DEF AloneLowRatePauses

\* The instances that TLC explores are behaviours of AloneSpec.
LEMMA InstancesAreAlone == MCSpec => AloneSpec
<1>1. [MCNext]_<<vars, history>> => [AloneNext]_<<vars, history>>
  BY DEF MCNext
<1> QED
  BY <1>1, PTL DEF MCSpec, AloneSpec

-----------------------------------------------------------------------------
(* The books.                                                              *)

\* Statements are finitely many: one is closed at a time.
FinitelyClosed == IsFiniteSet(closed)

LEMMA ClosedFinite == Spec => []FinitelyClosed
<1>1. Init => FinitelyClosed
  BY FS_EmptySet DEF Init, FinitelyClosed
<1>2. FinitelyClosed /\ [Next]_vars => FinitelyClosed'
  <2> SUFFICES ASSUME FinitelyClosed, [Next]_vars PROVE FinitelyClosed'
    OBVIOUS
  <2>1. ASSUME NEW p \in Periods, ClosePeriod(p) PROVE FinitelyClosed'
    BY <2>1, FS_AddElement DEF ClosePeriod, FinitelyClosed
  <2>2. CASE UNCHANGED closed
    BY <2>2 DEF FinitelyClosed
  <2> QED
    BY <2>1, <2>2 DEF Next, vars, BeginPayment, FinishPayment, BeginCheck, PassCheck,
       FailCheck, FinishFailed, BeginSetting, FinishSetting, Rollback
<1> QED
  BY <1>1, <1>2, PTL DEF Spec

\* The amounts of finitely many payouts.
LEMMA GradesFinite ==
  /\ \A g \in Grades : Amount[g] \in Int
  /\ \A S \in SUBSET Grades : IsFiniteSet(S) /\ Cents(S) \in Int
<1>1. \A g \in Grades : Amount[g] \in Int
  BY AmountAssumption DEF AmountAssumption
<1>2. \A S \in SUBSET Grades : IsFiniteSet(S)
  BY AmountAssumption, FS_Subset DEF AmountAssumption
<1>3. \A S \in SUBSET Grades : Cents(S) \in Int
  BY <1>1, <1>2, SumType DEF Cents
<1> QED
  BY <1>1, <1>2, <1>3

\* The row of the ledger that a payout is counted in, and the payouts of a row.
RowOf(g)   == [expert |-> Author[g], status |-> payout[g],
               totals |-> Totals({h \in Created : Author[h] = Author[g] /\ payout[h] = payout[g]})]
InRow(r)   == {g \in Created : RowOf(g) = r}

LEMMA RowsOfLedger ==
  /\ LedgerRows = {RowOf(g) : g \in Created}
  /\ IsFiniteSet(LedgerRows)
<1> DEFINE Key == {<<Author[g], payout[g]>> : g \in Created}
           Row(k) == [expert |-> k[1], status |-> k[2],
                      totals |-> Totals({g \in Created : Author[g] = k[1] /\ payout[g] = k[2]})]
<1>1. \A g \in Created : Row(<<Author[g], payout[g]>>) = RowOf(g)
  BY DEF RowOf
<1>2. LedgerRows = {Row(k) : k \in Key}
  BY DEF LedgerRows
<1>3. LedgerRows = {RowOf(g) : g \in Created}
  <2> HIDE DEF Row
  <2> QED
    BY <1>1, <1>2
<1>4. IsFiniteSet(LedgerRows)
  <2> DEFINE f == [g \in Created |-> RowOf(g)]
  <2>1. LedgerRows = {f[g] : g \in Created}
    BY <1>3
  <2>2. IsFiniteSet(Created)
    BY GradesFinite DEF Created
  <2> HIDE DEF f
  <2> QED
    BY <2>1, <2>2, FiniteImage
<1> QED
  BY <1>3, <1>4

\* A row says how many payouts it counts, and their money.
LEMMA RowCounts ==
  ASSUME NEW r \in LedgerRows
  PROVE  /\ r.totals.payout_count = Cardinality(InRow(r))
         /\ r.totals.total_cents = Cents(InRow(r))
<1>1. PICK g \in Created : r = RowOf(g)
  BY RowsOfLedger
<1>2. InRow(r) = {h \in Created : Author[h] = Author[g] /\ payout[h] = payout[g]}
  <2>1. \A h \in Created : RowOf(h) = r => Author[h] = Author[g] /\ payout[h] = payout[g]
    BY <1>1 DEF RowOf
  <2>2. \A h \in Created : Author[h] = Author[g] /\ payout[h] = payout[g] => RowOf(h) = r
    BY <1>1 DEF RowOf
  <2> QED
    BY <2>1, <2>2 DEF InRow
<1> QED
  BY <1>1, <1>2 DEF RowOf, Totals

\* Money of a status: the ledger's rows add up to its payouts.
LEMMA StatusTotal ==
  ASSUME NEW s \in PayoutStates \ {"none"}
  PROVE  TotalsByStatus[s] = Cents({g \in Created : payout[g] = s})
<1> DEFINE S == {g \in Created : payout[g] = s}
           K == {r \in LedgerRows : r.status = s}
           t == [r \in LedgerRows |-> r.totals.total_cents]
           k == [g \in Created |-> RowOf(g)]
<1>1. TotalsByStatus[s] = SumFunctionOnSet(t, K)
  BY DEF TotalsByStatus
<1>2. IsFiniteSet(S) /\ \A g \in S : Amount[g] \in Int
  BY GradesFinite DEF Created
<1>3. IsFiniteSet(K)
  BY RowsOfLedger, FS_Subset
<1>4. Sorts(k, S, K)
  BY RowsOfLedger DEF RowOf, Sorts
<1>5. \A r \in K : t[r] = SumFunctionOnSet(Amount, Class(S, k, r))
  <2> TAKE r \in K
  <2>1. Class(S, k, r) = InRow(r)
    BY DEF Class, InRow, RowOf
  <2>2. t[r] = Cents(InRow(r))
    BY RowCounts
  <2> QED
    BY <2>1, <2>2 DEF Cents
<1>6. SumFunctionOnSet(Amount, S) = SumFunctionOnSet(t, K)
  <2> HIDE DEF S, K, t, k
  <2> QED
    BY <1>2, <1>3, <1>4, <1>5, SumByClasses
<1> QED
  BY <1>1, <1>6 DEF Cents

\* The number of payouts is that of the rows together.
LEMMA CountTotal ==
  Cardinality(Created) = SumFunction([r \in LedgerRows |-> r.totals.payout_count])
<1> DEFINE t == [r \in LedgerRows |-> r.totals.payout_count]
           k == [g \in Created |-> RowOf(g)]
<1>1. IsFiniteSet(Created) /\ IsFiniteSet(LedgerRows)
  BY GradesFinite, RowsOfLedger DEF Created
<1>2. Sorts(k, Created, LedgerRows)
  BY RowsOfLedger DEF Sorts
<1>3. \A r \in LedgerRows : t[r] = Cardinality(Class(Created, k, r))
  <2> TAKE r \in LedgerRows
  <2>1. Class(Created, k, r) = InRow(r)
    BY DEF Class, InRow
  <2> QED
    BY <2>1, RowCounts
<1>4. Cardinality(Created) = SumFunctionOnSet(t, LedgerRows)
  <2> HIDE DEF k, t
  <2> QED
    BY <1>1, <1>2, <1>3, CountByClasses
<1>5. DOMAIN t = LedgerRows
  OBVIOUS
<1> QED
  BY <1>4, <1>5 DEF SumFunction

\* The ledger's grand total is that of its three statuses.
LEMMA GrandTotalOfStatuses ==
  GrandTotal = TotalsByStatus["paid"] + (TotalsByStatus["pending"] + TotalsByStatus["withheld"])
<1> DEFINE f == TotalsByStatus
<1>1. PayoutStates \ {"none"} = {"pending", "withheld", "paid"}
  BY DEF PayoutStates
<1>2. \A s \in {"pending", "withheld", "paid"} : f[s] \in Int
  BY <1>1, StatusTotal, GradesFinite DEF Created
<1>3. GrandTotal = SumFunctionOnSet(f, {"pending", "withheld", "paid"})
  BY <1>1 DEF GrandTotal, SumFunction, TotalsByStatus
<1> HIDE DEF f
<1>4. IsFiniteSet({"pending", "withheld", "paid"}) /\ IsFiniteSet({"pending", "withheld"})
  <2>1. IsFiniteSet({"pending"})
    BY FS_Singleton
  <2>2. IsFiniteSet({"pending"} \cup {"withheld"})
    BY <2>1, FS_AddElement
  <2>3. IsFiniteSet(({"pending"} \cup {"withheld"}) \cup {"paid"})
    BY <2>2, FS_AddElement
  <2>4. /\ {"pending"} \cup {"withheld"} = {"pending", "withheld"}
        /\ ({"pending"} \cup {"withheld"}) \cup {"paid"} = {"pending", "withheld", "paid"}
    OBVIOUS
  <2> QED
    BY <2>2, <2>3, <2>4
<1>5. SumFunctionOnSet(f, {"pending", "withheld", "paid"}) =
        f["paid"] + SumFunctionOnSet(f, {"pending", "withheld", "paid"} \ {"paid"})
  BY <1>2, <1>4, SumTake
<1>6. {"pending", "withheld", "paid"} \ {"paid"} = {"pending", "withheld"}
  OBVIOUS
<1>7. SumFunctionOnSet(f, {"pending", "withheld"}) =
        f["pending"] + SumFunctionOnSet(f, {"pending", "withheld"} \ {"pending"})
  BY <1>2, <1>4, SumTake
<1>8. {"pending", "withheld"} \ {"pending"} = {"withheld"}
  OBVIOUS
<1>9. SumFunctionOnSet(f, {"withheld"}) = f["withheld"]
  BY <1>2, SumFew
<1> QED
  BY <1>3, <1>5, <1>6, <1>7, <1>8, <1>9 DEF f

\* What is paid is in the closed periods.
LEMMA PaidTotal ==
  ASSUME IInv, FinitelyClosed
  PROVE  TotalsByStatus["paid"] =
           SumFunction([p \in closed |-> PeriodTotals(p).payouts.total_cents])
<1> DEFINE S == {g \in Created : payout[g] = "paid"}
           t == [p \in closed |-> PeriodTotals(p).payouts.total_cents]
<1>1. TotalsByStatus["paid"] = SumFunctionOnSet(Amount, S)
  BY StatusTotal DEF PayoutStates, Cents
<1>2. IsFiniteSet(S) /\ \A g \in S : Amount[g] \in Int
  BY GradesFinite DEF Created
<1>3. PaidHasPeriod /\ PeriodIsClosed /\ closed \subseteq Periods
  BY IInvParts DEF TypeOK
<1>4. Sorts(period, S, closed)
  BY <1>3 DEF Sorts, Created, PaidHasPeriod, PeriodIsClosed
<1>5. \A p \in closed : t[p] = SumFunctionOnSet(Amount, Class(S, period, p))
  <2> TAKE p \in closed
  <2>1. Class(S, period, p) = {g \in Grades : period[g] = p}
    BY <1>3 DEF Class, Created, PaidHasPeriod
  <2>2. t[p] = Cents({g \in Grades : period[g] = p})
    BY DEF PeriodTotals, Totals
  <2> QED
    BY <2>1, <2>2 DEF Cents
<1>6. SumFunctionOnSet(Amount, S) = SumFunctionOnSet(t, closed)
  <2> HIDE DEF S, t
  <2> QED
    BY <1>2, <1>4, <1>5, SumByClasses DEF FinitelyClosed
<1>7. DOMAIN t = closed
  OBVIOUS
<1> QED
  BY <1>1, <1>6, <1>7 DEF SumFunction

\* The lines of a statement add up to its total.
LEMMA LinesTotal ==
  ASSUME IInv, NEW p \in closed
  PROVE  PeriodTotals(p).payouts.total_cents =
           SumFunction([r \in PeriodLines(p) |-> r.amount_cents])
<1> DEFINE S == {g \in Grades : period[g] = p}
           L == {g \in Created : period[g] = p}
           Line(g) == [payout_id |-> g, expert |-> Author[g], amount_cents |-> Amount[g]]
           k == [g \in L |-> Line(g)]
           t == [r \in PeriodLines(p) |-> r.amount_cents]
<1>1. L = S
  BY IInvParts DEF TypeOK, Created, PaidHasPeriod
<1>2. PeriodTotals(p).payouts.total_cents = SumFunctionOnSet(Amount, L)
  BY <1>1 DEF PeriodTotals, Totals, Cents
<1>3. IsFiniteSet(L) /\ \A g \in L : Amount[g] \in Int
  BY GradesFinite DEF Created
<1>4. PeriodLines(p) = {Line(g) : g \in L} /\ Sorts(k, L, PeriodLines(p))
  BY DEF PeriodLines, Sorts
<1>5. IsFiniteSet(PeriodLines(p))
  <2>1. PeriodLines(p) = {k[g] : g \in L}
    BY <1>4
  <2> HIDE DEF k, L
  <2> QED
    BY <1>3, <2>1, FiniteImage
<1>6. \A r \in PeriodLines(p) : t[r] = SumFunctionOnSet(Amount, Class(L, k, r))
  <2> TAKE r \in PeriodLines(p)
  <2>1. PICK g \in L : r = Line(g)
    BY <1>4
  <2>2. Class(L, k, r) = {g}
    BY <2>1 DEF Class
  <2>3. t[r] = Amount[g]
    BY <2>1
  <2>4. SumFunctionOnSet(Amount, {g}) = Amount[g]
    BY <1>3, SumFew
  <2> QED
    BY <2>2, <2>3, <2>4
<1>7. SumFunctionOnSet(Amount, L) = SumFunctionOnSet(t, PeriodLines(p))
  <2> DEFINE K == PeriodLines(p)
  <2>1. IsFiniteSet(K) /\ Sorts(k, L, K)
    BY <1>3, <1>4, <1>5
  <2>2. \A r \in K : t[r] = SumFunctionOnSet(Amount, Class(L, k, r))
    BY <1>6
  <2>3. SumFunctionOnSet(Amount, L) = SumFunctionOnSet(t, K)
    <3> HIDE DEF L, K, k, t
    <3> QED
      BY <1>3, <2>1, <2>2, SumByClasses
  <2> QED
    BY <2>3
<1>8. DOMAIN t = PeriodLines(p)
  OBVIOUS
<1> QED
  BY <1>2, <1>7, <1>8 DEF SumFunction

\* The reports of the payouts agree, in every state and for any number of grades, experts
\* and periods: ledger, period_totals, period_csv and _period_status tell one story.
THEOREM BooksAlwaysBalance == Spec => []BooksBalance
<1>1. IInv /\ FinitelyClosed => BooksBalance
  <2> SUFFICES ASSUME IInv, FinitelyClosed PROVE BooksBalance
    OBVIOUS
  <2>1. TypeOK /\ PaidHasPeriod
    BY IInvParts
  <2>2. Unbilled("pending").total_cents = TotalsByStatus["pending"]
    <3>1. {g \in Created : period[g] = NoPeriod /\ payout[g] = "pending"}
            = {g \in Created : payout[g] = "pending"}
      BY <2>1 DEF Created, PaidHasPeriod
    <3> QED
      BY <3>1, StatusTotal DEF Unbilled, Totals, PayoutStates
  <2>3. Unbilled("withheld").total_cents = TotalsByStatus["withheld"]
    <3>1. {g \in Created : period[g] = NoPeriod /\ payout[g] = "withheld"}
            = {g \in Created : payout[g] = "withheld"}
      BY <2>1 DEF Created, PaidHasPeriod
    <3> QED
      BY <3>1, StatusTotal DEF Unbilled, Totals, PayoutStates
  <2>4. \A s \in {"paid", "pending", "withheld"} : TotalsByStatus[s] \in Int
    BY StatusTotal, GradesFinite DEF PayoutStates, Created
  <2>5. GrandTotal = TotalsByStatus["paid"] + Unbilled("pending").total_cents
                       + Unbilled("withheld").total_cents
    BY <2>2, <2>3, <2>4, GrandTotalOfStatuses
  <2> QED
    BY <2>5, PaidTotal, LinesTotal, CountTotal DEF BooksBalance
<1> QED
  BY <1>1, LedgerInvariant, ClosedFinite, PTL
==============================================================================
