----------------------------- MODULE PayoutReports -----------------------------
(***************************************************************************)
(* What is read of the payouts: the totals and the CSV of a statement, the *)
(* ledger per expert and status, and the money that no statement has yet.  *)
(* (services/payouts.py, the period status of services/ops.py.)  Totals    *)
(* are not stored, so each report is a value of one state.                 *)
(***************************************************************************)
EXTENDS Ledger, Functions

CONSTANT Amount  \* payouts.amount_cents, as rate_for finds it for each grade

AmountAssumption == Amount \in [Grades -> Nat] /\ IsFiniteSet(Grades)

ASSUME AmountAssumption

Created  == {g \in Grades : payout[g] # "none"}
Cents(S) == SumFunctionOnSet(Amount, S)

\* What is reported of a set of payouts.
Totals(S) == [payout_count |-> Cardinality(S), total_cents |-> Cents(S)]

\* period_totals, of a closed period.
PeriodTotals(p) ==
  LET S == {g \in Grades : period[g] = p}
  IN [payouts |-> Totals(S), expert_count |-> Cardinality({Author[g] : g \in S})]

\* period_csv: one line per payout, with its expert and amount.
PeriodLines(p) ==
  {[payout_id |-> g, expert |-> Author[g], amount_cents |-> Amount[g]] :
     g \in {h \in Created : period[h] = p}}

\* ledger: the payouts of each expert by status, without the empty groups, and the sums
\* of these rows.
LedgerRows ==
  {[expert |-> k[1], status |-> k[2],
    totals |-> Totals({g \in Created : Author[g] = k[1] /\ payout[g] = k[2]})] :
     k \in {<<Author[g], payout[g]>> : g \in Created}}

TotalsByStatus ==
  [s \in PayoutStates \ {"none"} |->
     SumFunctionOnSet([r \in LedgerRows |-> r.totals.total_cents],
                      {r \in LedgerRows : r.status = s})]

GrandTotal == SumFunction(TotalsByStatus)

\* Faulty variant of Unbilled: the payouts of closed periods are not left out, nor is
\* the status told apart.
UnbilledAny(s) == Totals(Created)

\* _period_status: the payouts of status s that are in no statement.
Unbilled(s) == Totals({g \in Created : period[g] = NoPeriod /\ payout[g] = s})

-----------------------------------------------------------------------------
\* The books balance, whatever pauses, reinstatements and closings overlap: the ledger's
\* paid money is that of the statements, line by line, and what is in no statement is
\* exactly what the overview calls unbilled or withheld (ledger, period_totals,
\* period_csv, _period_status).
BooksBalance ==
  /\ TotalsByStatus["paid"] =
       SumFunction([p \in closed |-> PeriodTotals(p).payouts.total_cents])
  /\ \A p \in closed : PeriodTotals(p).payouts.total_cents =
       SumFunction([r \in PeriodLines(p) |-> r.amount_cents])
  /\ GrandTotal = TotalsByStatus["paid"] + Unbilled("pending").total_cents
                    + Unbilled("withheld").total_cents
  /\ Cardinality(Created) = SumFunction([r \in LedgerRows |-> r.totals.payout_count])
==============================================================================
