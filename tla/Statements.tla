------------------------------ MODULE Statements ------------------------------
(***************************************************************************)
(* What the payout periods promise to the accountant: a grade is paid in   *)
(* one statement at most, and a statement never changes once its period is *)
(* closed.  This is the abstract specification that the ledger implements; *)
(* nothing is said here of experts, pauses or withheld money.              *)
(***************************************************************************)
CONSTANTS Grades, Periods

VARIABLES
  closed,     \* the periods that have been closed
  statement   \* the grades each period has paid

Init == closed = {} /\ statement = [p \in Periods |-> {}]

Unpaid == {g \in Grades : \A p \in Periods : g \notin statement[p]}

\* Period p is closed, and pays some of the grades that no period has paid.
Close(p) ==
  /\ p \notin closed
  /\ closed' = closed \cup {p}
  /\ \E paid \in SUBSET Unpaid : statement' = [statement EXCEPT ![p] = paid]

Next == \E p \in Periods : Close(p)

Spec == Init /\ [][Next]_<<closed, statement>>
==============================================================================
