------------------------------- MODULE MCLedger -------------------------------
(***************************************************************************)
(* Instances of Ledger and its reports for TLC.  Expert "ann" writes the   *)
(* grades "a1" and "a2", expert "bob" the grade "b1".                      *)
(*                                                                         *)
(* Some promises hold only as long as transactions do not overlap, and     *)
(* admins move experts in ways that leave money where it was.  History     *)
(* variables remember both, and one run checks what holds then beside what *)
(* holds always.                                                           *)
(***************************************************************************)
EXTENDS PayoutReports

CONSTANT MaxOverlappingChecks  \* bound: as MaxChecks, once transactions have overlapped

VARIABLES
  alone,        \* no two transactions have overlapped
  leftPending,  \* what was pending when an admin paused its author, who still is paused
  leftWithheld  \* what was withheld when its author went from paused to inactive, and is

history == <<alone, leftPending, leftWithheld>>

MCAuthor == [g \in Grades |-> IF g = "b1" THEN "bob" ELSE "ann"]

\* Each sum of amounts tells which ones it is made of.
MCAmount == [g \in Grades |-> CASE g = "a1" -> 1 [] g = "a2" -> 2 [] OTHER -> 4]

Open == Cardinality(paying) + Cardinality(checking) + Cardinality(setting)

MCInit == Init /\ alone = TRUE /\ leftPending = {} /\ leftWithheld = {}

\* An admin's pause leaves what is pending, and a step from paused to inactive what is
\* withheld: set_status moves payouts only from paused to active.
Remember ==
  /\ leftPending' =
       {g \in Grades : /\ standing'[Author[g]] = "paused"
                       /\ IF standing[Author[g]] = "paused" THEN g \in leftPending
                          ELSE setting' # setting /\ payout[g] = "pending"}
  /\ leftWithheld' =
       {g \in Grades : /\ payout'[g] = "withheld"
                       /\ \/ g \in leftWithheld
                          \/ standing[Author[g]] = "paused" /\ standing'[Author[g]] = "inactive"}

\* A step of the ledger, and what it makes of the history variables.
AloneNext ==
  /\ Next
  /\ alone' = (alone /\ Open' <= 1 /\ (closed' # closed => Open = 0))
  /\ IF alone' THEN Remember ELSE leftPending' = {} /\ leftWithheld' = {}

AloneSpec == MCInit /\ [][AloneNext]_<<vars, history>>

-----------------------------------------------------------------------------
(* Bounds.                                                                 *)

\* Only ann grades golden tasks, and admins set only her standing.
Checked ==
  /\ \A e \in Experts \ {"ann"} : checks'[e] = <<>>
  /\ \A x \in setting' : x.expert = "ann"

\* Once transactions have overlapped, only ann and her grades take part.
Narrow ==
  /\ \A e \in Experts : Len(checks'[e]) <= MaxOverlappingChecks
  /\ \A x \in paying' : \A g \in x.grades : Author[g] = "ann"
  /\ \A g \in Grades : Author[g] # "ann" => payout'[g] = "none"

MCNext == AloneNext /\ Checked /\ (alone' \/ Narrow)

MCSpec == MCInit /\ [][MCNext]_<<vars, history>>

-----------------------------------------------------------------------------
\* What a paused expert has pending was pending before an admin paused them.
PausedExplained ==
  \A g \in Grades :
    standing[Author[g]] = "paused" /\ payout[g] = "pending" => g \in leftPending

\* What an expert who is not paused has withheld was left behind on the way to inactive.
WithheldExplained ==
  \A g \in Grades :
    payout[g] = "withheld" /\ standing[Author[g]] # "paused" => g \in leftWithheld

\* As long as transactions do not overlap, a statement closed now pays a paused expert only
\* what they had earned before an admin paused them: a failed check withholds all that is
\* pending, and whoever has paused them, what is approved since then is withheld (enforce,
\* create_for_grade, set_status).
AlonePausedWithheld == alone => PausedExplained

\* As long as transactions do not overlap, the one way to have money withheld without being
\* paused is the step from paused to inactive, which releases nothing: every other way out
\* of a pause, and every other sequence of them, leaves nothing behind (release_withheld,
\* set_status).
AloneWithheldPaused == alone => WithheldExplained

\* As long as transactions do not overlap, a failed check that leaves the rolling rate
\* below the threshold leaves its expert paused (enforce).
AloneLowRatePauses ==
  [][alone' => \A e \in Experts :
       /\ \E i \in DOMAIN checks[e] : checks[e][i] = "open" /\ checks'[e][i] = "fail"
       /\ LowRate(checks'[e])
       => standing'[e] = "paused"]_vars
==============================================================================
