------------------------------- MODULE Archive -------------------------------
(***************************************************************************)
(* What the deliveries promise to who reads them: the versions are         *)
(* numbered 1, 2, 3 and so on, and what is read under a version never      *)
(* changes.  This is the abstract specification that the delivery service  *)
(* implements with a table and an object store.                            *)
(***************************************************************************)
EXTENDS Sequences

CONSTANT Bodies  \* what a version may contain

VARIABLE archive  \* what is read under each version

Init == archive = <<>>

Publish(body) == archive' = Append(archive, body)

Next == \E body \in Bodies : Publish(body)

Spec == Init /\ [][Next]_archive
==============================================================================
