------------------------------ MODULE Delivery ------------------------------
(***************************************************************************)
(* The export of the dataset in versions.  (services/delivery.py with an   *)
(* S3 bucket, and its routes.)                                             *)
(*                                                                         *)
(* An export selects the rows, loads the experts of their grades, reads    *)
(* the highest version, puts an object into the bucket and commits a row   *)
(* of deliveries.  No lock is held between these steps, and the bucket     *)
(* takes no part in the transaction: an export may fail or the process     *)
(* may crash between any two of them, and what has been put stays.         *)
(*                                                                         *)
(* Of the task flow only its promise is used: the rows are those of        *)
(* Dataset.  A checksum is modelled by the body it is the hash of.         *)
(***************************************************************************)
EXTENDS Integers, FiniteSets

CONSTANTS
  Tasks,
  Experts,
  Tiers,
  MaxVersions,  \* bound: the version after which no export begins
  MaxExports    \* bound: exports in flight at the same time

DeliveryAssumption ==
  /\ Tiers # {}
  /\ MaxVersions \in Nat /\ MaxExports \in Nat

VARIABLES
  rows,        \* the approved grades to deliver, as <<task, expert>>
  tier,        \* experts.tier
  exports,     \* the exports in flight
  objects,     \* the bucket: the content under each name
  deliveries   \* the table, by its unique column version, with its history: the newest
               \* version when the export of each began, which guards nothing

vars == <<rows, tier, exports, objects, deliveries>>

D == INSTANCE Dataset

Rows   == Tasks \X Experts
\* The tier is the one field of a row that can still change.
Bodies == UNION {[S -> Tiers] : S \in SUBSET Rows}

\* An export, in the order of its steps; began is the newest version at its beginning.
ExportTx == [id : 1 .. MaxExports, step : {"selected", "built", "numbered", "stored"},
             began : Nat, rows : SUBSET Rows, body : Bodies, version : Nat]

\* Faulty variant of Name: the checksum is no part of it.
NameOfVersion(version, checksum) == [version |-> version, checksum |-> <<>>]

\* The object's name; the twelve digits of the checksum in it are taken to be unique.
Name(version, checksum) == [version |-> version, checksum |-> checksum]

Newest ==
  CHOOSE v \in DOMAIN deliveries \cup {0} : \A w \in DOMAIN deliveries : w <= v

\* Function f with value v at x.
With(f, x, v) == [y \in DOMAIN f \cup {x} |-> IF y = x THEN v ELSE f[y]]

TypeOK ==
  /\ rows \subseteq Rows
  /\ tier \in [Experts -> Tiers]
  /\ exports \subseteq ExportTx
  /\ \A n \in DOMAIN objects : objects[n] \in Bodies
  /\ DOMAIN deliveries \subseteq Nat
  /\ \A v \in DOMAIN deliveries :
       /\ deliveries[v].checksum \in Bodies
       /\ deliveries[v].location \in DOMAIN objects
       /\ deliveries[v].began \in Nat

Init ==
  /\ D!Init
  /\ tier \in [Experts -> Tiers]
  /\ exports = {}
  /\ objects = <<>>
  /\ deliveries = <<>>

-----------------------------------------------------------------------------
(* The environment.                                                        *)

\* A grade is approved, or redelivered.
Approve(t, e) ==
  /\ D!Ship(t, e)
  /\ UNCHANGED <<tier, exports, objects, deliveries>>

\* Calibration moves an expert to another tier.
Move(e, new) ==
  /\ new # tier[e]
  /\ tier' = [tier EXCEPT ![e] = new]
  /\ UNCHANGED <<rows, exports, objects, deliveries>>

-----------------------------------------------------------------------------
(* An export.                                                              *)

\* Faulty variant of Selected: what has been delivered before is left out.
SelectedNew == rows \ UNION {DOMAIN deliveries[v].checksum : v \in DOMAIN deliveries}

\* The rows that _rows selects.
Selected == rows

Replace(x, y) == exports' = (exports \ {x}) \cup {y}

Select(i) ==
  /\ Newest < MaxVersions
  /\ \A x \in exports : x.id # i
  /\ exports' = exports \cup {[id |-> i, step |-> "selected", began |-> Newest,
                               rows |-> Selected, body |-> <<>>, version |-> 0]}
  /\ UNCHANGED <<rows, tier, objects, deliveries>>

\* The experts of the grades are loaded after the grades, each with the tier of now.
Build(x) ==
  /\ x.step = "selected"
  /\ Replace(x, [x EXCEPT !.step = "built", !.body = [r \in x.rows |-> tier[r[2]]]])
  /\ UNCHANGED <<rows, tier, objects, deliveries>>

Number(x) ==
  /\ x.step = "built"
  /\ Replace(x, [x EXCEPT !.step = "numbered", !.version = Newest + 1])
  /\ UNCHANGED <<rows, tier, objects, deliveries>>

\* _store: the put replaces what is stored under the name.
Store(x) ==
  /\ x.step = "numbered"
  /\ objects' = With(objects, Name(x.version, x.body), x.body)
  /\ Replace(x, [x EXCEPT !.step = "stored"])
  /\ UNCHANGED <<rows, tier, deliveries>>

Ready(x) == x.step = "stored"

\* The row is inserted and committed, unless another export has taken the version.
Commit(x) ==
  /\ Ready(x)
  /\ x.version \notin DOMAIN deliveries
  /\ deliveries' = With(deliveries, x.version,
                        [checksum |-> x.body, location |-> Name(x.version, x.body),
                         began |-> x.began])
  /\ exports' = exports \ {x}
  /\ UNCHANGED <<rows, tier, objects>>

\* The version is taken, the bucket does not answer, or the process crashes.
Fail(x) ==
  /\ exports' = exports \ {x}
  /\ UNCHANGED <<rows, tier, objects, deliveries>>

Next ==
  \/ \E t \in Tasks, e \in Experts : Approve(t, e)
  \/ \E e \in Experts, new \in Tiers : Move(e, new)
  \/ \E i \in 1 .. MaxExports : Select(i)
  \/ \E x \in exports :
       Build(x) \/ Number(x) \/ Store(x) \/ Commit(x) \/ Fail(x)

Spec == Init /\ [][Next]_vars

-----------------------------------------------------------------------------
(* Properties.                                                             *)

\* What GET /deliveries/{version}/verify reads under each version.
ReadBack == [v \in DOMAIN deliveries |-> objects[deliveries[v].location]]

A == INSTANCE Archive WITH archive <- ReadBack

\* The deliveries implement the archive: whatever overlaps or crashes, the versions are
\* numbered without gaps, and what is read under one never changes.
ArchiveSpec == A!Spec

\* The versions have no gap, and the version an export has taken leaves none.
Numbered ==
  /\ Newest \in Nat
  /\ DOMAIN deliveries = 1 .. Newest
  /\ \A x \in exports : x.step \in {"numbered", "stored"} => x.version \in 1 .. Newest + 1

\* A version is read back as its row describes it: the object is there before the row,
\* and whatever replaces it has the same content.
ReadsBack ==
  /\ \A x \in exports : x.step = "stored" => Name(x.version, x.body) \in DOMAIN objects
  /\ \A n \in DOMAIN objects : objects[n] = n.checksum
  /\ \A v \in DOMAIN deliveries : deliveries[v].location = Name(v, deliveries[v].checksum)

\* A version may lack rows of an older one, for an export that selects early may take its
\* number late; it then lacks only rows of versions that were committed while its own
\* export was under way.  What an export finds committed when it selects, it has (export).
LacksOnlyOverlapping ==
  \A v, w \in DOMAIN deliveries :
    v <= deliveries[w].began =>
      DOMAIN deliveries[v].checksum \subseteq DOMAIN deliveries[w].checksum

\* Of the rows that there are, an export has those of every version before it.
Complete ==
  /\ LacksOnlyOverlapping
  /\ \A v \in DOMAIN deliveries :
       DOMAIN deliveries[v].checksum \subseteq rows /\ deliveries[v].began < v
  /\ \A x \in exports :
       /\ x.began <= Newest
       /\ x.rows \subseteq rows
       /\ x.step # "selected" => DOMAIN x.body = x.rows
       /\ \A v \in 1 .. x.began : DOMAIN deliveries[v].checksum \subseteq x.rows

\* verify answers with a match for every version that is committed (verify), and a version
\* lacks rows of an overlapping one only (export).
IInv == TypeOK /\ Numbered /\ ReadsBack /\ Complete
==============================================================================
