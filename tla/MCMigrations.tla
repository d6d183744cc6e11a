---------------------------- MODULE MCMigrations ----------------------------
(***************************************************************************)
(* What the scripts of the revisions do when nothing disturbs them: the    *)
(* part of the deploys that is a matter of five fixed scripts, which TLC   *)
(* evaluates statement by statement.  Module Migrations_proofs takes it    *)
(* from here to any number of hosts, rows, crashes and resets.             *)
(***************************************************************************)
EXTENDS Migrations

-----------------------------------------------------------------------------
(* A path: the upgrade or the downgrade (p) of an invocation that has read *)
(* version f; at version a of it, n statements of the next revision have   *)
(* run.                                                                    *)

Phases == {"upgrading", "downgrading"}

Script(p, a) == IF p = "upgrading" THEN Upgrade[a + 1] ELSE Downgrade[a]
Follows(p, a) == IF p = "upgrading" THEN a + 1 ELSE a - 1

\* The path from f passes version a, and a revision is left to run there.
Passes(p, f, a) == IF p = "upgrading" THEN f <= a ELSE a <= f
Ends(p, a)      == a = IF p = "upgrading" THEN Len(RevisionIds) ELSE 0
Goes(p, f, a)   == Passes(p, f, a) /\ ~Ends(p, a)

\* The statements that have run, each as the version it ran at and its place.
Behind(p, f, a, n) ==
  {q \in Versions \X (0 .. 40) :
     /\ Goes(p, f, q[1])
     /\ \/ q[1] = a /\ q[2] < n
        \/ q[1] # a /\ Passes(p, q[1], a) /\ q[2] < Len(Script(p, q[1]))}

At(p, q) == Script(p, q[1])[q[2] + 1]

\* The catalog that the transaction sees, the enums it has created and the tables it has
\* locked, the states it has converted rows from, and whether it has set the pins.
PathSees(p, a, n) ==
  IF n = 0 THEN SchemaOf(a) ELSE RunScript(SchemaOf(a), SubSeq(Script(p, a), 1, n))
PathMemo(p, f, a, n)  == UNION {At(p, q).enums : q \in Behind(p, f, a, n)}
PathLocks(p, f, a, n) ==
  UNION {Locked(PathSees(p, q[1], q[2]), At(p, q)) : q \in Behind(p, f, a, n)}
Converts(s)           == s.where # s.becomes
Converted(p, f, a, n) == {s.where : s \in {t \in {At(p, q) : q \in Behind(p, f, a, n)} : Converts(t)}}
PathPins(p, f, a, n)  == \E q \in Behind(p, f, a, n) : At(p, q).pins

-----------------------------------------------------------------------------
(* What holds of the scripts.                                              *)

AllStates      == {o[3] : o \in ModelValues}
StatesIn(e, c) == {v \in AllStates : Value(e, v) \in c}
VersionsIn(c)  == {o \in c : o[1] = "version"}

\* A statement of the path is accepted where it comes, if the rows let it, and leads on.
Runs(p, f, a, n) ==
  LET s    == Script(p, a)[n + 1]
      c    == PathSees(p, a, n)
      m    == PathMemo(p, f, a, n)
      b    == IF n + 1 = Len(Script(p, a)) THEN Follows(p, a) ELSE a
      k    == IF n + 1 = Len(Script(p, a)) THEN 0 ELSE n + 1
  IN /\ Added(c, m, s) \cap c = {} /\ Dropped(c, s) \subseteq c /\ Closed(After(c, m, s))
     /\ PathSees(p, b, k) = After(c, m, s)
     /\ PathMemo(p, f, b, k) = m \cup s.enums
     /\ PathLocks(p, f, b, k) = PathLocks(p, f, a, n) \cup Locked(c, s)
     /\ Converted(p, f, b, k) =
          Converted(p, f, a, n) \cup (IF Converts(s) THEN {s.where} ELSE {})
     /\ PathPins(p, f, b, k) <=> PathPins(p, f, a, n) \/ s.pins

\* A value goes only when no row has it any more.  What rows have been converted from
\* does not come back: their table is locked by then, as it is when the pins are set.
KeepsRows(p, f, a, n) ==
  LET s   == Script(p, a)[n + 1]
      c   == After(PathSees(p, a, n), PathMemo(p, f, a, n), s)
      was == Converted(p, f, a, n)
  IN /\ \A e \in {"task_status", "role"} : \A v \in StatesIn(e, SchemaOf(f)) \ was :
          /\ Table(IF e = "role" THEN "api_keys" ELSE "tasks") \in c => Value(e, v) \in c
          /\ v = s.where =>
               s.becomes \in StatesIn(e, SchemaOf(f))
                               \ (was \cup IF Converts(s) THEN {s.where} ELSE {})
     /\ s.where # "none"
     /\ s.becomes = "assigned" \/ s.pins => s.where = "assigned"

LocksRows(p, f, a, n) ==
  /\ StatesIn("task_status", SchemaOf(f)) \cap Converted(p, f, a, n) # {} =>
       "tasks" \in PathLocks(p, f, a, n)
  /\ StatesIn("role", SchemaOf(f)) \cap Converted(p, f, a, n) # {} =>
       "api_keys" \in PathLocks(p, f, a, n)
  /\ PathPins(p, f, a, n) => "tasks" \in PathLocks(p, f, a, n)

LeavesRows(p, f, a) ==
  \A e \in {"task_status", "role"} : \A v \in StatesIn(e, SchemaOf(f)) \ Converted(p, f, a, 0) :
    Table(IF e = "role" THEN "api_keys" ELSE "tasks") \in SchemaOf(a) => Value(e, v) \in SchemaOf(a)

\* Only the last statement of a revision moves the version, from where it was.
MovesLast(a, n) ==
  LET s == Upgrade[a + 1][n + 1]
  IN IF n + 1 < Len(Upgrade[a + 1])
     THEN VersionsIn(s.adds) = {} /\ VersionsIn(s.drops) = {}
     ELSE Stamp(a) = s.drops /\ ~s.lenient

ScriptsRun ==
  \A p \in Phases : \A f, a \in Versions : Goes(p, f, a) =>
    /\ Len(Script(p, a)) \in Nat \ {0}
    /\ \A n \in 0 .. Len(Script(p, a)) - 1 :
         /\ Runs(p, f, a, n) /\ KeepsRows(p, f, a, n) /\ LocksRows(p, f, a, n)
         /\ p = "upgrading" => MovesLast(a, n)

\* A path starts with nothing done; the upgrade that brings the pins sets them on the way.
PathsStart == \A p \in Phases : \A f \in Versions : Behind(p, f, f, 0) = {}

PathsEnd ==
  \A f, a \in Versions :
    /\ \A p \in Phases : Passes(p, f, a) => LocksRows(p, f, a, 0) /\ LeavesRows(p, f, a)
    /\ f < 2 /\ a >= 2 /\ "assigned" \in StatesIn("task_status", SchemaOf(f)) =>
         PathPins("upgrading", f, a, 0)

\* The schema of each version has that version's row and no other, and what the releases
\* up to it map; the first statement of all finds its table there but at base.
SchemasFit ==
  /\ \A v \in Versions :
       /\ VersionsIn(SchemaOf(v)) = Stamp(v)
       /\ \A w \in Versions : Stamp(v) = Stamp(w) => v = w
       /\ \A w \in Versions \ {0} : w <= v => MappedBy[w] \subseteq SchemaOf(v)
       /\ SchemaOf(v) \subseteq Schema5 \cup UNION {Stamp(w) : w \in Versions}
       /\ \A e \in {"task_status", "role"} : \A x \in StatesIn(e, SchemaOf(v)) :
            x # "none" /\ Value(e, x) \in ModelValues
       /\ v # 0 => ~Upgrade[1][1].lenient /\ Upgrade[1][1].adds \cap SchemaOf(v) # {}
       /\ v >= 2 => Column("tasks", "pinned_rubric_id") \in SchemaOf(v)
  /\ Drift(SchemaOf(Len(RevisionIds))) = {}

ScriptsAssumption == ScriptsRun /\ PathsStart /\ PathsEnd /\ SchemasFit

ASSUME ScriptsAssumption
=============================================================================
