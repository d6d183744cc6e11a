-------------------------- MODULE Migrations_proofs --------------------------
(***************************************************************************)
(* Proofs about rolling deploys, for any number of hosts, rows, crashes    *)
(* and resets.  That the five scripts do what they are meant to when they  *)
(* run undisturbed is ScriptsAssumption, which TLC evaluates; that they    *)
(* run undisturbed, and what is read and written meanwhile, is proved.     *)
(***************************************************************************)
EXTENDS MCMigrations, TLAPS

-----------------------------------------------------------------------------
(* The inductive invariant.                                                *)

Row == [state : {"none"} \cup AllStates, pinned : BOOLEAN]

\* The parts of a host's record x, of a table of rows, and of the current version v.
Mig(x)  == x.phase \in {"upgrading", "downgrading"}
Lock(x) == x.ran > 0 \/ x.at # x.from

SeenRow(x, table, r) == IF r \in DOMAIN x.own THEN x.own[r] ELSE table[r]

Fields == {"phase", "release", "from", "to", "at", "ran", "sees", "own", "locks", "memo"}

IsHost(x) == x = [f \in Fields |-> x[f]]

\* Where an invocation is, between the version it has read and the one it is to reach.
Bounds(x, newest) ==
  /\ IsHost(x)
  /\ x.phase \in {"down", "upgrading", "downgrading", "serving"}
  /\ x.release \in 0 .. newest /\ (x.phase = "serving" => x.release # 0)
  /\ x.from \in Versions /\ x.to \in Versions /\ x.at \in Versions /\ x.ran \in Nat
  /\ x.phase = "upgrading" => x.from <= x.at /\ x.at <= x.to /\ x.to = x.release /\ x.to # 0
  /\ x.phase = "downgrading" => x.at <= x.from /\ x.to <= x.at
  /\ ~Mig(x) => ~Lock(x)
  /\ Mig(x) => IF x.at = x.to THEN x.ran = 0 ELSE x.ran < Len(Script(x.phase, x.at))
  /\ ~Lock(x) => x.own = << >> /\ x.locks = {} /\ x.memo = {}

\* An invocation that no other has overtaken sees what its path says.  The rows it sees
\* have states that were there when it began, but those it has converted, and it has set
\* the pins itself.
OnPath(x, table) ==
  /\ x.sees  = PathSees(x.phase, x.at, x.ran)
  /\ x.memo  = PathMemo(x.phase, x.from, x.at, x.ran)
  /\ x.locks = PathLocks(x.phase, x.from, x.at, x.ran)
  /\ \A r \in RowIds :
       /\ SeenRow(x, table, r) \in Row
       /\ SeenRow(x, table, r).state # "none" =>
            SeenRow(x, table, r).state \in
              StatesIn(EnumOf(r), SchemaOf(x.from)) \ Converted(x.phase, x.from, x.at, x.ran)
  /\ PathPins(x.phase, x.from, x.at, x.ran) =>
       \A t \in Tasks : SeenRow(x, table, t).state = "assigned" =>
                          t \in DOMAIN x.own /\ x.own[t].pinned

\* One that another has overtaken has not come to the end of its first revision, where
\* the version row is not what it expects.
Overtaken(x, v) ==
  /\ x.phase = "upgrading" /\ x.at = x.from /\ x.from # 0
  /\ VersionsIn(x.sees) = Stamp(v)

HostInv(x, v, table, newest) ==
  /\ Bounds(x, newest)
  /\ x.phase = "upgrading" => x.from <= v
  /\ x.phase = "downgrading" => x.from = v
  /\ Lock(x) /\ x.from = v => OnPath(x, table)
  /\ Lock(x) /\ x.from # v => Overtaken(x, v)

RowsFit(table, v) ==
  /\ table \in [RowIds -> Row]
  /\ \A r \in RowIds : table[r].state # "none" => table[r].state \in StatesIn(EnumOf(r), SchemaOf(v))

\* At most one invocation has locks, a downgrade is alone, and what serves is not newer
\* than the schema unless there was a downgrade.
Together ==
  /\ \A g, h \in Hosts : Lock(host[g]) /\ Lock(host[h]) => g = h
  /\ \A g, h \in Hosts : host[g].phase = "downgrading" /\ Mig(host[h]) => g = h
  /\ \A h \in Hosts : host[h].phase = "downgrading" => resets > 0
  /\ \A h \in Hosts : resets = 0 /\ host[h].phase = "serving" => host[h].release <= Current

IInv ==
  /\ head \in 1 .. Len(RevisionIds)
  /\ crashes \in 0 .. MaxCrashes /\ resets \in 0 .. MaxResets
  /\ Current \in 0 .. head /\ catalog = SchemaOf(Current)
  /\ RowsFit(rows, Current)
  /\ DOMAIN host = Hosts /\ \A h \in Hosts : HostInv(host[h], Current, rows, head)
  /\ Together

-----------------------------------------------------------------------------
(* Versions and scripts.                                                   *)

LEMMA FiveVersions == Len(RevisionIds) = 5 /\ Versions = 0 .. 5
BY DEF Versions, RevisionIds

\* The version row tells the version.
LEMMA CurrentIs ==
  ASSUME NEW v \in Versions, catalog = SchemaOf(v)
  PROVE  Current = v
<1>1. \A w \in Versions : Stamp(w) = VersionsIn(catalog) <=> w = v
  BY ScriptsAssumption DEF ScriptsAssumption, SchemasFit
<1>2. VersionsIn(catalog) = {o \in catalog : o[1] = "version"}
  BY DEF VersionsIn
<1> QED
  BY <1>1, <1>2 DEF Current

\* The same, in the next state.
LEMMA CurrentBecomes ==
  ASSUME NEW v \in Versions, catalog' = SchemaOf(v)
  PROVE  Current' = v
<1>1. \A w \in Versions : Stamp(w) = VersionsIn(catalog') <=> w = v
  BY ScriptsAssumption DEF ScriptsAssumption, SchemasFit
<1>2. VersionsIn(catalog') = {o \in catalog' : o[1] = "version"}
  BY DEF VersionsIn
<1> QED
  BY <1>1, <1>2 DEF Current

LEMMA CurrentStays ==
  ASSUME IInv, UNCHANGED catalog
  PROVE  Current' = Current
BY DEF Current

\* What the scripts say of a place on a path.
LEMMA PlaceOnPath ==
  ASSUME NEW p \in Phases, NEW f \in Versions, NEW a \in Versions, Goes(p, f, a), NEW n \in Nat,
         n < Len(Script(p, a))
  PROVE  /\ Len(Script(p, a)) \in Nat /\ Len(Script(p, a)) > 0
         /\ Runs(p, f, a, n) /\ KeepsRows(p, f, a, n) /\ LocksRows(p, f, a, n)
         /\ p = "upgrading" => MovesLast(a, n)
<1>1. /\ Len(Script(p, a)) \in Nat \ {0}
      /\ \A k \in 0 .. Len(Script(p, a)) - 1 :
           /\ Runs(p, f, a, k) /\ KeepsRows(p, f, a, k) /\ LocksRows(p, f, a, k)
           /\ p = "upgrading" => MovesLast(a, k)
  BY ScriptsAssumption DEF ScriptsAssumption, ScriptsRun
<1>2. n \in 0 .. Len(Script(p, a)) - 1
  BY <1>1
<1> QED
  BY <1>1, <1>2

\* The beginning of a path.
LEMMA PathBegins ==
  ASSUME NEW p \in Phases, NEW f \in Versions
  PROVE  /\ PathSees(p, f, 0) = SchemaOf(f) /\ PathMemo(p, f, f, 0) = {}
         /\ PathLocks(p, f, f, 0) = {} /\ Converted(p, f, f, 0) = {} /\ ~PathPins(p, f, f, 0)
<1>1. Behind(p, f, f, 0) = {}
  BY ScriptsAssumption DEF ScriptsAssumption, PathsStart
<1> QED
  BY <1>1 DEF PathSees, PathMemo, PathLocks, Converted, PathPins

\* The enums of the rows, and their tables.
LEMMA RowKinds ==
  /\ \A r \in RowIds : /\ EnumOf(r) \in {"task_status", "role"}
                       /\ Home(r) = IF EnumOf(r) = "role" THEN "api_keys" ELSE "tasks"
  /\ \A t \in Tasks : t \in RowIds /\ EnumOf(t) = "task_status" /\ Home(t) = "tasks"
BY MigrationsAssumption DEF MigrationsAssumption, RowIds, EnumOf, Home

\* The values of a version's schema are the models'.
LEMMA StatesKnown ==
  ASSUME NEW v \in Versions, NEW r \in RowIds, NEW x \in StatesIn(EnumOf(r), SchemaOf(v))
  PROVE  x # "none" /\ x \in States(r) /\ x \in AllStates
<1>1. x # "none" /\ Value(EnumOf(r), x) \in ModelValues
  BY RowKinds, ScriptsAssumption DEF ScriptsAssumption, SchemasFit
<1>2. Value(EnumOf(r), x)[2] = EnumOf(r) /\ Value(EnumOf(r), x)[3] = x
  BY DEF Value
<1>3. x \in States(r)
  BY <1>1, <1>2 DEF States
<1> QED
  BY <1>1, <1>3 DEF StatesIn

\* Where an invocation that is not done stands on its path.
LEMMA Standing ==
  ASSUME NEW x, NEW k, Bounds(x, k), Mig(x), x.at # x.to
  PROVE  /\ x.phase \in Phases /\ x.from \in Versions /\ x.at \in Versions /\ x.ran \in Nat
         /\ Goes(x.phase, x.from, x.at) /\ x.ran < Len(Script(x.phase, x.at))
<1>1. /\ x.phase \in Phases /\ x.from \in Versions /\ x.at \in Versions /\ x.ran \in Nat
      /\ x.ran < Len(Script(x.phase, x.at)) /\ x.to \in Versions
  BY DEF Bounds, Mig, Phases
<1>2. CASE x.phase = "upgrading"
  BY <1>1, <1>2, FiveVersions DEF Bounds, Goes, Passes, Ends
<1>3. CASE x.phase = "downgrading"
  BY <1>1, <1>3, FiveVersions DEF Bounds, Goes, Passes, Ends
<1> QED
  BY <1>1, <1>2, <1>3 DEF Phases

-----------------------------------------------------------------------------
(* An invocation that has not been overtaken.                              *)

\* What a host's invocation sees is what its path says, also before its first statement.
InPlace(h) ==
  LET x == host[h] IN
  /\ Sees(h) = PathSees(x.phase, x.at, x.ran)
  /\ x.memo  = PathMemo(x.phase, x.from, x.at, x.ran)
  /\ x.locks = PathLocks(x.phase, x.from, x.at, x.ran)
  /\ \A r \in RowIds :
       /\ RowsSeen(h)[r] \in Row
       /\ RowsSeen(h)[r].state # "none" =>
            RowsSeen(h)[r].state \in
              StatesIn(EnumOf(r), SchemaOf(x.from)) \ Converted(x.phase, x.from, x.at, x.ran)
  /\ PathPins(x.phase, x.from, x.at, x.ran) =>
       \A t \in Tasks : RowsSeen(h)[t].state = "assigned" =>
                          t \in DOMAIN x.own /\ x.own[t].pinned

LEMMA RowsSeenBy ==
  ASSUME NEW h \in Hosts, NEW r \in RowIds
  PROVE  RowsSeen(h)[r] = SeenRow(host[h], rows, r)
BY DEF RowsSeen, SeenRow

LEMMA StaysInPlace ==
  ASSUME IInv, NEW h \in Hosts, Mig(host[h]), host[h].from = Current
  PROVE  InPlace(h)
<1>1. PICK x : x = host[h]
  OBVIOUS
<1>2. HostInv(x, Current, rows, head) /\ x.phase \in Phases /\ x.from \in Versions
  BY <1>1 DEF IInv, HostInv, Bounds, Mig, Phases
<1>3. CASE Lock(x)
  <2>1. OnPath(x, rows)
    BY <1>1, <1>2, <1>3 DEF HostInv
  <2>2. Sees(h) = x.sees
    BY <1>1, <1>3 DEF Sees, Locking, Lock
  <2> QED
    BY <1>1, <2>1, <2>2, RowsSeenBy, RowKinds DEF OnPath, InPlace
<1>4. CASE ~Lock(x)
  <2>1. x.at = x.from /\ x.ran = 0
    BY <1>2, <1>4 DEF HostInv, Bounds, Lock
  <2>2. x.own = << >> /\ x.locks = {} /\ x.memo = {}
    BY <1>2, <1>4 DEF HostInv, Bounds
  <2>3. Sees(h) = SchemaOf(x.from)
    BY <1>1, <1>4 DEF Sees, Locking, Lock, IInv
  <2>4. \A r \in RowIds : RowsSeen(h)[r] = rows[r]
    BY <1>1, <2>2 DEF RowsSeen
  <2>5. \A r \in RowIds : /\ rows[r] \in Row
                          /\ rows[r].state # "none" =>
                               rows[r].state \in StatesIn(EnumOf(r), SchemaOf(x.from))
    BY <1>1 DEF IInv, RowsFit
  <2>6. /\ PathSees(x.phase, x.at, x.ran) = SchemaOf(x.from)
        /\ PathMemo(x.phase, x.from, x.at, x.ran) = {}
        /\ PathLocks(x.phase, x.from, x.at, x.ran) = {}
        /\ Converted(x.phase, x.from, x.at, x.ran) = {}
        /\ ~PathPins(x.phase, x.from, x.at, x.ran)
    BY <1>2, <2>1, PathBegins
  <2> QED
    BY <1>1, <2>2, <2>3, <2>4, <2>5, <2>6 DEF InPlace
<1> QED
  BY <1>3, <1>4

\* The statement that a host comes to is the one of its place.
LEMMA StatementHere ==
  ASSUME IInv, NEW h \in Hosts, Proceeds(h)
  PROVE  LET x == host[h] IN
         /\ Mig(x) /\ x.at # x.to /\ Bounds(x, head)
         /\ Revision(h) = Script(x.phase, x.at)
         /\ Statement(h) = Script(x.phase, x.at)[x.ran + 1]
<1>1. Mig(host[h]) /\ host[h].at # host[h].to
  BY DEF Proceeds, Migrating, Mig, Done
<1>2. Bounds(host[h], head)
  BY DEF IInv, HostInv
<1>3. Revision(h) = Script(host[h].phase, host[h].at)
  BY <1>1 DEF Revision, Script
<1> QED
  BY <1>1, <1>2, <1>3 DEF Statement

\* It is accepted: the objects are there, and the rows fit what is left.
LEMMA StatementAccepted ==
  ASSUME IInv, NEW h \in Hosts, Proceeds(h), host[h].from = Current
  PROVE  Accepts(h, Statement(h))
<1>1. PICK x : x = host[h]
  OBVIOUS
<1>2. PICK s : s = Statement(h)
  OBVIOUS
<1>3. Mig(x) /\ x.at # x.to /\ Bounds(x, head) /\ s = Script(x.phase, x.at)[x.ran + 1]
  BY <1>1, <1>2, StatementHere
<1>4. InPlace(h)
  BY <1>1, <1>3, StaysInPlace
<1>5. /\ x.phase \in Phases /\ x.from \in Versions /\ x.at \in Versions /\ x.ran \in Nat
      /\ Goes(x.phase, x.from, x.at) /\ x.ran < Len(Script(x.phase, x.at))
  BY <1>3, Standing
<1>6. Runs(x.phase, x.from, x.at, x.ran) /\ KeepsRows(x.phase, x.from, x.at, x.ran)
  BY <1>5, PlaceOnPath
<1>7. Sees(h) = PathSees(x.phase, x.at, x.ran) /\ x.memo = PathMemo(x.phase, x.from, x.at, x.ran)
  BY <1>1, <1>4 DEF InPlace
<1>8. PICK c : c = After(Sees(h), x.memo, s)
  OBVIOUS
<1>9. /\ Added(Sees(h), x.memo, s) \cap Sees(h) = {} /\ Dropped(Sees(h), s) \subseteq Sees(h)
      /\ Closed(c)
  BY <1>3, <1>6, <1>7, <1>8 DEF Runs
<1>10. Fits(c, RowsSeen(h))
  <2> SUFFICES ASSUME NEW r \in RowIds, RowsSeen(h)[r].state # "none", Table(Home(r)) \in c
               PROVE  Value(EnumOf(r), RowsSeen(h)[r].state) \in c
    BY DEF Fits
  <2>1. PICK v : v = RowsSeen(h)[r].state
    OBVIOUS
  <2>2. v \in StatesIn(EnumOf(r), SchemaOf(x.from)) \ Converted(x.phase, x.from, x.at, x.ran)
    BY <1>1, <1>4, <2>1 DEF InPlace
  <2>3. PICK e \in {"task_status", "role"} : e = EnumOf(r)
    BY RowKinds
  <2>4. Table(IF e = "role" THEN "api_keys" ELSE "tasks") \in c
    BY <2>3, RowKinds
  <2>5. Value(e, v) \in c
    BY <1>3, <1>6, <1>7, <1>8, <2>2, <2>3, <2>4 DEF KeepsRows
  <2> QED
    BY <2>1, <2>3, <2>5
<1> QED
  BY <1>1, <1>2, <1>8, <1>9, <1>10 DEF Accepts

\* FailsOnlyOvertaken: a statement fails only on a host that has been overtaken.
LEMMA InvFails == IInv => FailsOnlyOvertaken
BY StatementAccepted DEF FailsOnlyOvertaken

-----------------------------------------------------------------------------
(* A statement runs.                                                       *)

\* A revision has statements, as long as the path has a revision left.
LEMMA ScriptLength ==
  ASSUME NEW p \in Phases, NEW f \in Versions, NEW a \in Versions, Goes(p, f, a)
  PROVE  Len(Script(p, a)) \in Nat /\ Len(Script(p, a)) > 0
<1>1. Len(Script(p, a)) \in Nat \ {0}
  BY ScriptsAssumption DEF ScriptsAssumption, ScriptsRun
<1> QED
  BY <1>1

\* What host h is after a statement.
Ran(h, y) ==
  LET x == host[h]
      s == Statement(h)
  IN /\ IsHost(y)
     /\ y.phase = x.phase /\ y.release = x.release /\ y.from = x.from /\ y.to = x.to
     /\ y.at = IF LastOf(h) THEN NextAt(h) ELSE x.at
     /\ y.ran = IF LastOf(h) THEN 0 ELSE x.ran + 1
     /\ y.sees = After(Sees(h), x.memo, s)
     /\ y.locks = x.locks \cup Locked(Sees(h), s)
     /\ y.memo = x.memo \cup s.enums
     /\ y.own = [r \in DOMAIN x.own \cup Matching(s, RowsSeen(h)) |->
                   IF r \in Matching(s, RowsSeen(h))
                   THEN UpdatedRow(s, RowsSeen(h)[r]) ELSE x.own[r]]

LEMMA DownIsHost == IsHost(Down)
BY DEF IsHost, Down, Fields

LEMMA RunLeadsTo ==
  ASSUME IInv, NEW h \in Hosts, Run(h)
  PROVE  \E y : host' = [host EXCEPT ![h] = y] /\ Ran(h, y)
<1>1. PICK x : x = host[h]
  OBVIOUS
<1>2. PICK n : n = IF LastOf(h) THEN 0 ELSE x.ran + 1
  OBVIOUS
<1>3. PICK a : a = IF LastOf(h) THEN NextAt(h) ELSE x.at
  OBVIOUS
<1>4. PICK c : c = After(Sees(h), x.memo, Statement(h))
  OBVIOUS
<1>5. PICK o : o = [r \in DOMAIN x.own \cup Matching(Statement(h), RowsSeen(h)) |->
                      IF r \in Matching(Statement(h), RowsSeen(h))
                      THEN UpdatedRow(Statement(h), RowsSeen(h)[r]) ELSE x.own[r]]
  OBVIOUS
<1>6. PICK l : l = x.locks \cup Locked(Sees(h), Statement(h))
  OBVIOUS
<1>7. PICK m : m = x.memo \cup Statement(h).enums
  OBVIOUS
<1>8. PICK y : y = [x EXCEPT !.ran = n, !.at = a, !.sees = c, !.own = o, !.locks = l, !.memo = m]
  OBVIOUS
<1>9. host' = [host EXCEPT ![h] = y]
  BY <1>1, <1>2, <1>3, <1>4, <1>5, <1>6, <1>7, <1>8, Zenon DEF Run
<1>10. IsHost(x)
  BY <1>1 DEF IInv, HostInv, Bounds
<1>11. /\ IsHost(y)
       /\ y.phase = x.phase /\ y.release = x.release /\ y.from = x.from /\ y.to = x.to
       /\ y.ran = n /\ y.at = a /\ y.sees = c /\ y.own = o /\ y.locks = l /\ y.memo = m
  <2>1. DOMAIN x = Fields
    BY <1>10 DEF IsHost
  <2>2. /\ y.phase = x.phase /\ y.release = x.release /\ y.from = x.from /\ y.to = x.to
        /\ y.ran = n /\ y.at = a /\ y.sees = c /\ y.own = o /\ y.locks = l /\ y.memo = m
    BY <1>8, <2>1 DEF Fields
  <2>3. y = [f \in Fields |-> y[f]]
    BY <1>8, <2>1
  <2> QED
    BY <2>2, <2>3 DEF IsHost
<1>12. Ran(h, y)
  BY <1>1, <1>2, <1>3, <1>4, <1>5, <1>6, <1>7, <1>11 DEF Ran
<1> QED
  BY <1>9, <1>12

\* The invocation stays between its ends.
LEMMA RunBounds ==
  ASSUME IInv, NEW h \in Hosts, Proceeds(h), NEW y, Ran(h, y)
  PROVE  Bounds(y, head) /\ Lock(y)
<1>1. PICK x : x = host[h]
  OBVIOUS
<1>2. Mig(x) /\ x.at # x.to /\ Bounds(x, head) /\ Revision(h) = Script(x.phase, x.at)
  BY <1>1, StatementHere
<1>3. /\ x.phase \in Phases /\ x.from \in Versions /\ x.at \in Versions /\ x.ran \in Nat
      /\ Goes(x.phase, x.from, x.at) /\ x.ran < Len(Script(x.phase, x.at))
      /\ x.to \in Versions
  BY <1>2, Standing DEF Bounds
<1>4. Len(Script(x.phase, x.at)) \in Nat
  BY <1>3, ScriptLength
<1>5. /\ IsHost(y)
      /\ y.phase = x.phase /\ y.release = x.release /\ y.from = x.from /\ y.to = x.to
  BY <1>1 DEF Ran
<1>6. CASE x.ran + 1 # Len(Script(x.phase, x.at))
  <2>1. y.at = x.at /\ y.ran = x.ran + 1
    BY <1>1, <1>2, <1>6 DEF Ran, LastOf
  <2>2. y.ran < Len(Script(y.phase, y.at)) /\ y.ran \in Nat /\ y.ran > 0
    BY <1>3, <1>4, <1>5, <1>6, <2>1
  <2>3. Lock(y) /\ Mig(y) /\ y.at # y.to
    BY <1>2, <1>5, <2>1, <2>2 DEF Lock, Mig
  <2> QED
    BY <1>2, <1>5, <2>1, <2>2, <2>3 DEF Bounds
<1>7. CASE x.ran + 1 = Len(Script(x.phase, x.at))
  <2>1. y.ran = 0 /\ y.at = IF x.phase = "upgrading" THEN x.at + 1 ELSE x.at - 1
    BY <1>1, <1>2, <1>7 DEF Ran, LastOf, NextAt
  <2>2. /\ y.at \in Versions
        /\ x.phase = "upgrading" => x.from < y.at /\ y.at <= x.to
        /\ x.phase = "downgrading" => y.at < x.from /\ x.to <= y.at
    <3>1. CASE x.phase = "upgrading"
      BY <1>2, <1>3, <2>1, <3>1, FiveVersions DEF Bounds
    <3>2. CASE x.phase = "downgrading"
      BY <1>2, <1>3, <2>1, <3>2, FiveVersions DEF Bounds
    <3> QED
      BY <1>3, <3>1, <3>2 DEF Phases
  <2>3. y.at # x.from
    BY <1>3, <2>2, FiveVersions DEF Phases
  <2>4. Lock(y) /\ Mig(y)
    BY <1>2, <1>5, <2>3 DEF Lock, Mig
  <2>5. y.at # y.to => y.ran < Len(Script(y.phase, y.at))
    <3> SUFFICES ASSUME y.at # y.to PROVE Goes(x.phase, x.from, y.at)
      BY <1>3, <1>5, <2>1, <2>2, ScriptLength
    <3> QED
      BY <1>3, <1>5, <2>2, FiveVersions DEF Phases, Goes, Passes, Ends
  <2>6. y.phase = "upgrading" => y.from <= y.at /\ y.at <= y.to /\ y.to = y.release /\ y.to # 0
    BY <1>2, <1>3, <1>5, <2>2, FiveVersions DEF Bounds
  <2>7. y.phase = "downgrading" => y.at <= y.from /\ y.to <= y.at
    BY <1>2, <1>3, <1>5, <2>2, FiveVersions DEF Bounds
  <2>8. /\ y.phase \in {"down", "upgrading", "downgrading", "serving"}
        /\ y.release \in 0 .. head /\ (y.phase = "serving" => y.release # 0)
        /\ y.from \in Versions /\ y.to \in Versions
    BY <1>2, <1>5 DEF Bounds
  <2> QED
    BY <1>5, <2>1, <2>2, <2>4, <2>5, <2>6, <2>7, <2>8 DEF Bounds
<1> QED
  BY <1>6, <1>7

\* What the rows look like to it after the statement.
LEMMA RunSeen ==
  ASSUME NEW h \in Hosts, NEW y, Ran(h, y), NEW r \in RowIds
  PROVE  LET s == Statement(h)
             v == RowsSeen(h)[r]
         IN /\ v.state = s.where => r \in DOMAIN y.own /\ SeenRow(y, rows, r) = UpdatedRow(s, v)
            /\ v.state # s.where => SeenRow(y, rows, r) = v
            /\ r \in DOMAIN host[h].own => r \in DOMAIN y.own
<1>1. PICK s : s = Statement(h)
  OBVIOUS
<1>2. r \in Matching(s, RowsSeen(h)) <=> RowsSeen(h)[r].state = s.where
  BY DEF Matching
<1>3. y.own = [q \in DOMAIN host[h].own \cup Matching(s, RowsSeen(h)) |->
                 IF q \in Matching(s, RowsSeen(h))
                 THEN UpdatedRow(s, RowsSeen(h)[q]) ELSE host[h].own[q]]
  BY <1>1 DEF Ran
<1>4. RowsSeen(h)[r] = IF r \in DOMAIN host[h].own THEN host[h].own[r] ELSE rows[r]
  BY DEF RowsSeen
<1>5. CASE RowsSeen(h)[r].state = s.where
  BY <1>1, <1>2, <1>3, <1>5 DEF SeenRow
<1>6. CASE RowsSeen(h)[r].state # s.where
  BY <1>1, <1>2, <1>3, <1>4, <1>6 DEF SeenRow
<1> QED
  BY <1>5, <1>6

\* A statement with no version row in it leaves the version.
LEMMA VersionKept ==
  ASSUME NEW c, NEW m, NEW s, VersionsIn(s.adds) = {}, VersionsIn(s.drops) = {}
  PROVE  VersionsIn(After(c, m, s)) = VersionsIn(c)
<1> SUFFICES ASSUME NEW o, o[1] = "version"
             PROVE  o \in After(c, m, s) <=> o \in c
  BY DEF VersionsIn
<1>1. o \notin s.adds /\ o \notin s.drops
  BY DEF VersionsIn
<1>2. Owners(o) = {}
  BY DEF Owners, Needs
<1>3. o \notin Gone(c, s)
  BY <1>1, <1>2 DEF Gone, Dropped
<1>4. \A n : o \notin Enum(n)
  <2> SUFFICES ASSUME NEW n, o \in Enum(n) PROVE FALSE
    OBVIOUS
  <2>1. o = Type(n) \/ \E v \in Declared(n) : o = Value(n, v)
    BY DEF Enum
  <2>2. Type(n)[1] = "type" /\ \A v : Value(n, v)[1] = "value"
    BY DEF Type, Value
  <2> QED
    BY <2>1, <2>2
<1>5. o \notin Added(c, m, s)
  BY <1>1, <1>4 DEF Added
<1> QED
  BY <1>3, <1>5 DEF After

\* The place of the host after the statement is the next one of the path.
LEMMA RunPlace ==
  ASSUME IInv, NEW h \in Hosts, Proceeds(h), NEW y, Ran(h, y), NEW x, x = host[h]
  PROVE  LET last == x.ran + 1 = Len(Script(x.phase, x.at)) IN
         /\ y.phase = x.phase /\ y.from = x.from
         /\ y.at = IF last THEN Follows(x.phase, x.at) ELSE x.at
         /\ y.ran = IF last THEN 0 ELSE x.ran + 1
<1>1. Revision(h) = Script(x.phase, x.at)
  BY StatementHere
<1>2. NextAt(h) = Follows(x.phase, x.at)
  BY DEF NextAt, Follows
<1> QED
  BY <1>1, <1>2 DEF Ran, LastOf

\* It stays on its path.
LEMMA RunOnPath ==
  ASSUME IInv, NEW h \in Hosts, Proceeds(h), host[h].from = Current, NEW y, Ran(h, y)
  PROVE  OnPath(y, rows)
<1>1. PICK x : x = host[h]
  OBVIOUS
<1>2. PICK s : s = Statement(h)
  OBVIOUS
<1>3. Mig(x) /\ x.at # x.to /\ Bounds(x, head) /\ s = Script(x.phase, x.at)[x.ran + 1]
  BY <1>1, <1>2, StatementHere
<1>4. InPlace(h)
  BY <1>1, <1>3, StaysInPlace
<1>5. /\ x.phase \in Phases /\ x.from \in Versions /\ x.at \in Versions /\ x.ran \in Nat
      /\ Goes(x.phase, x.from, x.at) /\ x.ran < Len(Script(x.phase, x.at))
  BY <1>3, Standing
<1>6. Runs(x.phase, x.from, x.at, x.ran) /\ KeepsRows(x.phase, x.from, x.at, x.ran)
  BY <1>5, PlaceOnPath
<1>7. /\ y.phase = x.phase /\ y.from = x.from
      /\ y.at = IF x.ran + 1 = Len(Script(x.phase, x.at)) THEN Follows(x.phase, x.at) ELSE x.at
      /\ y.ran = IF x.ran + 1 = Len(Script(x.phase, x.at)) THEN 0 ELSE x.ran + 1
  BY <1>1, RunPlace
<1>8. PICK was : was = Converted(x.phase, x.from, x.at, x.ran)
  OBVIOUS
<1>9. PICK now : now = Converted(y.phase, y.from, y.at, y.ran)
  OBVIOUS
<1>10. /\ PathSees(y.phase, y.at, y.ran) = After(PathSees(x.phase, x.at, x.ran),
                                                 PathMemo(x.phase, x.from, x.at, x.ran), s)
       /\ PathMemo(y.phase, y.from, y.at, y.ran) =
            PathMemo(x.phase, x.from, x.at, x.ran) \cup s.enums
       /\ PathLocks(y.phase, y.from, y.at, y.ran) =
            PathLocks(x.phase, x.from, x.at, x.ran) \cup Locked(PathSees(x.phase, x.at, x.ran), s)
       /\ now = was \cup (IF Converts(s) THEN {s.where} ELSE {})
       /\ PathPins(y.phase, y.from, y.at, y.ran) <=>
            PathPins(x.phase, x.from, x.at, x.ran) \/ s.pins
  BY <1>3, <1>6, <1>7, <1>8, <1>9 DEF Runs
<1>11. /\ y.sees = After(Sees(h), x.memo, s) /\ y.memo = x.memo \cup s.enums
       /\ y.locks = x.locks \cup Locked(Sees(h), s)
  BY <1>1, <1>2 DEF Ran
<1>12. /\ Sees(h) = PathSees(x.phase, x.at, x.ran)
       /\ x.memo = PathMemo(x.phase, x.from, x.at, x.ran)
       /\ x.locks = PathLocks(x.phase, x.from, x.at, x.ran)
  BY <1>1, <1>4 DEF InPlace
<1>13. /\ y.sees  = PathSees(y.phase, y.at, y.ran)
       /\ y.memo  = PathMemo(y.phase, y.from, y.at, y.ran)
       /\ y.locks = PathLocks(y.phase, y.from, y.at, y.ran)
  BY <1>10, <1>11, <1>12
<1>14. /\ s.where # "none"
       /\ s.becomes = "assigned" \/ s.pins => s.where = "assigned"
  BY <1>3, <1>6 DEF KeepsRows
<1>15. ASSUME NEW r \in RowIds
       PROVE  /\ SeenRow(y, rows, r) \in Row
              /\ SeenRow(y, rows, r).state # "none" =>
                   SeenRow(y, rows, r).state \in StatesIn(EnumOf(r), SchemaOf(x.from)) \ now
  <2>1. PICK v : v = RowsSeen(h)[r]
    OBVIOUS
  <2>2. /\ v \in Row
        /\ v.state # "none" => v.state \in StatesIn(EnumOf(r), SchemaOf(x.from)) \ was
    BY <1>1, <1>4, <1>8, <2>1 DEF InPlace
  <2>3. CASE v.state = s.where
    <3>1. SeenRow(y, rows, r) = UpdatedRow(s, v)
      BY <1>2, <2>1, <2>3, RunSeen
    <3>2. v.state \in StatesIn(EnumOf(r), SchemaOf(x.from)) \ was
      BY <1>14, <2>2, <2>3
    <3>3. \A e \in {"task_status", "role"} : \A z \in StatesIn(e, SchemaOf(x.from)) \ was :
            z = s.where =>
              s.becomes \in StatesIn(e, SchemaOf(x.from))
                              \ (was \cup IF Converts(s) THEN {s.where} ELSE {})
      BY <1>3, <1>6, <1>8 DEF KeepsRows
    <3>4. s.becomes \in StatesIn(EnumOf(r), SchemaOf(x.from)) \ now
      BY <1>10, <2>3, <3>2, <3>3, RowKinds
    <3>5. s.becomes \in AllStates
      BY <3>4 DEF StatesIn
    <3> QED
      BY <3>1, <3>4, <3>5 DEF UpdatedRow, Row
  <2>4. CASE v.state # s.where
    <3>1. SeenRow(y, rows, r) = v
      BY <1>2, <2>1, <2>4, RunSeen
    <3> QED
      BY <1>10, <2>2, <2>4, <3>1
  <2> QED
    BY <2>3, <2>4
<1>16. ASSUME PathPins(y.phase, y.from, y.at, y.ran), NEW t \in Tasks,
              SeenRow(y, rows, t).state = "assigned"
       PROVE  t \in DOMAIN y.own /\ y.own[t].pinned
  <2>1. PICK v : v = RowsSeen(h)[t]
    OBVIOUS
  <2>2. t \in RowIds
    BY RowKinds
  <2>3. PathPins(x.phase, x.from, x.at, x.ran) /\ v.state = "assigned" =>
          t \in DOMAIN x.own /\ x.own[t].pinned
    BY <1>1, <1>4, <2>1 DEF InPlace
  <2>4. t \in DOMAIN x.own => v = x.own[t]
    BY <1>1, <2>1, <2>2 DEF RowsSeen
  <2>5. t \in DOMAIN y.own => SeenRow(y, rows, t) = y.own[t]
    BY DEF SeenRow
  <2>6. CASE v.state = s.where
    <3>1. t \in DOMAIN y.own /\ SeenRow(y, rows, t) = UpdatedRow(s, v)
      BY <1>2, <2>1, <2>2, <2>6, RunSeen
    <3>2. y.own[t] = UpdatedRow(s, v)
      BY <2>5, <3>1
    <3>3. s.becomes = "assigned"
      BY <1>16, <3>1 DEF UpdatedRow
    <3>4. v.state = "assigned"
      BY <1>14, <2>6, <3>3
    <3>5. s.pins \/ v.pinned
      BY <1>10, <1>16, <2>3, <2>4, <3>4
    <3>6. UpdatedRow(s, v).pinned = (v.pinned \/ s.pins)
      BY DEF UpdatedRow
    <3> QED
      BY <3>1, <3>2, <3>5, <3>6
  <2>7. CASE v.state # s.where
    <3>1. SeenRow(y, rows, t) = v /\ (t \in DOMAIN x.own => t \in DOMAIN y.own)
      BY <1>1, <1>2, <2>1, <2>2, <2>7, RunSeen
    <3>2. v.state = "assigned" /\ ~s.pins
      BY <1>14, <1>16, <2>7, <3>1
    <3>3. t \in DOMAIN x.own /\ x.own[t].pinned
      BY <1>10, <1>16, <2>3, <3>2
    <3> QED
      BY <2>4, <2>5, <3>1, <3>3
  <2> QED
    BY <2>6, <2>7
<1> QED
  BY <1>7, <1>9, <1>13, <1>15, <1>16 DEF OnPath

\* One that has been overtaken does not come further than the end of its revision.
LEMMA RunOvertaken ==
  ASSUME IInv, NEW h \in Hosts, Run(h), host[h].from # Current, NEW y, Ran(h, y)
  PROVE  Overtaken(y, Current)
<1>1. PICK x : x = host[h]
  OBVIOUS
<1>2. PICK s : s = Statement(h)
  OBVIOUS
<1>3. PICK v \in Versions : v = Current
  BY FiveVersions DEF IInv
<1>4. Proceeds(h) /\ Accepts(h, s)
  BY <1>2 DEF Run
<1>5. Mig(x) /\ x.at # x.to /\ Bounds(x, head) /\ s = Script(x.phase, x.at)[x.ran + 1]
  BY <1>1, <1>2, <1>4, StatementHere
<1>6. /\ x.phase \in Phases /\ x.from \in Versions /\ x.at \in Versions /\ x.ran \in Nat
      /\ Goes(x.phase, x.from, x.at) /\ x.ran < Len(Script(x.phase, x.at))
  BY <1>5, Standing
<1>7. HostInv(x, v, rows, head)
  BY <1>1, <1>3 DEF IInv
<1>8. x.phase = "upgrading" /\ x.from < v
  BY <1>1, <1>3, <1>6, <1>7, FiveVersions DEF HostInv, Phases
<1>9. x.at = x.from /\ VersionsIn(Sees(h)) = Stamp(v)
  <2>1. CASE Lock(x)
    <3>1. Overtaken(x, v)
      BY <1>1, <1>3, <1>7, <2>1 DEF HostInv
    <3>2. Sees(h) = x.sees
      BY <1>1, <2>1 DEF Sees, Locking, Lock
    <3> QED
      BY <3>1, <3>2 DEF Overtaken
  <2>2. CASE ~Lock(x)
    <3>1. Sees(h) = SchemaOf(v)
      BY <1>1, <1>3, <2>2 DEF Sees, Locking, Lock, IInv
    <3>2. VersionsIn(SchemaOf(v)) = Stamp(v)
      BY ScriptsAssumption DEF ScriptsAssumption, SchemasFit
    <3> QED
      BY <2>2, <3>1, <3>2 DEF Lock
  <2> QED
    BY <2>1, <2>2
<1>10. Added(Sees(h), x.memo, s) \cap Sees(h) = {} /\ Dropped(Sees(h), s) \subseteq Sees(h)
  BY <1>1, <1>4 DEF Accepts
<1>11. x.from # 0
  <2> SUFFICES ASSUME x.from = 0 PROVE FALSE
    OBVIOUS
  <2>1. ~Lock(x)
    BY <1>3, <1>7, <1>8, FiveVersions DEF HostInv, Overtaken
  <2>2. x.ran = 0 /\ x.at = 0
    BY <1>6, <2>1 DEF Lock
  <2>3. s = Upgrade[1][1]
    BY <1>5, <1>8, <2>2 DEF Script
  <2>4. Sees(h) = SchemaOf(v)
    BY <1>1, <1>3, <2>1 DEF Sees, Locking, Lock, IInv
  <2>5. v # 0
    BY <1>8, FiveVersions
  <2>6. ~s.lenient /\ s.adds \cap Sees(h) # {}
    BY <2>3, <2>4, <2>5, ScriptsAssumption DEF ScriptsAssumption, SchemasFit
  <2>7. s.adds \subseteq Added(Sees(h), x.memo, s)
    BY <2>6 DEF Added
  <2> QED
    BY <1>10, <2>6, <2>7
<1>12. MovesLast(x.at, x.ran)
  BY <1>6, <1>8, PlaceOnPath
<1>13. Len(Script(x.phase, x.at)) \in Nat /\ Script(x.phase, x.at) = Upgrade[x.at + 1]
  BY <1>6, <1>8, ScriptLength DEF Script
<1>14. x.ran + 1 # Len(Script(x.phase, x.at))
  <2> SUFFICES ASSUME x.ran + 1 = Len(Script(x.phase, x.at)) PROVE FALSE
    OBVIOUS
  <2>1. Stamp(x.at) = s.drops /\ ~s.lenient
    BY <1>5, <1>12, <1>13 DEF MovesLast
  <2>2. Stamp(x.from) \subseteq Sees(h)
    BY <1>9, <1>10, <2>1 DEF Dropped
  <2>3. Stamp(x.from) = {Version(RevisionIds[x.from])} /\ Stamp(v) = {Version(RevisionIds[v])}
    BY <1>8, <1>11, <1>6, FiveVersions DEF Stamp
  <2>4. Version(RevisionIds[x.from])[1] = "version"
    BY DEF Version
  <2>5. Version(RevisionIds[x.from]) \in Stamp(v)
    BY <1>9, <2>2, <2>3, <2>4 DEF VersionsIn
  <2>6. Stamp(x.from) = Stamp(v)
    BY <2>3, <2>5
  <2>7. x.from = v
    BY <1>6, <2>6, ScriptsAssumption DEF ScriptsAssumption, SchemasFit
  <2> QED
    BY <1>8, <2>7, FiveVersions
<1>15. VersionsIn(s.adds) = {} /\ VersionsIn(s.drops) = {}
  BY <1>5, <1>6, <1>12, <1>13, <1>14 DEF MovesLast
<1>16. VersionsIn(y.sees) = Stamp(v)
  <2>1. y.sees = After(Sees(h), x.memo, s)
    BY <1>1, <1>2 DEF Ran
  <2> QED
    BY <1>9, <1>15, <2>1, VersionKept
<1>17. y.phase = x.phase /\ y.from = x.from /\ y.at = x.at
  BY <1>1, <1>4, <1>14, RunPlace
<1> QED
  BY <1>3, <1>8, <1>9, <1>11, <1>16, <1>17 DEF Overtaken

-----------------------------------------------------------------------------
(* The steps.                                                              *)

\* One host's record changes to y, and nothing that is committed.
Moves(h, y) ==
  /\ host' = [host EXCEPT ![h] = y]
  /\ UNCHANGED <<catalog, rows, head>>
  /\ crashes' \in 0 .. MaxCrashes /\ resets' \in 0 .. MaxResets /\ resets <= resets'
  /\ HostInv(y, Current, rows, head)
  /\ Lock(y) => \A g \in Hosts \ {h} : ~Lock(host[g])
  /\ y.phase = "downgrading" => resets' > 0 /\ \A g \in Hosts \ {h} : ~Mig(host[g])
  /\ Mig(y) => \A g \in Hosts \ {h} : host[g].phase # "downgrading"
  /\ resets' = 0 /\ y.phase = "serving" => y.release <= Current

LEMMA OneMoves ==
  ASSUME IInv, NEW h \in Hosts, NEW y, Moves(h, y)
  PROVE  IInv'
<1>0. /\ host' = [host EXCEPT ![h] = y] /\ UNCHANGED <<catalog, rows, head>>
      /\ crashes' \in 0 .. MaxCrashes /\ resets' \in 0 .. MaxResets /\ resets <= resets'
      /\ HostInv(y, Current, rows, head)
      /\ Lock(y) => \A g \in Hosts \ {h} : ~Lock(host[g])
      /\ y.phase = "downgrading" => resets' > 0 /\ \A g \in Hosts \ {h} : ~Mig(host[g])
      /\ Mig(y) => \A g \in Hosts \ {h} : host[g].phase # "downgrading"
      /\ resets' = 0 /\ y.phase = "serving" => y.release <= Current
  BY DEF Moves
<1>1. Current' = Current
  BY <1>0, CurrentStays
<1>2. PICK v : v = Current
  OBVIOUS
<1>3. DOMAIN host = Hosts
  BY DEF IInv
<1>4. host'[h] = y /\ \A g \in Hosts \ {h} : host'[g] = host[g]
  BY <1>0, <1>3
<1>5. (DOMAIN host)' = Hosts
  BY <1>0, <1>3
<1>6. \A g \in Hosts : HostInv(host'[g], v, rows, head)
  BY <1>0, <1>2, <1>4 DEF IInv
<1>7. /\ \A f, g \in Hosts : Lock(host[f]) /\ Lock(host[g]) => f = g
      /\ \A f, g \in Hosts : host[f].phase = "downgrading" /\ Mig(host[g]) => f = g
      /\ \A g \in Hosts : host[g].phase = "downgrading" => resets > 0
      /\ \A g \in Hosts : resets = 0 /\ host[g].phase = "serving" => host[g].release <= v
  BY <1>2 DEF IInv, Together
<1>8. \A f, g \in Hosts : Lock(host'[f]) /\ Lock(host'[g]) => f = g
  BY <1>0, <1>4, <1>7
<1>9. \A f, g \in Hosts : host'[f].phase = "downgrading" /\ Mig(host'[g]) => f = g
  BY <1>0, <1>4, <1>7
<1>10. resets \in Nat /\ resets' \in Nat
  BY <1>0, MigrationsAssumption DEF IInv, MigrationsAssumption
<1>11. \A g \in Hosts : host'[g].phase = "downgrading" => resets' > 0
  BY <1>0, <1>4, <1>7, <1>10
<1>12. \A g \in Hosts : resets' = 0 /\ host'[g].phase = "serving" => host'[g].release <= v
  BY <1>0, <1>2, <1>4, <1>7, <1>10
<1>13. Together'
  BY <1>1, <1>2, <1>8, <1>9, <1>11, <1>12 DEF Together, Lock, Mig
<1>14. /\ head' \in 1 .. Len(RevisionIds) /\ v \in 0 .. head' /\ catalog' = SchemaOf(v)
       /\ RowsFit(rows', v)
  BY <1>0, <1>2 DEF IInv
<1>15. \A g \in Hosts : HostInv(host'[g], v, rows', head')
  BY <1>0, <1>6
<1>16. (\A g \in Hosts : HostInv(host[g], Current, rows, head))'
  BY <1>1, <1>2, <1>15
<1>17. (RowsFit(rows, Current))'
  BY <1>1, <1>2, <1>14
<1> QED
  BY <1>0, <1>1, <1>2, <1>5, <1>13, <1>14, <1>16, <1>17 DEF IInv

\* A host with nothing on it, or serving.
LEMMA Idle ==
  ASSUME IInv, NEW y, y = Down \/ \E v \in 1 .. head : y = Serving(v), NEW w, NEW table
  PROVE  HostInv(y, w, table, head) /\ ~Mig(y) /\ ~Lock(y)
<1>1. IsHost(y)
  BY DownIsHost DEF IsHost, Fields, Serving
<1>2. /\ y.phase \in {"down", "serving"} /\ y.release \in 0 .. head
      /\ y.phase = "serving" => y.release # 0
      /\ y.from = 0 /\ y.to = 0 /\ y.at = 0 /\ y.ran = 0 /\ y.own = << >> /\ y.locks = {}
      /\ y.memo = {}
  <2>1. PICK d : d = Down
    OBVIOUS
  <2>2. /\ d.phase = "down" /\ d.release = 0 /\ d.from = 0 /\ d.to = 0 /\ d.at = 0
        /\ d.ran = 0 /\ d.own = << >> /\ d.locks = {} /\ d.memo = {}
    BY <2>1 DEF Down
  <2>3. DOMAIN d = Fields
    BY <2>1, DownIsHost DEF IsHost
  <2>4. head \in Nat /\ head >= 1
    BY FiveVersions DEF IInv
  <2>5. CASE y = d
    BY <2>2, <2>4, <2>5
  <2>6. ASSUME NEW v \in 1 .. head, y = Serving(v)
        PROVE  /\ y.phase = "serving" /\ y.release = v
               /\ y.from = d.from /\ y.to = d.to /\ y.at = d.at /\ y.ran = d.ran
               /\ y.own = d.own /\ y.locks = d.locks /\ y.memo = d.memo
    <3>1. y = [d EXCEPT !.phase = "serving", !.release = v]
      BY <2>1, <2>6 DEF Serving
    <3> QED
      BY <2>3, <3>1 DEF Fields
  <2> QED
    BY <2>1, <2>2, <2>4, <2>5, <2>6
<1>3. ~Mig(y) /\ ~Lock(y)
  BY <1>2 DEF Mig, Lock
<1>4. Bounds(y, head)
  BY <1>1, <1>2, <1>3, FiveVersions DEF Bounds, Mig
<1> QED
  BY <1>2, <1>3, <1>4 DEF HostInv

\* A host goes down.
LEMMA GoesDown ==
  ASSUME IInv, NEW h \in Hosts, host' = [host EXCEPT ![h] = Down],
         UNCHANGED <<catalog, rows, head>>, crashes' \in 0 .. MaxCrashes, UNCHANGED resets
  PROVE  IInv'
<1>1. PICK y : y = Down
  OBVIOUS
<1>2. HostInv(y, Current, rows, head) /\ ~Mig(y) /\ ~Lock(y)
  BY <1>1, Idle
<1>3. y.phase = "down"
  BY <1>1 DEF Down
<1>4. resets \in 0 .. MaxResets /\ resets <= resets
  BY MigrationsAssumption DEF IInv, MigrationsAssumption
<1>5. Moves(h, y)
  BY <1>1, <1>2, <1>3, <1>4 DEF Moves
<1> QED
  BY <1>5, OneMoves

LEMMA FailInv ==
  ASSUME IInv, NEW h \in Hosts, Fail(h)
  PROVE  IInv'
BY GoesDown DEF Fail, IInv

LEMMA StopInv ==
  ASSUME IInv, NEW h \in Hosts, Stop(h)
  PROVE  IInv'
BY GoesDown DEF Stop, IInv

LEMMA CrashInv ==
  ASSUME IInv, NEW h \in Hosts, Crash(h)
  PROVE  IInv'
<1>1. crashes' \in 0 .. MaxCrashes
  BY MigrationsAssumption DEF IInv, MigrationsAssumption, Crash
<1> QED
  BY <1>1, GoesDown DEF Crash

\* An invocation begins, with nothing done.
LEMMA Begins ==
  ASSUME IInv, NEW p \in Phases, NEW t \in Versions, NEW y,
         y = [Down EXCEPT !.phase = p, !.release = head, !.from = Current, !.at = Current,
                          !.to = t],
         p = "upgrading" => t = head,
         p = "downgrading" => t < Current
  PROVE  HostInv(y, Current, rows, head) /\ y.phase = p /\ ~Lock(y)
<1>1. PICK v \in Versions : v = Current
  BY FiveVersions DEF IInv
<1>2. head \in 1 .. 5 /\ v <= head
  BY <1>1, FiveVersions DEF IInv
<1>3. PICK d : d = Down
  OBVIOUS
<1>4. d.ran = 0 /\ d.own = << >> /\ d.locks = {} /\ d.memo = {}
  BY <1>3 DEF Down
<1>5. DOMAIN d = Fields
  BY <1>3, DownIsHost DEF IsHost
<1>6. y = [d EXCEPT !.phase = p, !.release = head, !.from = v, !.at = v, !.to = t]
  BY <1>1, <1>3
<1>7. /\ y.phase = p /\ y.release = head /\ y.from = v /\ y.at = v /\ y.to = t
      /\ y.ran = d.ran /\ y.own = d.own /\ y.locks = d.locks /\ y.memo = d.memo
  BY <1>5, <1>6 DEF Fields
<1>8. y = [f \in Fields |-> y[f]]
  BY <1>5, <1>6
<1>9. ~Lock(y) /\ Mig(y)
  BY <1>4, <1>7 DEF Lock, Mig, Phases
<1>10. v # t => y.ran < Len(Script(p, v))
  <2> SUFFICES ASSUME v # t PROVE Goes(p, v, v)
    BY <1>4, <1>7, ScriptLength
  <2> QED
    BY <1>1, <1>2, FiveVersions DEF Phases, Goes, Passes, Ends
<1>11. Bounds(y, head)
  <2>1. IsHost(y)
    BY <1>8 DEF IsHost
  <2>2. p = "upgrading" => v <= t /\ t # 0
    BY <1>2, FiveVersions
  <2>3. p = "downgrading" => t <= v
    BY <1>1, FiveVersions
  <2>4. head \in 0 .. head /\ v <= v
    BY <1>2, <1>1, FiveVersions
  <2> QED
    BY <1>4, <1>7, <1>9, <1>10, <2>1, <2>2, <2>3, <2>4 DEF Bounds, Phases
<1> QED
  BY <1>1, <1>7, <1>9, <1>11, FiveVersions DEF HostInv

LEMMA StartInv ==
  ASSUME IInv, NEW h \in Hosts, Start(h)
  PROVE  IInv'
<1>1. PICK y : y = [Down EXCEPT !.phase = "upgrading", !.release = head, !.from = Current,
                                !.at = Current, !.to = head]
  OBVIOUS
<1>2. head \in Versions
  BY FiveVersions DEF IInv
<1>3. HostInv(y, Current, rows, head) /\ y.phase = "upgrading" /\ ~Lock(y)
  BY <1>1, <1>2, Begins DEF Phases
<1>4. crashes \in 0 .. MaxCrashes /\ resets \in 0 .. MaxResets /\ resets <= resets
  BY MigrationsAssumption DEF IInv, MigrationsAssumption
<1>5. /\ host' = [host EXCEPT ![h] = y] /\ UNCHANGED <<catalog, rows, head, crashes, resets>>
      /\ \A g \in Hosts : host[g].phase # "downgrading"
  BY <1>1 DEF Start
<1>6. Moves(h, y)
  BY <1>3, <1>4, <1>5 DEF Moves
<1> QED
  BY <1>6, OneMoves

LEMMA ResetInv ==
  ASSUME IInv, NEW h \in Hosts, NEW v \in Versions, Reset(h, v)
  PROVE  IInv'
<1>1. PICK y : y = [Down EXCEPT !.phase = "downgrading", !.release = head, !.from = Current,
                                !.at = Current, !.to = v]
  OBVIOUS
<1>2. v < Current
  BY DEF Reset
<1>3. HostInv(y, Current, rows, head) /\ y.phase = "downgrading" /\ ~Lock(y)
  BY <1>1, <1>2, Begins DEF Phases
<1>4. /\ crashes' \in 0 .. MaxCrashes /\ resets' \in 0 .. MaxResets
      /\ resets <= resets' /\ resets' > 0
  BY MigrationsAssumption DEF IInv, MigrationsAssumption, Reset
<1>5. /\ host' = [host EXCEPT ![h] = y] /\ UNCHANGED <<catalog, rows, head>>
      /\ \A g \in Hosts : ~Migrating(g)
  BY <1>1 DEF Reset
<1>6. \A g \in Hosts : ~Mig(host[g]) /\ host[g].phase # "downgrading"
  BY <1>5 DEF Migrating, Mig
<1>7. Moves(h, y)
  BY <1>3, <1>4, <1>5, <1>6 DEF Moves
<1> QED
  BY <1>7, OneMoves

LEMMA RunInv ==
  ASSUME IInv, NEW h \in Hosts, Run(h)
  PROVE  IInv'
<1>1. PICK y : host' = [host EXCEPT ![h] = y] /\ Ran(h, y)
  BY RunLeadsTo
<1>2. PICK x : x = host[h]
  OBVIOUS
<1>3. y.phase = x.phase /\ y.from = x.from
  BY <1>1, <1>2 DEF Ran
<1>4. Proceeds(h) /\ UNCHANGED <<catalog, rows, head, crashes, resets>>
  BY DEF Run
<1>5. HostInv(x, Current, rows, head)
  BY <1>2 DEF IInv
<1>6. Bounds(y, head) /\ Lock(y)
  BY <1>1, <1>4, RunBounds
<1>7. HostInv(y, Current, rows, head)
  <2>1. CASE x.from = Current
    BY <1>1, <1>2, <1>3, <1>4, <1>5, <1>6, <2>1, RunOnPath DEF HostInv
  <2>2. CASE x.from # Current
    BY <1>1, <1>2, <1>3, <1>5, <1>6, <2>2, RunOvertaken DEF HostInv
  <2> QED
    BY <2>1, <2>2
<1>8. Mig(x) /\ \A g \in Hosts \ {h} : ~Lock(host[g])
  BY <1>2, <1>4 DEF Proceeds, Migrating, Mig, Locking, Lock
<1>9. /\ x.phase = "downgrading" => resets > 0 /\ \A g \in Hosts \ {h} : ~Mig(host[g])
      /\ \A g \in Hosts \ {h} : host[g].phase # "downgrading"
      /\ x.phase # "serving"
  BY <1>2, <1>8 DEF IInv, Together, Mig
<1>10. crashes \in 0 .. MaxCrashes /\ resets \in 0 .. MaxResets /\ resets <= resets
  BY MigrationsAssumption DEF IInv, MigrationsAssumption
<1>11. Moves(h, y)
  BY <1>1, <1>3, <1>4, <1>7, <1>8, <1>9, <1>10 DEF Moves
<1> QED
  BY <1>11, OneMoves

LEMMA ReleaseInv ==
  ASSUME IInv, Release
  PROVE  IInv'
<1>1. Current' = Current
  BY CurrentStays DEF Release
<1>2. PICK v : v = Current
  OBVIOUS
<1>3. /\ head \in Nat /\ head' = head + 1 /\ head' \in 1 .. Len(RevisionIds)
      /\ UNCHANGED <<catalog, rows, host, crashes, resets>>
  BY FiveVersions DEF IInv, Release
<1>4. ASSUME NEW h \in Hosts
      PROVE  HostInv(host[h], v, rows, head')
  <2>1. PICK x : x = host[h]
    OBVIOUS
  <2>2. HostInv(x, v, rows, head)
    BY <1>2, <2>1 DEF IInv
  <2>3. Bounds(x, head') <=> Bounds(x, head) /\ x.release \in 0 .. head'
    BY <2>2, <1>3 DEF HostInv, Bounds
  <2>4. x.release \in 0 .. head'
    BY <1>3, <2>2 DEF HostInv, Bounds
  <2> QED
    BY <2>1, <2>2, <2>3, <2>4 DEF HostInv
<1>5. (\A h \in Hosts : HostInv(host[h], Current, rows, head))'
  BY <1>1, <1>2, <1>3, <1>4
<1>6. (RowsFit(rows, Current))'
  BY <1>1, <1>3 DEF IInv
<1>7. Together'
  BY <1>1, <1>3 DEF IInv, Together
<1>8. /\ (crashes \in 0 .. MaxCrashes /\ resets \in 0 .. MaxResets)'
      /\ (Current \in 0 .. head /\ catalog = SchemaOf(Current) /\ DOMAIN host = Hosts)'
  BY <1>1, <1>3 DEF IInv
<1> QED
  BY <1>3, <1>5, <1>6, <1>7, <1>8 DEF IInv

-----------------------------------------------------------------------------
(* Writes to the tables.                                                   *)

\* What a path has converted, or pinned, it has locked.
LEMMA LocksHere ==
  ASSUME NEW x, NEW k, Bounds(x, k), Mig(x)
  PROVE  LocksRows(x.phase, x.from, x.at, x.ran)
<1>1. CASE x.at # x.to
  BY <1>1, Standing, PlaceOnPath
<1>2. CASE x.at = x.to
  <2>1. x.phase \in Phases /\ x.from \in Versions /\ x.at \in Versions /\ x.ran = 0
    BY <1>2 DEF Bounds, Mig, Phases
  <2>2. Passes(x.phase, x.from, x.at)
    BY <2>1 DEF Bounds, Passes, Phases
  <2> QED
    BY <2>1, <2>2, ScriptsAssumption DEF ScriptsAssumption, PathsEnd
<1> QED
  BY <1>1, <1>2

\* A row that nobody has locked is written, in a state that the schema has.
LEMMA OnPathServed ==
  ASSUME NEW x, NEW k, Bounds(x, k), Mig(x), NEW table, OnPath(x, table),
         NEW r \in RowIds, Home(r) \notin x.locks, r \notin DOMAIN x.own,
         NEW row \in Row, row.state \in StatesIn(EnumOf(r), SchemaOf(x.from)),
         NEW after, after[r] = row, \A q \in RowIds \ {r} : after[q] = table[q]
  PROVE  OnPath(x, after)
<1>1. LocksRows(x.phase, x.from, x.at, x.ran)
  BY LocksHere
<1>2. x.locks = PathLocks(x.phase, x.from, x.at, x.ran)
  BY DEF OnPath
<1>3. row.state \notin Converted(x.phase, x.from, x.at, x.ran)
  <2>1. CASE EnumOf(r) = "role"
    BY <1>1, <1>2, <2>1, RowKinds DEF LocksRows
  <2>2. CASE EnumOf(r) = "task_status"
    BY <1>1, <1>2, <2>2, RowKinds DEF LocksRows
  <2> QED
    BY <2>1, <2>2, RowKinds
<1>4. SeenRow(x, after, r) = row
  BY DEF SeenRow
<1>5. \A q \in RowIds \ {r} : SeenRow(x, after, q) = SeenRow(x, table, q)
  BY DEF SeenRow
<1>6. /\ x.sees  = PathSees(x.phase, x.at, x.ran)
      /\ x.memo  = PathMemo(x.phase, x.from, x.at, x.ran)
      /\ \A q \in RowIds :
           /\ SeenRow(x, table, q) \in Row
           /\ SeenRow(x, table, q).state # "none" =>
                SeenRow(x, table, q).state \in
                  StatesIn(EnumOf(q), SchemaOf(x.from)) \ Converted(x.phase, x.from, x.at, x.ran)
      /\ PathPins(x.phase, x.from, x.at, x.ran) =>
           \A t \in Tasks : SeenRow(x, table, t).state = "assigned" =>
                              t \in DOMAIN x.own /\ x.own[t].pinned
  BY DEF OnPath
<1>7. ASSUME NEW q \in RowIds
      PROVE  /\ SeenRow(x, after, q) \in Row
             /\ SeenRow(x, after, q).state # "none" =>
                  SeenRow(x, after, q).state \in
                    StatesIn(EnumOf(q), SchemaOf(x.from))
                      \ Converted(x.phase, x.from, x.at, x.ran)
  <2>1. CASE q = r
    BY <1>3, <1>4, <2>1
  <2>2. CASE q # r
    BY <1>5, <1>6, <2>2
  <2> QED
    BY <2>1, <2>2
<1>8. ASSUME PathPins(x.phase, x.from, x.at, x.ran), NEW t \in Tasks,
             SeenRow(x, after, t).state = "assigned"
      PROVE  t \in DOMAIN x.own /\ x.own[t].pinned
  <2>1. "tasks" \in x.locks
    BY <1>1, <1>2, <1>8 DEF LocksRows
  <2>2. t \in RowIds \ {r}
    BY <2>1, RowKinds
  <2> QED
    BY <1>5, <1>6, <1>8, <2>2
<1> QED
  BY <1>2, <1>6, <1>7, <1>8 DEF OnPath

LEMMA ServeInv ==
  ASSUME IInv, NEW h \in Hosts, NEW r \in RowIds, NEW state \in States(r), Serve(h, r, state)
  PROVE  IInv'
<1>1. Current' = Current
  BY CurrentStays DEF Serve
<1>2. PICK v \in Versions : v = Current
  BY FiveVersions DEF IInv
<1>3. PICK row : row = [state |-> state,
                        pinned |-> rows[r].pinned \/ (state = "assigned" /\ host[h].release >= 2)]
  OBVIOUS
<1>4. rows \in [RowIds -> Row] /\ catalog = SchemaOf(v)
  BY <1>2 DEF IInv, RowsFit
<1>5. rows' = [rows EXCEPT ![r] = row]
  BY <1>3, <1>4 DEF Serve
<1>6. UNCHANGED <<catalog, head, host, crashes, resets>>
  BY DEF Serve
<1>7. state \in AllStates
  BY DEF States, AllStates
<1>8. state \in StatesIn(EnumOf(r), SchemaOf(v))
  BY <1>4, <1>7 DEF Serve, StatesIn
<1>9. row \in Row /\ row.state = state
  BY <1>3, <1>7 DEF Row
<1>10. RowsFit(rows', v)
  <2>1. rows' \in [RowIds -> Row]
    BY <1>4, <1>5, <1>9
  <2>2. ASSUME NEW q \in RowIds, rows'[q].state # "none"
        PROVE  rows'[q].state \in StatesIn(EnumOf(q), SchemaOf(v))
    <3>1. CASE q = r
      BY <1>4, <1>5, <1>8, <1>9, <3>1
    <3>2. CASE q # r
      BY <1>2, <1>4, <1>5, <2>2, <3>2 DEF IInv, RowsFit
    <3> QED
      BY <3>1, <3>2
  <2> QED
    BY <2>1, <2>2 DEF RowsFit
<1>11. ASSUME NEW g \in Hosts
       PROVE  HostInv(host[g], v, rows', head)
  <2>1. PICK x : x = host[g]
    OBVIOUS
  <2>2. HostInv(x, v, rows, head)
    BY <1>2, <2>1 DEF IInv
  <2>3. Home(r) \notin x.locks /\ r \notin DOMAIN x.own
    BY <2>1 DEF Serve
  <2>4. ASSUME Lock(x), x.from = v
        PROVE  OnPath(x, rows')
    <3>1. OnPath(x, rows) /\ Bounds(x, head) /\ Mig(x)
      BY <2>2, <2>4 DEF HostInv, Bounds
    <3>2. rows'[r] = row /\ \A q \in RowIds \ {r} : rows'[q] = rows[q]
      BY <1>4, <1>5
    <3>3. PICK after : after = rows'
      OBVIOUS
    <3> QED
      BY <1>8, <1>9, <2>3, <2>4, <3>1, <3>2, <3>3, OnPathServed
  <2> QED
    BY <2>1, <2>2, <2>4 DEF HostInv
<1>12. (\A g \in Hosts : HostInv(host[g], Current, rows, head))'
  BY <1>1, <1>2, <1>6, <1>11
<1>13. (RowsFit(rows, Current))'
  BY <1>1, <1>2, <1>10
<1>14. Together'
  BY <1>1, <1>6 DEF IInv, Together
<1>15. /\ (crashes \in 0 .. MaxCrashes /\ resets \in 0 .. MaxResets)'
       /\ (head \in 1 .. Len(RevisionIds) /\ Current \in 0 .. head)'
       /\ (catalog = SchemaOf(Current) /\ DOMAIN host = Hosts)'
  BY <1>1, <1>6 DEF IInv
<1> QED
  BY <1>12, <1>13, <1>14, <1>15 DEF IInv

-----------------------------------------------------------------------------
(* The end of a transaction.                                               *)

\* What is left of rows whose states the schema has, as far as it has their tables.
LEMMA KeptFits ==
  ASSUME NEW v \in Versions, NEW table,
         \A r \in RowIds :
           /\ table[r] \in Row
           /\ table[r].state # "none" /\ Table(Home(r)) \in SchemaOf(v) =>
                table[r].state \in StatesIn(EnumOf(r), SchemaOf(v))
  PROVE  /\ RowsFit(Kept(SchemaOf(v), table), v)
         /\ \A r \in RowIds :
              LET k == Kept(SchemaOf(v), table)[r] IN
              /\ k.state \in {"none", table[r].state}
              /\ k.state # "none" /\ table[r].pinned
                   /\ Column("tasks", "pinned_rubric_id") \in SchemaOf(v) => k.pinned
<1>1. PICK kept : kept = Kept(SchemaOf(v), table)
  OBVIOUS
<1>2. DOMAIN kept = RowIds /\ kept = [r \in RowIds |-> kept[r]]
  BY <1>1 DEF Kept
<1>3. PICK has : has = (Column("tasks", "pinned_rubric_id") \in SchemaOf(v))
  OBVIOUS
<1>4. ASSUME NEW r \in RowIds
      PROVE  /\ kept[r] \in Row /\ kept[r].state \in {"none", table[r].state}
             /\ kept[r].state # "none" => kept[r].state \in StatesIn(EnumOf(r), SchemaOf(v))
             /\ kept[r].state # "none" /\ table[r].pinned /\ has => kept[r].pinned
  <2>1. CASE Table(Home(r)) \notin SchemaOf(v)
    <3>1. kept[r] = Absent
      BY <1>1, <2>1 DEF Kept
    <3> QED
      BY <3>1 DEF Absent, Row
  <2>2. CASE Table(Home(r)) \in SchemaOf(v)
    <3>1. kept[r] = [table[r] EXCEPT !.pinned = table[r].pinned /\ has]
      BY <1>1, <1>3, <2>2 DEF Kept
    <3>2. table[r] \in Row
      OBVIOUS
    <3>3. kept[r] \in Row /\ kept[r].state = table[r].state
      BY <3>1, <3>2 DEF Row
    <3>4. table[r].pinned /\ has => kept[r].pinned
      BY <3>1, <3>2 DEF Row
    <3> QED
      BY <2>2, <3>3, <3>4
  <2> QED
    BY <2>1, <2>2
<1>5. kept \in [RowIds -> Row]
  BY <1>2, <1>4
<1>6. RowsFit(kept, v)
  BY <1>4, <1>5 DEF RowsFit
<1> QED
  BY <1>1, <1>3, <1>4, <1>6

\* An invocation that is done but had nothing to do.
LEMMA NothingDone ==
  ASSUME IInv, NEW h \in Hosts, Commit(h), ~Lock(host[h])
  PROVE  /\ UNCHANGED catalog /\ RowsFit(rows', Current)
         /\ \A r \in RowIds : rows'[r].state \in {"none", rows[r].state}
         /\ host[h].phase = "upgrading" => host[h].release <= Current
<1>1. PICK v \in Versions : v = Current
  BY FiveVersions DEF IInv
<1>2. PICK x : x = host[h]
  OBVIOUS
<1>3. HostInv(x, v, rows, head) /\ ~Lock(x) /\ x.at = x.to
  BY <1>1, <1>2 DEF IInv, Commit, Done
<1>4. catalog' = catalog /\ catalog = SchemaOf(v)
  BY <1>1 DEF Commit, Locking, Lock, IInv
<1>5. x.own = << >>
  BY <1>3 DEF HostInv, Bounds
<1>6. PICK seen : seen = RowsSeen(h)
  OBVIOUS
<1>7. \A r \in RowIds : seen[r] = rows[r]
  BY <1>2, <1>5, <1>6 DEF RowsSeen
<1>8. rows' = Kept(SchemaOf(v), seen)
  BY <1>4, <1>6 DEF Commit
<1>9. \A r \in RowIds : /\ seen[r] \in Row
                        /\ seen[r].state # "none" =>
                             seen[r].state \in StatesIn(EnumOf(r), SchemaOf(v))
  BY <1>1, <1>7 DEF IInv, RowsFit
<1>10. RowsFit(rows', v) /\ \A r \in RowIds : rows'[r].state \in {"none", seen[r].state}
  BY <1>8, <1>9, KeptFits
<1>11. x.phase = "upgrading" => x.release <= v
  BY <1>3, FiveVersions DEF HostInv, Bounds, Lock
<1> QED
  BY <1>1, <1>2, <1>4, <1>7, <1>10, <1>11

\* One that has run a script: it has not been overtaken.
LEMMA ScriptDone ==
  ASSUME IInv, NEW h \in Hosts, Commit(h), Lock(host[h]), NEW x, x = host[h]
  PROVE  /\ x.from = Current /\ x.phase \in Phases /\ x.to \in 0 .. head
         /\ x.ran = 0 /\ x.at = x.to /\ OnPath(x, rows)
         /\ x.phase = "upgrading" => Current <= x.to /\ x.release = x.to
         /\ catalog' = SchemaOf(x.to) /\ RowsFit(rows', x.to)
<1>1. PICK v \in Versions : v = Current
  BY FiveVersions DEF IInv
<1>2. HostInv(x, v, rows, head) /\ Bounds(x, head)
  BY <1>1 DEF IInv, HostInv
<1>3. Mig(x) /\ x.at = x.to
  BY DEF Commit, Migrating, Mig, Done
<1>4. x.ran = 0 /\ x.at # x.from
  BY <1>2, <1>3 DEF Bounds, Lock
<1>5. x.from = v /\ OnPath(x, rows)
  BY <1>2, <1>4 DEF HostInv, Overtaken
<1>6. x.phase \in Phases /\ x.to \in Versions /\ x.from \in Versions
  BY <1>2, <1>3 DEF Bounds, Mig, Phases
<1>7. head \in 1 .. 5 /\ v <= head
  BY <1>1, FiveVersions DEF IInv
<1>8. /\ x.phase = "upgrading" => v <= x.to /\ x.release = x.to /\ x.release <= head
      /\ x.phase = "downgrading" => x.to <= v
  BY <1>2, <1>3, <1>5, <1>6, FiveVersions DEF Bounds
<1>9. x.to \in 0 .. head
  BY <1>6, <1>7, <1>8, FiveVersions DEF Phases
<1>10. catalog' = SchemaOf(x.to)
  <2>1. catalog' = x.sees
    BY DEF Commit, Locking, Lock
  <2> QED
    BY <1>3, <1>4, <1>5, <2>1 DEF OnPath, PathSees
<1>11. PICK seen : seen = RowsSeen(h)
  OBVIOUS
<1>12. rows' = Kept(SchemaOf(x.to), seen)
  BY <1>10, <1>11 DEF Commit
<1>13. PICK was : was = Converted(x.phase, x.from, x.to, 0)
  OBVIOUS
<1>14. \A r \in RowIds : /\ seen[r] \in Row
                         /\ seen[r].state # "none" =>
                              seen[r].state \in StatesIn(EnumOf(r), SchemaOf(x.from)) \ was
  BY <1>3, <1>4, <1>5, <1>11, <1>13, RowsSeenBy DEF OnPath
<1>15. LeavesRows(x.phase, x.from, x.to)
  <2>1. Passes(x.phase, x.from, x.to)
    BY <1>1, <1>5, <1>6, <1>8 DEF Passes, Phases
  <2> QED
    BY <1>6, <2>1, ScriptsAssumption DEF ScriptsAssumption, PathsEnd
<1>16. ASSUME NEW r \in RowIds, seen[r].state # "none", Table(Home(r)) \in SchemaOf(x.to)
       PROVE  seen[r].state \in StatesIn(EnumOf(r), SchemaOf(x.to))
  <2>1. PICK e \in {"task_status", "role"} : e = EnumOf(r)
    BY RowKinds
  <2>2. PICK z \in StatesIn(e, SchemaOf(x.from)) \ was : z = seen[r].state
    BY <1>14, <1>16, <2>1
  <2>3. Table(IF e = "role" THEN "api_keys" ELSE "tasks") \in SchemaOf(x.to)
    BY <1>16, <2>1, RowKinds
  <2>4. Value(e, z) \in SchemaOf(x.to)
    BY <1>13, <1>15, <2>2, <2>3 DEF LeavesRows
  <2> QED
    BY <2>1, <2>2, <2>4 DEF StatesIn
<1>17. RowsFit(rows', x.to)
  BY <1>6, <1>12, <1>14, <1>16, KeptFits
<1> QED
  BY <1>1, <1>3, <1>4, <1>5, <1>6, <1>8, <1>9, <1>10, <1>17

\* A row may go; what is left keeps its state.
LEMMA OnPathKept ==
  ASSUME NEW x, NEW table, OnPath(x, table), NEW after,
         \A r \in RowIds : after[r] \in Row /\ after[r].state \in {"none", table[r].state}
  PROVE  OnPath(x, after)
<1>1. ASSUME NEW r \in RowIds
      PROVE  /\ SeenRow(x, after, r) \in Row
             /\ SeenRow(x, after, r).state # "none" =>
                  SeenRow(x, after, r).state = SeenRow(x, table, r).state
             /\ SeenRow(x, table, r) \in Row
             /\ SeenRow(x, table, r).state # "none" =>
                  SeenRow(x, table, r).state \in
                    StatesIn(EnumOf(r), SchemaOf(x.from))
                      \ Converted(x.phase, x.from, x.at, x.ran)
  <2>1. SeenRow(x, table, r) \in Row
    BY DEF OnPath
  <2>2. SeenRow(x, table, r).state # "none" =>
          SeenRow(x, table, r).state \in
            StatesIn(EnumOf(r), SchemaOf(x.from)) \ Converted(x.phase, x.from, x.at, x.ran)
    BY DEF OnPath
  <2>3. CASE r \in DOMAIN x.own
    BY <2>1, <2>2, <2>3 DEF SeenRow
  <2>4. CASE r \notin DOMAIN x.own
    BY <2>1, <2>2, <2>4 DEF SeenRow
  <2> QED
    BY <2>3, <2>4
<1>2. ASSUME PathPins(x.phase, x.from, x.at, x.ran), NEW t \in Tasks,
             SeenRow(x, after, t).state = "assigned"
      PROVE  t \in DOMAIN x.own /\ x.own[t].pinned
  <2>1. SeenRow(x, table, t).state = "assigned"
    BY <1>1, <1>2, RowKinds
  <2> QED
    BY <1>2, <2>1 DEF OnPath
<1>3. /\ x.sees  = PathSees(x.phase, x.at, x.ran)
      /\ x.memo  = PathMemo(x.phase, x.from, x.at, x.ran)
      /\ x.locks = PathLocks(x.phase, x.from, x.at, x.ran)
  BY DEF OnPath
<1>4. \A r \in RowIds :
        /\ SeenRow(x, after, r) \in Row
        /\ SeenRow(x, after, r).state # "none" =>
             SeenRow(x, after, r).state \in
               StatesIn(EnumOf(r), SchemaOf(x.from)) \ Converted(x.phase, x.from, x.at, x.ran)
  BY <1>1
<1> QED
  BY <1>2, <1>3, <1>4 DEF OnPath

LEMMA CommitInv ==
  ASSUME IInv, NEW h \in Hosts, Commit(h)
  PROVE  IInv'
<1>1. PICK v \in Versions : v = Current
  BY FiveVersions DEF IInv
<1>2. PICK x : x = host[h]
  OBVIOUS
<1>3. PICK y : y = IF x.phase = "upgrading" THEN Serving(x.release) ELSE Down
  OBVIOUS
<1>4. /\ host' = [host EXCEPT ![h] = y] /\ UNCHANGED <<head, crashes, resets>>
      /\ Mig(x) /\ x.at = x.to
  BY <1>2, <1>3 DEF Commit, Migrating, Mig, Done
<1>5. HostInv(x, v, rows, head) /\ Bounds(x, head)
  BY <1>1, <1>2 DEF IInv, HostInv
<1>6. y = Down \/ \E w \in 1 .. head : y = Serving(w)
  BY <1>3, <1>4, <1>5, FiveVersions DEF Bounds, Mig, IInv
<1>7. \A w, table : HostInv(y, w, table, head) /\ ~Mig(y) /\ ~Lock(y)
  BY <1>6, Idle
<1>8. /\ y.phase \in {"down", "serving"}
      /\ y.phase = "serving" => x.phase = "upgrading" /\ y.release = x.release
  <2>1. Down.phase = "down" /\ DOMAIN Down = Fields
    BY DownIsHost DEF Down, IsHost
  <2>2. Serving(x.release).phase = "serving" /\ Serving(x.release).release = x.release
    BY <2>1 DEF Serving, Fields
  <2> QED
    BY <1>3, <2>1, <2>2
<1>9. PICK w \in 0 .. head :
        /\ catalog' = SchemaOf(w) /\ RowsFit(rows', w)
        /\ x.phase = "upgrading" => v <= w /\ x.release <= w
        /\ \A g \in Hosts \ {h} : Lock(host[g]) =>
             w = v /\ \A r \in RowIds : rows'[r].state \in {"none", rows[r].state}
  <2>1. CASE ~Lock(x)
    BY <1>1, <1>2, <2>1, NothingDone DEF IInv
  <2>2. CASE Lock(x)
    <3>1. \A g \in Hosts \ {h} : ~Lock(host[g])
      BY <1>2, <2>2 DEF IInv, Together
    <3>2. /\ x.to \in 0 .. head /\ catalog' = SchemaOf(x.to) /\ RowsFit(rows', x.to)
          /\ x.phase = "upgrading" => v <= x.to /\ x.release = x.to
      BY <1>1, <1>2, <2>2, ScriptDone
    <3> QED
      BY <3>1, <3>2
  <2> QED
    BY <2>1, <2>2
<1>10. w \in Versions /\ Current' = w
  <2>1. w \in Versions
    BY FiveVersions DEF IInv
  <2> QED
    BY <1>9, <2>1, CurrentBecomes
<1>11. /\ host'[h] = y /\ (\A g \in Hosts \ {h} : host'[g] = host[g]) /\ DOMAIN host' = Hosts
  BY <1>4 DEF IInv
<1>12. /\ x.phase # "upgrading" => x.phase = "downgrading"
       /\ \A g \in Hosts : host[g].phase = "downgrading" => g = h
       /\ x.phase = "downgrading" => resets > 0 /\ \A g \in Hosts \ {h} : ~Mig(host[g])
       /\ \A f, g \in Hosts : Lock(host[f]) /\ Lock(host[g]) => f = g
       /\ \A g \in Hosts : resets = 0 /\ host[g].phase = "serving" => host[g].release <= v
  BY <1>1, <1>2, <1>4 DEF IInv, Together, Mig
<1>13. ASSUME NEW g \in Hosts \ {h}
       PROVE  HostInv(host[g], w, rows', head)
  <2>1. PICK z : z = host[g]
    OBVIOUS
  <2>2. HostInv(z, v, rows, head) /\ Bounds(z, head)
    BY <1>1, <2>1 DEF IInv, HostInv
  <2>3. z.phase # "downgrading"
    BY <1>12, <2>1
  <2>4. z.phase = "upgrading" => z.from <= w
    <3> SUFFICES ASSUME z.phase = "upgrading" PROVE z.from <= w
      OBVIOUS
    <3>1. z.from <= v /\ z.from \in 0 .. 5
      BY <2>2, FiveVersions DEF HostInv, Bounds
    <3>2. x.phase = "upgrading"
      BY <1>12, <2>1 DEF Mig
    <3> QED
      BY <1>9, <1>10, <3>1, <3>2, FiveVersions
  <2>5. ASSUME Lock(z)
        PROVE  z.from = w => OnPath(z, rows')
    <3>1. w = v /\ \A r \in RowIds : rows'[r].state \in {"none", rows[r].state}
      BY <1>9, <2>1, <2>5
    <3>2. \A r \in RowIds : rows'[r] \in Row
      BY <1>9 DEF RowsFit
    <3>3. z.from = v => OnPath(z, rows)
      BY <2>2, <2>5 DEF HostInv
    <3> QED
      BY <3>1, <3>2, <3>3, OnPathKept
  <2>6. Lock(z) /\ z.from # w => Overtaken(z, w)
    BY <1>9, <2>1, <2>2 DEF HostInv
  <2> QED
    BY <2>1, <2>2, <2>3, <2>4, <2>5, <2>6 DEF HostInv
<1>14. (\A g \in Hosts : HostInv(host[g], Current, rows, head))'
  <2>1. \A g \in Hosts : HostInv(host'[g], w, rows', head)
    BY <1>7, <1>11, <1>13
  <2> QED
    BY <1>4, <1>10, <2>1
<1>15. \A f, g \in Hosts : Lock(host'[f]) /\ Lock(host'[g]) => f = g
  BY <1>7, <1>11, <1>12
<1>16. \A g \in Hosts : host'[g].phase # "downgrading"
  BY <1>8, <1>11, <1>12
<1>17. \A g \in Hosts : resets = 0 /\ host'[g].phase = "serving" => host'[g].release <= w
  <2> SUFFICES ASSUME NEW g \in Hosts, resets = 0, host'[g].phase = "serving"
               PROVE  host'[g].release <= w
    OBVIOUS
  <2>1. x.phase = "upgrading"
    BY <1>12
  <2>2. CASE g = h
    BY <1>8, <1>9, <1>11, <2>1, <2>2
  <2>3. CASE g # h
    <3>1. host[g].release <= v /\ v <= w
      BY <1>9, <1>11, <1>12, <2>1, <2>3
    <3>2. host[g].release \in 0 .. head /\ head \in Nat
      BY FiveVersions DEF IInv, HostInv, Bounds
    <3> QED
      BY <1>1, <1>10, <1>11, <2>3, <3>1, <3>2, FiveVersions
  <2> QED
    BY <2>2, <2>3
<1>18. Together'
  BY <1>4, <1>10, <1>15, <1>16, <1>17 DEF Together, Lock
<1>19. (RowsFit(rows, Current))'
  BY <1>9, <1>10
<1>20. /\ (head \in 1 .. Len(RevisionIds) /\ crashes \in 0 .. MaxCrashes)'
       /\ (resets \in 0 .. MaxResets /\ Current \in 0 .. head)'
       /\ (catalog = SchemaOf(Current) /\ DOMAIN host = Hosts)'
  BY <1>4, <1>9, <1>10, <1>11 DEF IInv
<1> QED
  BY <1>14, <1>18, <1>19, <1>20 DEF IInv

-----------------------------------------------------------------------------
(* The invariant.                                                          *)

LEMMA InitInv == Init => IInv
<1> SUFFICES ASSUME Init PROVE IInv
  OBVIOUS
<1>1. 0 \in Versions /\ catalog = SchemaOf(0)
  BY FiveVersions DEF Init, SchemaOf
<1>2. Current = 0
  BY <1>1, CurrentIs
<1>3. head = 1 /\ head \in 1 .. Len(RevisionIds) /\ 0 \in 0 .. head
  BY FiveVersions DEF Init
<1>4. RowsFit(rows, 0)
  BY DEF Init, RowsFit, Absent, Row
<1>5. PICK d : d = Down
  OBVIOUS
<1>6. /\ d.phase = "down" /\ d.release = 0 /\ d.from = 0 /\ d.to = 0 /\ d.at = 0 /\ d.ran = 0
      /\ d.own = << >> /\ d.locks = {} /\ d.memo = {} /\ IsHost(d)
  BY <1>5, DownIsHost DEF Down
<1>7. ~Mig(d) /\ ~Lock(d)
  BY <1>6 DEF Mig, Lock
<1>8. HostInv(d, 0, rows, head)
  BY <1>3, <1>6, <1>7, FiveVersions DEF HostInv, Bounds, Mig
<1>9. host = [h \in Hosts |-> d]
  BY <1>5 DEF Init
<1>10. Together
  BY <1>6, <1>7, <1>9 DEF Together
<1>11. crashes \in 0 .. MaxCrashes /\ resets \in 0 .. MaxResets
  BY MigrationsAssumption DEF MigrationsAssumption, Init
<1> QED
  BY <1>1, <1>2, <1>3, <1>4, <1>8, <1>9, <1>10, <1>11 DEF IInv

LEMMA NextInv == IInv /\ [Next]_vars => IInv'
<1> SUFFICES ASSUME IInv, [Next]_vars PROVE IInv'
  OBVIOUS
<1>1. CASE Release
  BY <1>1, ReleaseInv
<1>2. ASSUME NEW h \in Hosts, Start(h) \/ Run(h) \/ Fail(h) \/ Crash(h) \/ Commit(h) \/ Stop(h)
      PROVE  IInv'
  BY <1>2, StartInv, RunInv, FailInv, CrashInv, CommitInv, StopInv
<1>3. ASSUME NEW h \in Hosts, NEW v \in Versions, Reset(h, v)
      PROVE  IInv'
  BY <1>3, ResetInv
<1>4. ASSUME NEW h \in Hosts, NEW r \in RowIds, NEW state \in States(r), Serve(h, r, state)
      PROVE  IInv'
  BY <1>4, ServeInv
<1>5. CASE UNCHANGED vars
  <2>1. UNCHANGED <<catalog, rows, head, host, crashes, resets>>
    BY <1>5 DEF vars
  <2>2. Current' = Current
    BY <2>1, CurrentStays
  <2>3. (\A h \in Hosts : HostInv(host[h], Current, rows, head))' /\ (RowsFit(rows, Current))'
    BY <2>1, <2>2 DEF IInv
  <2>4. Together'
    BY <2>1, <2>2 DEF IInv, Together
  <2>5. /\ (head \in 1 .. Len(RevisionIds) /\ crashes \in 0 .. MaxCrashes)'
        /\ (resets \in 0 .. MaxResets /\ Current \in 0 .. head)'
        /\ (catalog = SchemaOf(Current) /\ DOMAIN host = Hosts)'
    BY <2>1, <2>2 DEF IInv
  <2> QED
    BY <2>3, <2>4, <2>5 DEF IInv
<1> QED
  BY <1>1, <1>2, <1>3, <1>4, <1>5 DEF Next

\* Where every invocation is, what it sees, has locked and has converted, and whom another
\* has overtaken, whatever races, dies or is taken back (run_migrations_online).
THEOREM MigrationsInvariant == Spec => []IInv
BY InitInv, NextInv, PTL DEF Spec

-----------------------------------------------------------------------------
(* What follows from it.                                                   *)

\* CatalogOfItsVersion: the committed schema is the one its version row says.
LEMMA InvCatalog == IInv => CatalogOfItsVersion
<1> SUFFICES ASSUME IInv PROVE CatalogOfItsVersion
  OBVIOUS
<1>1. PICK v \in Versions : v = Current /\ catalog = SchemaOf(v)
  BY FiveVersions DEF IInv
<1>2. /\ catalog \subseteq Schema5 \cup UNION {Stamp(w) : w \in Versions}
      /\ Drift(SchemaOf(Len(RevisionIds))) = {}
  BY <1>1, ScriptsAssumption DEF ScriptsAssumption, SchemasFit
<1>3. NoDrift
  BY <1>1, <1>2 DEF NoDrift
<1>4. \A r \in RowIds : rows[r].state \in States(r) \cup {"none"} /\ rows[r].pinned \in BOOLEAN
  <2> SUFFICES ASSUME NEW r \in RowIds
               PROVE  rows[r].state \in States(r) \cup {"none"} /\ rows[r].pinned \in BOOLEAN
    OBVIOUS
  <2>1. rows[r] \in Row /\ (rows[r].state # "none" =>
                              rows[r].state \in StatesIn(EnumOf(r), SchemaOf(v)))
    BY <1>1 DEF IInv, RowsFit
  <2> QED
    BY <2>1, StatesKnown DEF Row
<1>5. ASSUME NEW h \in Hosts
      PROVE  /\ host[h].phase \in {"down", "upgrading", "downgrading", "serving"}
             /\ host[h].release \in 0 .. head
             /\ Migrating(h) /\ ~Done(h) => host[h].ran < Len(Revision(h))
  <2>1. PICK x : x = host[h]
    OBVIOUS
  <2>2. Bounds(x, head)
    BY <2>1 DEF IInv, HostInv
  <2>3. Revision(h) = IF x.phase = "upgrading" THEN Upgrade[x.at + 1] ELSE Downgrade[x.at]
    BY <2>1 DEF Revision
  <2> QED
    BY <2>1, <2>2, <2>3 DEF Bounds, Mig, Migrating, Done, Script
<1>6. head \in Versions \ {0} /\ crashes \in 0 .. MaxCrashes /\ resets \in 0 .. MaxResets
  BY FiveVersions DEF IInv
<1>7. TypeOK
  BY <1>2, <1>4, <1>5, <1>6 DEF TypeOK
<1> QED
  BY <1>1, <1>3, <1>7 DEF CatalogOfItsVersion

\* ServingTasksRead: what serves finds what its models map.
LEMMA InvServing == IInv => ServingTasksRead
<1> SUFFICES ASSUME IInv, resets = 0, NEW h \in Hosts, host[h].phase = "serving"
             PROVE  MappedBy[host[h].release] \subseteq catalog
  BY DEF ServingTasksRead
<1>1. PICK v \in Versions : v = Current /\ catalog = SchemaOf(v)
  BY FiveVersions DEF IInv
<1>2. host[h].release <= v
  BY <1>1 DEF IInv, Together
<1>3. host[h].release \in 0 .. head /\ host[h].release # 0 /\ head \in 1 .. 5
  BY FiveVersions DEF IInv, HostInv, Bounds
<1>4. host[h].release \in Versions \ {0}
  BY <1>3, FiveVersions
<1> QED
  BY <1>1, <1>2, <1>4, ScriptsAssumption DEF ScriptsAssumption, SchemasFit

\* InProgressPinned: the upgrade that brings the pins sets them.
LEMMA StepPins ==
  ASSUME IInv, [Next]_vars, Current < 2, Current' >= 2, NEW t \in Tasks,
         rows'[t].state = "assigned"
  PROVE  rows'[t].pinned
<1>1. PICK h \in Hosts : Commit(h)
  <2>1. CASE UNCHANGED catalog
    <3>1. Current' = Current
      BY <2>1, CurrentStays
    <3>2. Current \in Nat
      BY FiveVersions DEF IInv
    <3> QED
      BY <3>1, <3>2
  <2>2. CASE ~UNCHANGED catalog
    BY <2>2 DEF Next, vars, Release, Start, Run, Fail, Crash, Stop, Reset, Serve
  <2> QED
    BY <2>1, <2>2
<1>2. PICK v \in Versions : v = Current
  BY FiveVersions DEF IInv
<1>3. Lock(host[h])
  <2> SUFFICES ASSUME ~Lock(host[h]) PROVE FALSE
    OBVIOUS
  <2>1. Current' = Current
    BY <1>1, NothingDone, CurrentStays
  <2> QED
    BY <1>2, <2>1, FiveVersions
<1>4. PICK x : x = host[h]
  OBVIOUS
<1>5. /\ x.from = v /\ x.phase \in Phases /\ x.to \in 0 .. head
      /\ x.ran = 0 /\ x.at = x.to /\ OnPath(x, rows)
      /\ catalog' = SchemaOf(x.to)
  BY <1>1, <1>2, <1>3, <1>4, ScriptDone
<1>6. x.to \in Versions
  BY <1>5, FiveVersions DEF IInv
<1>7. x.to >= 2 /\ v < 2
  BY <1>2, <1>5, <1>6, CurrentBecomes
<1>8. x.phase = "upgrading"
  <2>1. Bounds(x, head)
    BY <1>4 DEF IInv, HostInv
  <2> QED
    BY <1>2, <1>5, <1>6, <1>7, <2>1, FiveVersions DEF Bounds, Phases
<1>9. PICK seen : seen = RowsSeen(h)
  OBVIOUS
<1>10. rows' = Kept(SchemaOf(x.to), seen)
  BY <1>1, <1>5, <1>9 DEF Commit
<1>11. t \in RowIds /\ EnumOf(t) = "task_status"
  BY RowKinds
<1>12. rows'[t] = IF Table(Home(t)) \notin SchemaOf(x.to) THEN Absent
                  ELSE [seen[t] EXCEPT
                          !.pinned = @ /\ Column("tasks", "pinned_rubric_id") \in SchemaOf(x.to)]
  BY <1>10, <1>11 DEF Kept
<1>13. Absent.state # "assigned"
  BY DEF Absent
<1>14. rows'[t] = [seen[t] EXCEPT
                     !.pinned = @ /\ Column("tasks", "pinned_rubric_id") \in SchemaOf(x.to)]
  BY <1>12, <1>13
<1>15. seen[t] \in Row /\ seen[t] = SeenRow(x, rows, t)
  BY <1>4, <1>5, <1>9, <1>11, RowsSeenBy DEF OnPath
<1>16. seen[t].state = "assigned"
  BY <1>14, <1>15 DEF Row
<1>17. "assigned" \in StatesIn("task_status", SchemaOf(v))
  BY <1>5, <1>11, <1>15, <1>16 DEF OnPath
<1>18. PathPins(x.phase, x.from, x.at, x.ran)
  BY <1>2, <1>5, <1>6, <1>7, <1>8, <1>17, ScriptsAssumption DEF ScriptsAssumption, PathsEnd
<1>19. seen[t].pinned
  BY <1>5, <1>15, <1>16, <1>18 DEF OnPath, SeenRow
<1>20. Column("tasks", "pinned_rubric_id") \in SchemaOf(x.to)
  BY <1>6, <1>7, ScriptsAssumption DEF ScriptsAssumption, SchemasFit
<1> QED
  BY <1>14, <1>15, <1>19, <1>20 DEF Row

\* Whatever migrations race, fail, die half way and are taken back, the committed schema
\* is the one its version row says (upgrade, downgrade).
THEOREM CatalogIsVersions == Spec => []CatalogOfItsVersion
BY MigrationsInvariant, InvCatalog, PTL

\* A statement of a migration is refused only when another one has committed since: rows
\* that serving tasks write meanwhile never make it fail (run_migrations_online).
THEOREM OnlyOvertakenFail == Spec => []FailsOnlyOvertaken
BY MigrationsInvariant, InvFails, PTL

\* As long as nobody downgrades, a task that serves finds what its models map.
THEOREM ServingReads == Spec => []ServingTasksRead
BY MigrationsInvariant, InvServing, PTL

\* The upgrade that brings the pins pins every task under way (5e18ef22c95d).
THEOREM UpgradePins == Spec => InProgressPinned
<1>1. IInv /\ [Next]_vars =>
        [Current < 2 /\ Current' >= 2 =>
           \A t \in Tasks : rows'[t].state = "assigned" => rows'[t].pinned]_vars
  BY StepPins
<1> QED
  BY <1>1, MigrationsInvariant, PTL DEF Spec, InProgressPinned
=============================================================================
