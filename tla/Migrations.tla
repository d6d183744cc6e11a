----------------------------- MODULE Migrations -----------------------------
(***************************************************************************)
(* The schema under a rolling deploy.  (alembic/env.py, the deploy's       *)
(* migrate container, sim/bench_session.py.)                               *)
(*                                                                         *)
(* A deploy starts tasks of the new release while tasks of the old one     *)
(* keep serving.  A new task first runs `alembic upgrade head`: it reads   *)
(* the version of the database, runs the statements of every pending       *)
(* revision in one transaction, commits, and serves.  Two tasks may do so  *)
(* at once and either may die; an operator resets the schema by a          *)
(* downgrade while tasks keep serving, but not while one migrates.         *)
(*                                                                         *)
(* Of the rows, the model has the tasks' status and pin and the keys'      *)
(* role: what migrations convert.                                          *)
(***************************************************************************)
EXTENDS Schema

CONSTANTS
  Hosts,       \* the places a service task runs in
  Tasks,       \* rows of the tasks table
  Keys,        \* rows of the api_keys table
  MaxCrashes,  \* bound: how often a migrating task dies
  MaxResets    \* bound: how often an operator downgrades

MigrationsAssumption ==
  /\ Tasks \cap Keys = {}
  /\ MaxCrashes \in Nat
  /\ MaxResets \in Nat

ASSUME MigrationsAssumption

VARIABLES
  catalog,   \* the committed objects
  rows,      \* the committed rows
  head,      \* the newest revision of the released code
  host,      \* what runs at each host
  crashes,   \* how many migrating tasks have died
  resets     \* how many downgrades have been started

vars == <<catalog, rows, head, host, crashes, resets>>

-----------------------------------------------------------------------------
(* Rows.                                                                   *)

RowIds    == Tasks \cup Keys
Home(r)   == IF r \in Tasks THEN "tasks" ELSE "api_keys"
EnumOf(r) == IF r \in Tasks THEN "task_status" ELSE "role"
States(r) == {v[3] : v \in {o \in ModelValues : o[2] = EnumOf(r)}}
Absent    == [state |-> "none", pinned |-> FALSE]

\* A column can only have values of its type.
Fits(c, table) ==
  \A r \in RowIds : table[r].state # "none" /\ Table(Home(r)) \in c
                      => Value(EnumOf(r), table[r].state) \in c

Matching(s, table) == {r \in RowIds : table[r].state = s.where}

UpdatedRow(s, row) == [state |-> s.becomes, pinned |-> row.pinned \/ s.pins]

\* What is left of the rows in a catalog: a dropped table or column loses its data.
Kept(c, table) ==
  [r \in RowIds |->
     IF Table(Home(r)) \notin c THEN Absent
     ELSE [table[r] EXCEPT !.pinned = @ /\ Column("tasks", "pinned_rubric_id") \in c]]

-----------------------------------------------------------------------------
(* Service tasks.                                                          *)

\* A host: its phase and the release it runs; while it migrates, the version it has read
\* and the one it is to reach, the version it is at and how many statements of the next
\* revision have run, and its open transaction: the catalog it sees, the rows it has
\* updated, the tables it has locked, the enums it has created (Alembic's memo).
Down == [phase |-> "down", release |-> 0, from |-> 0, to |-> 0, at |-> 0, ran |-> 0,
         sees |-> {}, own |-> << >>, locks |-> {}, memo |-> {}]

Serving(v) == [Down EXCEPT !.phase = "serving", !.release = v]

Migrating(h) == host[h].phase \in {"upgrading", "downgrading"}
Done(h)      == host[h].at = host[h].to

\* The statements of the revision that h is at, and the next one of them.
Revision(h)  == IF host[h].phase = "upgrading" THEN Upgrade[host[h].at + 1]
                ELSE Downgrade[host[h].at]
Statement(h) == Revision(h)[host[h].ran + 1]

\* The next statement of h is the last one of its revision, and where that one leads.
LastOf(h)    == host[h].ran + 1 = Len(Revision(h))
NextAt(h)     == IF host[h].phase = "upgrading" THEN host[h].at + 1 ELSE host[h].at - 1

\* The version row that is committed.
Current ==
  CHOOSE v \in Versions : Stamp(v) = {o \in catalog : o[1] = "version"}

\* The host's first statement has run: it has locked what another migration needs too.
Locking(h) == host[h].ran > 0 \/ host[h].at # host[h].from

\* What the next statement of h works on.
Sees(h)     == IF Locking(h) THEN host[h].sees ELSE catalog
RowsSeen(h) == [r \in RowIds |-> IF r \in DOMAIN host[h].own THEN host[h].own[r] ELSE rows[r]]

\* PostgreSQL accepts statement s of h.
Accepts(h, s) ==
  LET after == After(Sees(h), host[h].memo, s) IN
  /\ Added(Sees(h), host[h].memo, s) \cap Sees(h) = {}
  /\ Dropped(Sees(h), s) \subseteq Sees(h)
  /\ Closed(after)
  /\ Fits(after, RowsSeen(h))

\* Faulty variant of Proceeds: a migration waits for every other, whether it has begun or
\* not.
ProceedsAlone(h) ==
  /\ Migrating(h)
  /\ ~Done(h)
  /\ \A g \in Hosts \ {h} : ~Migrating(g)

\* The next statement of h does not wait for the locks of another migration.
Proceeds(h) ==
  /\ Migrating(h)
  /\ ~Done(h)
  /\ \A g \in Hosts \ {h} : ~Locking(g)

-----------------------------------------------------------------------------
Init ==
  /\ catalog = {}
  /\ rows = [r \in RowIds |-> Absent]
  /\ head = 1
  /\ host = [h \in Hosts |-> Down]
  /\ crashes = 0
  /\ resets = 0

\* A release with one more revision.
Release ==
  /\ head < Len(RevisionIds)
  /\ head' = head + 1
  /\ UNCHANGED <<catalog, rows, host, crashes, resets>>

\* A task of the newest release starts and reads the version.
Start(h) ==
  /\ host[h].phase = "down"
  /\ \A g \in Hosts : host[g].phase # "downgrading"
  /\ host' = [host EXCEPT ![h] = [Down EXCEPT !.phase = "upgrading", !.release = head,
                                              !.from = Current, !.at = Current,
                                              !.to = head]]
  /\ UNCHANGED <<catalog, rows, head, crashes, resets>>

\* `alembic downgrade` to version v: reset_schema, the demo and the benchmarks.
Reset(h, v) ==
  /\ host[h].phase = "down"
  /\ \A g \in Hosts : ~Migrating(g)
  /\ v < Current
  /\ resets < MaxResets
  /\ resets' = resets + 1
  /\ host' = [host EXCEPT ![h] = [Down EXCEPT !.phase = "downgrading", !.release = head,
                                              !.from = Current, !.at = Current,
                                              !.to = v]]
  /\ UNCHANGED <<catalog, rows, head, crashes>>

\* A statement of the script.
Run(h) ==
  LET s == Statement(h)
      x == host[h]
      m == Matching(s, RowsSeen(h)) IN
  /\ Proceeds(h)
  /\ Accepts(h, s)
  /\ host' = [host EXCEPT ![h] =
       [x EXCEPT !.ran = IF LastOf(h) THEN 0 ELSE x.ran + 1,
                 !.at = IF LastOf(h) THEN NextAt(h) ELSE x.at,
                 !.sees = After(Sees(h), x.memo, s),
                 !.own = [r \in DOMAIN x.own \cup m |->
                            IF r \in m THEN UpdatedRow(s, RowsSeen(h)[r]) ELSE x.own[r]],
                 !.locks = x.locks \cup Locked(Sees(h), s),
                 !.memo = x.memo \cup s.enums]]
  /\ UNCHANGED <<catalog, rows, head, crashes, resets>>

\* A statement fails: the transaction is rolled back and the task ends; the service
\* starts another in its place.
Fail(h) ==
  /\ Proceeds(h)
  /\ ~Accepts(h, Statement(h))
  /\ host' = [host EXCEPT ![h] = Down]
  /\ UNCHANGED <<catalog, rows, head, crashes, resets>>

Crash(h) ==
  /\ Migrating(h)
  /\ crashes < MaxCrashes
  /\ crashes' = crashes + 1
  /\ host' = [host EXCEPT ![h] = Down]
  /\ UNCHANGED <<catalog, rows, head, resets>>

\* run_migrations_online: one transaction holds all the revisions.  An upgrade that is
\* through lets the task serve.
Commit(h) ==
  /\ Migrating(h)
  /\ Done(h)
  /\ catalog' = IF Locking(h) THEN host[h].sees ELSE catalog
  /\ rows' = Kept(catalog', RowsSeen(h))
  /\ host' = [host EXCEPT ![h] =
                IF @.phase = "upgrading" THEN Serving(@.release) ELSE Down]
  /\ UNCHANGED <<head, crashes, resets>>

\* A serving task writes a row: it is created, claimed, submitted, sent to adjudication,
\* a key is issued.  It waits while a migration has the table or the row locked, and
\* gets nowhere while an object its models map is missing.
Serve(h, r, state) ==
  /\ host[h].phase = "serving"
  /\ MappedBy[host[h].release] \subseteq catalog
  /\ Value(EnumOf(r), state) \in MappedBy[host[h].release]
  /\ \A g \in Hosts : Home(r) \notin host[g].locks /\ r \notin DOMAIN host[g].own
  /\ rows' = [rows EXCEPT ![r] =
       [state |-> state,
        pinned |-> @.pinned \/ (state = "assigned" /\ host[h].release >= 2)]]
  /\ UNCHANGED <<catalog, head, host, crashes, resets>>

\* A task of an old release is stopped.
Stop(h) ==
  /\ host[h].phase = "serving"
  /\ host[h].release < head
  /\ host' = [host EXCEPT ![h] = Down]
  /\ UNCHANGED <<catalog, rows, head, crashes, resets>>

Next ==
  \/ Release
  \/ \E h \in Hosts : Start(h) \/ Run(h) \/ Fail(h) \/ Crash(h) \/ Commit(h) \/ Stop(h)
  \/ \E h \in Hosts, v \in Versions : Reset(h, v)
  \/ \E h \in Hosts, r \in RowIds : \E state \in States(r) : Serve(h, r, state)

Spec == Init /\ [][Next]_vars

\* The service keeps a task running at every host, and a statement that does not wait
\* for another migration ends.
FairSpec ==
  Spec /\ \A h \in Hosts : WF_vars(Start(h) \/ Run(h) \/ Fail(h) \/ Commit(h))

-----------------------------------------------------------------------------
TypeOK ==
  /\ catalog \in SUBSET (Schema5 \cup UNION {Stamp(v) : v \in Versions})
  /\ \A r \in RowIds : rows[r].state \in States(r) \cup {"none"} /\ rows[r].pinned \in BOOLEAN
  /\ head \in Versions \ {0}
  /\ \A h \in Hosts : /\ host[h].phase \in {"down", "upgrading", "downgrading", "serving"}
                      /\ host[h].release \in 0 .. head
                      /\ Migrating(h) /\ ~Done(h) => host[h].ran < Len(Revision(h))
  /\ crashes \in 0 .. MaxCrashes
  /\ resets \in 0 .. MaxResets

\* At head the schema is the one the models declare, up to the retired column: the
\* revisions add up to Base.metadata, also after a downgrade (`alembic check`).
NoDrift == Current = Len(RevisionIds) => Drift(catalog) = {}

\* Whatever migrations race, fail, die half way and are taken back, the committed schema
\* is the one its version row says, to the last type: a downgrade undoes what its upgrade
\* did, so that the next upgrade starts from what it expects (upgrade, downgrade).
CatalogOfItsVersion ==
  /\ TypeOK
  /\ catalog = SchemaOf(Current)
  /\ NoDrift

\* A migration fails only because another one has committed since it read the version:
\* no statement meets rows it cannot convert, whatever is written to the tables while
\* the script runs, a type that a committed revision made, or a missing object.
FailsOnlyOvertaken ==
  \A h \in Hosts : Proceeds(h) /\ ~Accepts(h, Statement(h)) => Current # host[h].from

\* As long as nobody downgrades, a task that serves finds what its models map: an upgrade
\* keeps what the previous release, still serving beside it, reads and inserts.
ServingTasksRead ==
  resets = 0 => \A h \in Hosts :
    host[h].phase = "serving" => MappedBy[host[h].release] \subseteq catalog

\* The upgrade that introduces pins pins every task under way, the ones claimed while
\* the upgrade was running included.
InProgressPinned ==
  [][Current < 2 /\ Current' >= 2 =>
       \A t \in Tasks : rows'[t].state = "assigned" => rows'[t].pinned]_vars

\* A task that has begun to upgrade ends up serving at its host, restarted if need be.
DeployEnds ==
  \A h \in Hosts : host[h].phase = "upgrading" ~> host[h].phase = "serving"
==============================================================================
