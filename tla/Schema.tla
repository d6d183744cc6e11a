------------------------------- MODULE Schema -------------------------------
(***************************************************************************)
(* The revisions of the database schema (alembic/versions/*.py) as         *)
(* sequences of statements over a catalog, and the schema that the models  *)
(* declare (panelist/models.py).                                           *)
(*                                                                         *)
(* A catalog is a set of objects.  PostgreSQL refuses a statement that     *)
(* adds an object that is there, drops one that is not, or leaves an       *)
(* object without one that it needs.  Left out are the columns and the     *)
(* constraints that come and go with their table, and of the enums' values *)
(* all but the ones the rows of module Migrations may have.                *)
(***************************************************************************)
EXTENDS Naturals, Sequences

-----------------------------------------------------------------------------
(* Objects of a catalog, as <<kind, table or type, name, target>>.         *)

Table(t)       == <<"table", t, "", "">>
Column(t, c)   == <<"column", t, c, "">>
Index(t, i)    == <<"index", t, i, "">>
Key(t, c, r)   == <<"key", t, c, r>>     \* column c of t references table r
Uses(t, n)     == <<"uses", t, "", n>>   \* a column of t has enum type n
Type(n)        == <<"type", n, "", "">>
Value(n, v)    == <<"value", n, v, "">>
Version(id)    == <<"version", id, "", "">>

\* What an object cannot be without, and what it is dropped with.
Needs(o) ==
  CASE o[1] \in {"column", "index"} -> {Table(o[2])}
    [] o[1] = "key"   -> {Column(o[2], o[3]), Table(o[4])}
    [] o[1] = "uses"  -> {Table(o[2]), Type(o[4])}
    [] o[1] = "value" -> {Type(o[2])}
    [] OTHER          -> {}

Owners(o) ==
  CASE o[1] = "key"   -> {Column(o[2], o[3]), Table(o[2])}
    [] o[1] = "uses"  -> {Table(o[2])}
    [] OTHER          -> Needs(o)

Closed(c) == \A o \in c : Needs(o) \subseteq c

-----------------------------------------------------------------------------
(* Statements.                                                             *)

TASK_STATUS_BEFORE == {"assigned", "submitted"}
ROLE_BEFORE        == {"reviewer"}

\* The values an enum has from its CREATE TYPE, as far as the rows' columns go.
Declared(n) == CASE n = "task_status" -> TASK_STATUS_BEFORE
                 [] n = "role"        -> ROLE_BEFORE
                 [] OTHER             -> {}

Enum(n) == {Type(n)} \cup {Value(n, v) : v \in Declared(n)}

\* A statement: the objects it adds and drops, the enums it creates unless this
\* invocation has created them before (Alembic's memo), the tables it locks, whether
\* it says IF [NOT] EXISTS, and the rows it updates: those in state `where`.
Nothing == [adds |-> {}, drops |-> {}, enums |-> {}, locks |-> {}, lenient |-> FALSE,
            where |-> "", becomes |-> "", pins |-> FALSE]

\* op.create_table: its columns of interest, the tables it references, its enums.
Create(t, columns, refs, enums) ==
  [Nothing EXCEPT
     !.adds  = {Table(t)} \cup {Column(t, c) : c \in columns \cup refs}
                 \cup {Key(t, r, r) : r \in refs} \cup {Uses(t, n) : n \in enums},
     !.enums = enums, !.locks = {t} \cup refs]

\* postgresql.ENUM(..., create_type=False): the type is there already.
WithoutTypes(s) == [s EXCEPT !.enums = {}]

On(t, adds, drops) == [Nothing EXCEPT !.adds = adds, !.drops = drops, !.locks = {t}]

DropTable(t)             == On(t, {}, {Table(t)})
AddColumn(t, c)          == On(t, {Column(t, c)}, {})
DropColumn(t, c)         == On(t, {}, {Column(t, c)})
CreateIndex(t, i)        == On(t, {Index(t, i)}, {})
DropIndex(t, i)          == On(t, {}, {Index(t, i)})
CreateForeignKey(t, c, r) == On(t, {Key(t, c, r)}, {})
DropConstraint(t, c, r)  == On(t, {}, {Key(t, c, r)})
DropTypeIfExists(n)      == [Nothing EXCEPT !.drops = {Type(n)}, !.lenient = TRUE]
AddValue(n, v)           == [Nothing EXCEPT !.adds = {Value(n, v)}, !.lenient = TRUE]
Update(where, becomes)   == [Nothing EXCEPT !.where = where, !.becomes = becomes]

\* _shrink_enum: the type is renamed, created with fewer values, put under the column,
\* whose rows are cast, and dropped under its old name.
ShrinkEnum(n, before, t) ==
  [Nothing EXCEPT !.drops = {Value(n, v) : v \in {"adjudication", "senior_reviewer"} \ before},
                  !.lenient = TRUE, !.locks = {t}]

-----------------------------------------------------------------------------
(* The revisions.                                                          *)

\* 3dfe09ab9cdc: the tables that reference no other.
InitialRoots ==
  << Create("audit_events", {}, {}, {}),
     Create("deliveries", {}, {}, {}),
     Create("experts", {"hourly_rate_cents"}, {}, {"tier", "expert_status"}),
     CreateIndex("experts", "ix_experts_tags"),
     Create("payout_periods", {}, {}, {}),
     Create("rate_cards", {}, {}, {"tier"}),
     Create("rubrics", {}, {}, {}) >>

\* The tables of the queue.
InitialQueue ==
  << Create("api_keys", {}, {"experts"}, {"role"}),
     Create("rubric_criteria", {}, {"rubrics"}, {}),
     Create("tasks", {}, {"experts", "rubrics"}, {"tier", "task_status"}),
     CreateIndex("tasks", "ix_tasks_lease"),
     CreateIndex("tasks", "ix_tasks_queue"),
     CreateIndex("tasks", "ix_tasks_required_tags") >>

\* The tables of the grades and of what follows from them.
InitialGrades ==
  << Create("grades", {}, {"experts", "rubrics", "tasks"}, {}),
     Create("attention_results", {}, {"experts", "grades", "tasks"}, {}),
     CreateIndex("attention_results", "ix_attention_expert_created"),
     Create("grade_scores", {}, {"rubric_criteria", "grades"}, {}),
     Create("payouts", {}, {"experts", "grades", "payout_periods", "tasks"},
            {"tier", "payout_status"}),
     CreateIndex("payouts", "ix_payouts_expert_status"),
     Create("reviews", {}, {"grades", "api_keys"}, {"review_decision"}) >>

\* The tables go in the reverse order.
DropInitialTables ==
  << DropTable("reviews"), DropIndex("payouts", "ix_payouts_expert_status"),
     DropTable("payouts"), DropTable("grade_scores"),
     DropIndex("attention_results", "ix_attention_expert_created"),
     DropTable("attention_results"), DropTable("grades"),
     DropIndex("tasks", "ix_tasks_required_tags"), DropIndex("tasks", "ix_tasks_queue"),
     DropIndex("tasks", "ix_tasks_lease"), DropTable("tasks"),
     DropTable("rubric_criteria"), DropTable("api_keys"), DropTable("rubrics"),
     DropTable("rate_cards"), DropTable("payout_periods"),
     DropIndex("experts", "ix_experts_tags"), DropTable("experts"),
     DropTable("deliveries"), DropTable("audit_events") >>

DropInitial ==
  DropInitialTables \o
  << DropTypeIfExists("tier"), DropTypeIfExists("expert_status"),
     DropTypeIfExists("task_status"), DropTypeIfExists("review_decision"),
     DropTypeIfExists("payout_status"), DropTypeIfExists("role") >>

\* Faulty variant of AddRubricVersions: the tasks under way are forgotten.
AddRubricVersionsOnly ==
  << AddColumn("rubrics", "superseded_at"),
     AddColumn("rubrics", "superseded_by_id"),
     CreateForeignKey("rubrics", "superseded_by_id", "rubrics"),
     AddColumn("tasks", "pinned_rubric_id"),
     CreateForeignKey("tasks", "pinned_rubric_id", "rubrics") >>

\* 5e18ef22c95d: rubric versions; the tasks under way are pinned to their rubric.
AddRubricVersions ==
  << AddColumn("rubrics", "superseded_at"),
     AddColumn("rubrics", "superseded_by_id"),
     CreateForeignKey("rubrics", "superseded_by_id", "rubrics"),
     AddColumn("tasks", "pinned_rubric_id"),
     CreateForeignKey("tasks", "pinned_rubric_id", "rubrics"),
     [Update("assigned", "assigned") EXCEPT !.pins = TRUE] >>

DropRubricVersions ==
  << DropConstraint("tasks", "pinned_rubric_id", "rubrics"),
     DropColumn("tasks", "pinned_rubric_id"),
     DropConstraint("rubrics", "superseded_by_id", "rubrics"),
     DropColumn("rubrics", "superseded_by_id"),
     DropColumn("rubrics", "superseded_at") >>

\* 3d8dba8d69dd: calibration and tier changes.
AddCalibration ==
  << WithoutTypes(Create("tier_changes", {}, {"experts"}, {"tier"})),
     CreateIndex("tier_changes", "ix_tier_changes_expert_created"),
     AddColumn("experts", "calibration_score"),
     AddColumn("experts", "calibration_samples"),
     AddColumn("experts", "tier_updated_at") >>

\* Faulty variant of DropCalibration: one of the three columns stays.
DropCalibrationPartly ==
  << DropColumn("experts", "tier_updated_at"),
     DropColumn("experts", "calibration_score"),
     DropIndex("tier_changes", "ix_tier_changes_expert_created"),
     DropTable("tier_changes") >>

DropCalibration ==
  << DropColumn("experts", "tier_updated_at"),
     DropColumn("experts", "calibration_samples"),
     DropColumn("experts", "calibration_score"),
     DropIndex("tier_changes", "ix_tier_changes_expert_created"),
     DropTable("tier_changes") >>

\* Faulty variant of DropConsensus: the rows are converted before the table that
\* references theirs is dropped, and with it their tables are locked.
DropConsensusLate ==
  << Update("adjudication", "submitted"),
     Update("senior_reviewer", "reviewer"),
     DropIndex("consensus", "ix_consensus_status_created"),
     DropTable("consensus"),
     DropTypeIfExists("consensus_status"),
     ShrinkEnum("task_status", TASK_STATUS_BEFORE, "tasks"),
     ShrinkEnum("role", ROLE_BEFORE, "api_keys") >>

\* 7c41a0b52e63: consensus and adjudication.
AddConsensus ==
  << AddValue("task_status", "adjudication"),
     AddValue("role", "senior_reviewer"),
     Create("consensus", {}, {"tasks", "grades", "api_keys"}, {"consensus_status"}),
     CreateIndex("consensus", "ix_consensus_status_created") >>

DropConsensus ==
  << DropIndex("consensus", "ix_consensus_status_created"),
     DropTable("consensus"),
     DropTypeIfExists("consensus_status"),
     Update("adjudication", "submitted"),
     ShrinkEnum("task_status", TASK_STATUS_BEFORE, "tasks"),
     Update("senior_reviewer", "reviewer"),
     ShrinkEnum("role", ROLE_BEFORE, "api_keys") >>

\* Faulty variant of RetireHourlyRate: the column goes at once.
DropHourlyRate == << DropColumn("experts", "hourly_rate_cents") >>

\* 9b2e4d7c1a05: the models stop mapping a column, which stays.
RetireHourlyRate   == << >>
RestoreHourlyRate  == << >>

RevisionIds == << "3dfe09ab9cdc", "5e18ef22c95d", "3d8dba8d69dd", "7c41a0b52e63",
                  "9b2e4d7c1a05" >>
Versions    == 0 .. Len(RevisionIds)

\* The row of alembic_version: none at base.
Stamp(v) == IF v = 0 THEN {} ELSE {Version(RevisionIds[v])}

\* Alembic ends a revision by moving that row, and fails if it is not where it was.
Move(from, to) == [Nothing EXCEPT !.adds = Stamp(to), !.drops = Stamp(from)]

\* What Alembic runs to come to version v from the one before, and back.
Upgrade ==
  << InitialRoots \o InitialQueue \o InitialGrades \o <<Move(0, 1)>>,
     Append(AddRubricVersions, Move(1, 2)), Append(AddCalibration, Move(2, 3)),
     Append(AddConsensus, Move(3, 4)), Append(RetireHourlyRate, Move(4, 5)) >>
Downgrade ==
  << Append(DropInitial, Move(1, 0)), Append(DropRubricVersions, Move(2, 1)),
     Append(DropCalibration, Move(3, 2)), Append(DropConsensus, Move(4, 3)),
     Append(RestoreHourlyRate, Move(5, 4)) >>

-----------------------------------------------------------------------------
(* What PostgreSQL makes of a statement.                                   *)

Added(c, memo, s) ==
  LET all == s.adds \cup UNION {Enum(n) : n \in s.enums \ memo}
  IN IF s.lenient THEN all \ c ELSE all

Dropped(c, s) == IF s.lenient THEN s.drops \cap c ELSE s.drops

\* A dropped object takes along what it owns.
Gone(c, s) ==
  LET dropped == Dropped(c, s)
  IN IF dropped = {} THEN {} ELSE dropped \cup {o \in c : Owners(o) \cap dropped # {}}

After(c, memo, s) == (c \ Gone(c, s)) \cup Added(c, memo, s)

\* Dropping a foreign key locks the table it references as well.
Locked(c, s) ==
  s.locks \cup {o[4] : o \in {k \in Gone(c, s) \cap c : k[1] = "key"}}

\* The catalog after the statements of a script, run in one invocation from catalog c.
RunScript(c, script) ==
  LET memo(i)  == UNION {script[j].enums : j \in 1 .. i - 1}
      sees[i \in 0 .. Len(script)] ==
        IF i = 0 THEN c ELSE After(sees[i - 1], memo(i), script[i])
  IN sees[Len(script)]

\* The catalog of each version, reached from nothing by one upgrade at a time.
Schema1 == RunScript({}, Upgrade[1])
Schema2 == RunScript(Schema1, Upgrade[2])
Schema3 == RunScript(Schema2, Upgrade[3])
Schema4 == RunScript(Schema3, Upgrade[4])
Schema5 == RunScript(Schema4, Upgrade[5])

SchemaOf(v) == IF v = 0 THEN {} ELSE << Schema1, Schema2, Schema3, Schema4, Schema5 >>[v]

-----------------------------------------------------------------------------
(* The schema that the models declare.                                     *)

ModelTables ==
  {"experts", "tier_changes", "rubrics", "rubric_criteria", "rate_cards", "tasks", "grades",
   "grade_scores", "reviews", "consensus", "payout_periods", "payouts",
   "attention_results", "audit_events", "api_keys", "deliveries"}

\* The plain columns that came after the initial schema.
ModelColumns ==
  {Column("experts", c) : c \in {"calibration_score", "calibration_samples", "tier_updated_at"}}
    \cup {Column("rubrics", "superseded_at")}

ModelKeys ==
  {Key("rubrics", "superseded_by_id", "rubrics"), Key("tasks", "pinned_rubric_id", "rubrics")}
    \cup {Key(p[1], p[2], p[2]) : p \in
      {"tier_changes", "api_keys"} \X {"experts"} \cup {<<"rubric_criteria", "rubrics">>}
        \cup {"tasks"} \X {"experts", "rubrics"}
        \cup {"grades"} \X {"experts", "rubrics", "tasks"}
        \cup {"grade_scores"} \X {"grades", "rubric_criteria"}
        \cup {"reviews"} \X {"grades", "api_keys"}
        \cup {"consensus"} \X {"tasks", "grades", "api_keys"}
        \cup {"payouts"} \X {"experts", "tasks", "grades", "payout_periods"}
        \cup {"attention_results"} \X {"experts", "tasks", "grades"}}

ModelIndexes ==
  {Index("experts", "ix_experts_tags"),
   Index("tier_changes", "ix_tier_changes_expert_created"),
   Index("tasks", "ix_tasks_required_tags"), Index("tasks", "ix_tasks_queue"),
   Index("tasks", "ix_tasks_lease"), Index("consensus", "ix_consensus_status_created"),
   Index("payouts", "ix_payouts_expert_status"),
   Index("attention_results", "ix_attention_expert_created")}

ModelEnums ==
  {Uses(p[1], p[2]) : p \in
     {"experts", "tier_changes", "rate_cards", "tasks", "payouts"} \X {"tier"}
       \cup { <<"experts", "expert_status">>, <<"tasks", "task_status">>,
              <<"reviews", "review_decision">>, <<"consensus", "consensus_status">>,
              <<"payouts", "payout_status">>, <<"api_keys", "role">> }}

ModelValues ==
  {Value("task_status", v) : v \in {"assigned", "submitted", "adjudication"}}
    \cup {Value("role", v) : v \in {"reviewer", "senior_reviewer"}}

\* Base.metadata: the tables with their columns, indexes and types.
Metadata ==
  {Table(t) : t \in ModelTables} \cup ModelColumns \cup ModelKeys \cup ModelIndexes
    \cup ModelEnums \cup ModelValues \cup {Column(k[2], k[3]) : k \in ModelKeys}
    \cup {Type(u[4]) : u \in ModelEnums}

\* env.py: columns that the models stopped mapping and the schema keeps.
RETIRED_COLUMNS == {Column("experts", "hourly_rate_cents")}

\* include_object: autogenerate does not propose to drop a retired column.
IncludeObject(o) == o \notin RETIRED_COLUMNS

\* What autogenerate would propose to add to, or to drop from, a catalog.
Drift(c) ==
  (Metadata \ c) \cup {o \in c \ Metadata : IncludeObject(o) /\ o[1] # "version"}

\* What the statements of the release with head v name, and the values they write.
Named(c) == {o \in c : o[1] \in {"table", "column", "value"}}
MappedBy ==
  << Named(Schema1), Named(Schema2), Named(Schema3), Named(Schema4), Named(Metadata) >>
==============================================================================
