----------------------------- MODULE SchemaHistory -----------------------------
(***************************************************************************)
(* The schema of the relay server's database as core/db.py writes it: the  *)
(* tables a new database gets and the numbered migrations that bring an    *)
(* older one up to date.  SchemaMigration runs them.                       *)
(*                                                                         *)
(* A schema object is a pair of a table and one of its parts; the part     *)
(* "table" is the table itself.  Of a table's columns only those that      *)
(* some migration mentions are kept.  A statement has the object it        *)
(* "name"s and all that it "adds"; "unless" holds what the guards around   *)
(* it look for, "quiet" marks IF NOT EXISTS, "dml" a change of rows.       *)
(***************************************************************************)
EXTENDS Sequences

Create(t, columns) ==
  [name |-> <<t, "table">>, adds |-> {<<t, c>> : c \in columns \cup {"table"}},
   unless |-> {}, quiet |-> TRUE, dml |-> FALSE]

Index(t, i) ==
  [name |-> <<t, i>>, adds |-> {<<t, i>>},
   unless |-> {}, quiet |-> TRUE, dml |-> FALSE]

Alter(t, c) ==
  [name |-> <<t, c>>, adds |-> {<<t, c>>},
   unless |-> {<<t, c>>}, quiet |-> FALSE, dml |-> FALSE]

Backfill(t, c) ==
  [name |-> <<t, "rows">>, adds |-> {},
   unless |-> {<<t, c>>}, quiet |-> FALSE, dml |-> TRUE]

UnlessTable(s) == [s EXCEPT !.unless = {<<s.name[1], "table">>}]

AccessTables == <<
  Create("admin_seeds", {}), Create("node_seeds", {}),
  Create("node_tokens", {}),
  Create("users", {"force_password_change", "status"}),
  Create("groups", {}), Create("user_groups", {}),
  Create("permissions", {}), Create("group_permissions", {}) >>

NodeTables == <<
  Create("nodes", {"registration_secret_hash", "registration_secret_expires_at",
                   "description", "consecutive_high_load"}),
  Create("node_capabilities", {"description", "input_schema"}),
  Index("node_capabilities", "idx_name"), Index("node_capabilities", "idx_name_type"),
  Create("node_routes", {}), Create("presence", {}) >>

TaskTables == <<
  Create("tasks", {"submitted_by", "idempotency_key"}),
  Create("task_stages", {"retry_count"}),
  Create("artifacts", {}),
  Create("task_notes", {}), Index("task_notes", "idx_task") >>

OtherTables == <<
  Create("audit_logs", {}),
  Index("audit_logs", "idx_created"), Index("audit_logs", "idx_actor"),
  Create("settings_override", {}),
  Index("nodes", "idx_status"), Index("nodes", "idx_capabilities"),
  Index("tasks", "idx_status"), Index("tasks", "idx_priority"),
  Index("task_stages", "idx_task"), Index("task_stages", "idx_status"),
  Index("task_stages", "idx_capability"), Index("artifacts", "idx_task"),
  Index("presence", "idx_status") >>

\* _schema: the tables a new database gets before the migrations.
Baseline == AccessTables \o NodeTables \o TaskTables \o OtherTables

\* MIGRATIONS 1 to 6: accounts, nodes and tokens, tasks, the audit log, notes.
FirstMigrations == <<
  <<Alter("users", "force_password_change"), Alter("users", "status"),
    Backfill("users", "status")>>,
  <<Alter("nodes", "registration_secret_hash"),
    Alter("nodes", "registration_secret_expires_at"),
    Alter("nodes", "description"), Alter("nodes", "consecutive_high_load"),
    Alter("nodes", "load_source")>>,
  <<Alter("node_tokens", "token_lookup_hash"), Index("node_tokens", "idx_lookup")>>,
  <<Alter("tasks", "idempotency_key"), Index("tasks", "idx_idempotency")>>,
  <<UnlessTable(Create("audit_logs", {})),
    UnlessTable(Index("audit_logs", "idx_created")),
    UnlessTable(Index("audit_logs", "idx_actor"))>>,
  <<UnlessTable(Create("task_notes", {})), UnlessTable(Index("task_notes", "idx_task")),
    Alter("task_notes", "kind")>> >>

\* MIGRATIONS 7 to 9: leases, descriptions of capabilities, temporary routes.
LeaseMigrations == <<
  <<Alter("task_stages", "last_note_at"), Alter("task_stages", "longrun_ttl_expires_at"),
    Alter("task_stages", "retry_count")>>,
  <<Alter("node_capabilities", "description"), Alter("node_capabilities", "input_schema"),
    Alter("node_capabilities", "upload_modes")>>,
  <<Alter("node_routes", "expires_at"), Alter("node_routes", "channel_id"),
    Index("node_routes", "idx_channel")>> >>

\* MIGRATIONS 10 to 18: what came after the ledger.
LaterMigrations == <<
  <<Alter("nodes", "load_source")>>,
  <<Alter("node_capabilities", "result_path_hints")>>,
  <<Alter("tasks", "submitted_by")>>,
  <<UnlessTable(Create("forward_mappings", {})),
    UnlessTable(Index("forward_mappings", "idx_node"))>>,
  <<Alter("task_stages", "forward_slot")>>,
  <<UnlessTable(Create("forward_slots", {})), UnlessTable(Index("forward_slots", "idx_node"))>>,
  <<Alter("forward_slots", "slot_type"), Alter("forward_slots", "value"),
    Alter("forward_slots", "ref_slot"), Alter("forward_slots", "ref_field"),
    Alter("forward_slots", "input_schema")>>,
  <<Alter("forward_mappings", "target_node_id"), Alter("task_stages", "target_node_id")>>,
  <<Alter("forward_mappings", "binding")>> >>

\* One entry per version, in the order of the versions.
MIGRATIONS == FirstMigrations \o LeaseMigrations \o LaterMigrations

=============================================================================
