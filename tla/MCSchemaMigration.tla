---------------------------- MODULE MCSchemaMigration ----------------------------
(***************************************************************************)
(* SchemaMigration over the code's own tables and migrations, with two     *)
(* groups and two permissions.                                             *)
(***************************************************************************)
EXTENDS SchemaMigration

CONSTANTS admins, viewers, manage, look

Relay == INSTANCE SchemaHistory

MCBaseline   == Relay!Baseline
MCMigrations == Relay!MIGRATIONS
MCFirst      == {<<t, "table">> : t \in {"admin_seeds", "node_tokens", "users", "groups",
                   "permissions", "nodes", "tasks", "task_stages", "artifacts"}}
MCDefaults   == [g \in Groups |-> IF g = admins THEN {manage, look} ELSE {look}]
MCReleased   == 9..Len(MCMigrations)
=============================================================================
