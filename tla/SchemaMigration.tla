---------------------------- MODULE SchemaMigration ----------------------------
(***************************************************************************)
(* How a database of the relay server gets its schema: init_db of          *)
(* core/db.py runs at every start, over a database that is new, older,     *)
(* current or newer than the code, and may be cut short anywhere.          *)
(*                                                                         *)
(* SQLite's transactions are the hard part.  The driver begins one only    *)
(* before a statement that changes rows: until then every CREATE and ALTER *)
(* is durable at once, afterwards everything waits for the one commit at   *)
(* the end of _schema.  "store" is what a crash leaves, "view" what the    *)
(* starting process reads, "writing" whether its transaction is open.      *)
(*                                                                         *)
(* The statements are those of SchemaHistory; what is shown here of their  *)
(* execution holds for any history of such statements.                     *)
(***************************************************************************)
EXTENDS Integers, Sequences, FiniteSets

CONSTANTS
  BaseScript,            \* the statements of _schema, in order
  MigrationScripts,      \* the statements of each version, in order
  FirstTables,           \* the tables that predate the ledger
  Groups, Permissions,   \* the RBAC rows
  DefaultGrants,         \* what _seed_default_rbac gives each group
  Declared,              \* capabilities in the JSON column of the nodes
  Released,              \* versions an older build may have left behind
  MaxCrashes             \* bound: how often the process is killed

Object == STRING \X STRING

Statement ==
  [name : Object, adds : SUBSET Object, unless : SUBSET Object,
   quiet : BOOLEAN, dml : BOOLEAN]

\* A statement that changes the schema adds at least what it names.
Wellformed(s) == s.dml \/ s.name \in s.adds

ASSUME HistoryAssumption ==
  /\ BaseScript \in Seq(Statement)
  /\ MigrationScripts \in Seq(Seq(Statement))
  /\ \A i \in 1..Len(BaseScript) : Wellformed(BaseScript[i])
  /\ \A v \in 1..Len(MigrationScripts) :
       \A i \in 1..Len(MigrationScripts[v]) : Wellformed(MigrationScripts[v][i])

Latest == Len(MigrationScripts)

ASSUME ParametersAssumption ==
  /\ FirstTables \subseteq Object
  /\ DefaultGrants \in [Groups -> SUBSET Permissions]
  /\ Released \subseteq 1..Latest
  /\ MaxCrashes \in Nat

VARIABLES
  store,    \* the committed database
  view,     \* the database as the starting process sees it
  writing,  \* its transaction has begun
  pc,       \* "down", "schema" (in init_db) or "up" (serving)
  at,       \* the migration it is in, 0 for the baseline tables
  pos,      \* the statement of that script it comes to next
  names,    \* the tables and columns it read when the script began
  crashes

vars == <<store, view, writing, pc, at, pos, names, crashes>>

-----------------------------------------------------------------------------
(* The databases a start may find.                                         *)

AddedBy(script) == UNION {script[i].adds : i \in 1..Len(script)}

Database(objects, versions, seeded, index) ==
  [objects |-> objects, ledger |-> versions, seeded |-> seeded, index |-> index,
   grants |-> IF seeded THEN DefaultGrants ELSE [g \in Groups |-> {}]]

Empty == Database({}, {}, FALSE, {})

\* Grown before the ledger: the first tables, none of the later columns.
Legacy == Database(FirstTables, {}, TRUE, {})

\* What a build with k migrations left behind.
Left(k) ==
  Database(AddedBy(BaseScript) \cup UNION {AddedBy(MigrationScripts[v]) : v \in 1..k},
           1..k, TRUE, Declared)

\* Written by a newer build.
Ahead == [Left(Latest) EXCEPT !.ledger = 1..(Latest + 1)]

Init ==
  /\ store \in {Empty, Legacy, Ahead} \cup {Left(k) : k \in Released}
  /\ view = store
  /\ writing = FALSE
  /\ pc = "down"
  /\ at = 0 /\ pos = 1 /\ names = {}
  /\ crashes = 0

\* _current_schema_version: the highest version recorded.
Current(versions) ==
  IF versions = {} THEN 0 ELSE CHOOSE v \in versions : \A w \in versions : w <= v

\* Plausible slips in the operators below.
FirstPending_AssumesCurrent ==
  IF view.ledger = {} THEN Latest ELSE Current(view.ledger) + 1
FirstPending_UnlessRecorded ==
  IF view.ledger = {} THEN Latest + 1 ELSE Current(view.ledger) + 1
Seeds_EveryBoot   == TRUE
Runs_Unguarded(s) == TRUE

-----------------------------------------------------------------------------
(* A start.                                                                *)

\* init_db opens its connection; nothing has been read yet.
Boot ==
  /\ pc = "down"
  /\ pc' = "schema"
  /\ view' = store /\ writing' = FALSE
  /\ at' = 0 /\ pos' = 1 /\ names' = {}
  /\ UNCHANGED <<store, crashes>>

Script == IF at = 0 THEN BaseScript ELSE MigrationScripts[at]

\* The guards around a statement let it through.
Runs(s) == s.unless \cap names = {}

\* What it would create is there already.
Exists(s) == s.name \in view.objects

\* A change is durable at once until the transaction begins.
Write(database, begins) ==
  /\ view' = database
  /\ writing' = (writing \/ begins)
  /\ store' = IF writing \/ begins THEN store ELSE database

InScript == pc = "schema" /\ at <= Latest /\ pos <= Len(Script)

ExecuteStatement ==
  /\ InScript
  /\ LET s == Script[pos] IN
       /\ Runs(s) /\ ~Exists(s)
       /\ Write([view EXCEPT !.objects = @ \cup s.adds], s.dml)
  /\ pos' = pos + 1
  /\ UNCHANGED <<pc, at, names, crashes>>

SkipStatement ==
  /\ InScript
  /\ LET s == Script[pos] IN ~Runs(s) \/ (Exists(s) /\ s.quiet)
  /\ pos' = pos + 1
  /\ UNCHANGED <<store, view, writing, pc, at, names, crashes>>

ScriptDone == pc = "schema" /\ at <= Latest /\ pos = Len(Script) + 1

\* _seed_default_rbac fills an empty permissions table, nothing else.
Seeds == ~view.seeded

Seeded(database) ==
  IF Seeds THEN [database EXCEPT !.seeded = TRUE, !.grants = DefaultGrants] ELSE database

\* The migration to begin with, past the end when none is pending.
FirstPending == Current(view.ledger) + 1

\* After the tables: the default roles, then the first pending migration.
BaselineDone ==
  /\ ScriptDone /\ at = 0
  /\ Write(Seeded(view), Seeds)
  /\ at' = FirstPending
  /\ pos' = 1 /\ names' = view.objects
  /\ UNCHANGED <<pc, crashes>>

\* _record_migration appends the ledger row; the next body reads its guards.
MigrationDone ==
  /\ ScriptDone /\ at > 0
  /\ at \notin view.ledger
  /\ Write([view EXCEPT !.ledger = @ \cup {at}], TRUE)
  /\ at' = at + 1
  /\ pos' = 1 /\ names' = view.objects
  /\ UNCHANGED <<pc, crashes>>

\* An exception in init_db: something that exists is created or recorded again.
Trips ==
  \/ InScript /\ Runs(Script[pos]) /\ Exists(Script[pos]) /\ ~Script[pos].quiet
  \/ ScriptDone /\ at > 0 /\ at \in view.ledger

\* _migrate_node_capabilities, then the commit that ends _schema.
Finish ==
  /\ pc = "schema" /\ at > Latest
  /\ view' = [view EXCEPT !.index = @ \cup Declared]
  /\ store' = view'
  /\ writing' = FALSE
  /\ pc' = "up"
  /\ UNCHANGED <<at, pos, names, crashes>>

-----------------------------------------------------------------------------
(* Around a start.                                                         *)

\* The process ends, killed or by an exception: an open transaction is
\* rolled back.
Crash ==
  /\ pc # "down"
  /\ ~Trips => crashes < MaxCrashes
  /\ crashes' = IF Trips THEN crashes ELSE crashes + 1
  /\ pc' = "down"
  /\ view' = store /\ writing' = FALSE
  /\ UNCHANGED <<store, at, pos, names>>

\* An administrator replaces the permissions of a group.
SetGroupPermissions(g, granted) ==
  /\ pc = "up"
  /\ store' = [store EXCEPT !.grants[g] = granted]
  /\ view' = store'
  /\ UNCHANGED <<writing, pc, at, pos, names, crashes>>

Starting ==
  Boot \/ ExecuteStatement \/ SkipStatement \/ BaselineDone \/ MigrationDone \/ Finish

Next ==
  \/ Starting
  \/ Crash
  \/ \E g \in Groups, granted \in SUBSET Permissions : SetGroupPermissions(g, granted)

Spec == Init /\ [][Next]_vars

\* A process runs its start-up code, and whoever supervises it starts it again.
LiveSpec == Spec /\ WF_vars(Starting)

-----------------------------------------------------------------------------
(* What a start promises.                                                  *)

AllObjects == AddedBy(BaseScript) \cup UNION {AddedBy(MigrationScripts[v]) : v \in 1..Latest}

Databases ==
  [objects : SUBSET Object, ledger : SUBSET Nat, seeded : BOOLEAN,
   index : SUBSET Declared, grants : [Groups -> SUBSET Permissions]]

TypeOK ==
  /\ store \in Databases /\ view \in Databases
  /\ writing \in BOOLEAN
  /\ pc \in {"down", "schema", "up"}
  /\ at \in Nat /\ pos \in Nat \ {0} /\ names \subseteq Object
  /\ crashes \in 0..MaxCrashes

\* The guard around the statement looks for its own object, or there is none:
\* run again, the body adds the object if it is missing.
Owed(s) == ~s.dml /\ s.unless \subseteq {s.name}

Restored(script) == {script[i].name : i \in {j \in 1..Len(script) : Owed(script[j])}}

Promised(v) == Restored(MigrationScripts[v])

\* The version of a database is no more than what it has: whatever was cut
\* short, no committed ledger row covers a migration whose columns are
\* missing, although columns and rows become durable at different times.
LedgerIsTruthful ==
  \A v \in 1..Latest : v <= Current(store.ledger) => Promised(v) \subseteq store.objects

\* A start cut short between a table and its index loses these for good.
KnownGaps == {<<"forward_mappings", "idx_node">>, <<"forward_slots", "idx_node">>}

\* Everything else is restored by some statement, whatever a start finds: a
\* column of a table that may predate it has a guarded ALTER of its own.
ASSUME RestorationAssumption ==
  AllObjects \ KnownGaps \subseteq Restored(BaseScript) \cup UNION {Promised(v) : v \in 1..Latest}

\* A server that serves has every table and column of the code, whatever
\* database it found and however often its start was cut short, and finds
\* every capability the nodes declared (init_db, _migrate_node_capabilities).
ServesFullSchema ==
  pc = "up" => AllObjects \ KnownGaps \subseteq store.objects /\ Declared \subseteq store.index

\* The comment over MIGRATIONS has it that a recorded step was applied: an
\* up-to-date database would have every index too.
ServesEveryIndex == pc = "up" => AllObjects \subseteq store.objects

\* A start gives no group a permission that an administrator took from it:
\* once seeded, grants change by an administrator's hand only (F-12).
RevokedStaysRevoked ==
  [][store.seeded /\ pc # "up" => store'.grants = store.grants]_vars

\* However its starts were cut short, the server comes up in the end: no body
\* trips over what an earlier attempt left behind.
StartsUp == <>[](pc = "up")

=============================================================================
