--------------------------- MODULE StatusRegistry ---------------------------
(***************************************************************************)
(* The central status registry (core/status.py): which statuses a node, a  *)
(* task and a stage may have, the category of each and the transitions it  *)
(* allows.  Everything else asks for categories, never for names.          *)
(***************************************************************************)

Def(category, allowed) == [category |-> category, allowed |-> allowed]

NodeStatuses ==
  [ offline     |-> Def("OFFLINE",   {"pending", "online"}),
    pending     |-> Def("PENDING",   {"approved", "offline"}),
    approved    |-> Def("AVAILABLE", {"online", "offline"}),
    online      |-> Def("AVAILABLE", {"busy", "idle", "offline", "maintenance"}),
    idle        |-> Def("AVAILABLE", {"busy", "online", "offline"}),
    busy        |-> Def("BUSY",      {"idle", "online", "offline"}),
    maintenance |-> Def("BUSY",      {"offline"}) ]

TaskStatuses ==
  [ pending           |-> Def("PENDING",  {"accepted", "running", "cancelled"}),
    accepted          |-> Def("PENDING",  {"running", "awaiting_subtasks", "cancelled"}),
    running           |-> Def("BUSY",     {"completed", "failed", "timed_out", "cancelled"}),
    awaiting_subtasks |-> Def("PENDING",  {"running", "cancelled"}),
    needs_input       |-> Def("PENDING",  {"running", "cancelled"}),
    completed         |-> Def("TERMINAL", {}),
    failed            |-> Def("TERMINAL", {}),
    timed_out         |-> Def("TERMINAL", {}),
    cancelled         |-> Def("TERMINAL", {}) ]

StageStatuses ==
  [ pending   |-> Def("PENDING",  {"claimed", "accepted", "cancelled"}),
    claimed   |-> Def("BUSY",     {"completed", "failed", "timed_out", "pending", "accepted"}),
    accepted  |-> Def("PENDING",  {"completed", "failed", "timed_out", "orphaned"}),
    orphaned  |-> Def("PENDING",  {"accepted", "pending", "failed", "cancelled"}),
    completed |-> Def("TERMINAL", {}),
    failed    |-> Def("TERMINAL", {}),
    timed_out |-> Def("TERMINAL", {}),
    cancelled |-> Def("TERMINAL", {}) ]

(* The names registered for an entity in any of the given categories.      *)
StatusesIn(registry, categories) ==
  {name \in DOMAIN registry : registry[name].category \in categories}

(* can_transition with an explicit entity type.                            *)
CanTransition(registry, from, to) ==
  from \in DOMAIN registry /\ to \in registry[from].allowed

(* node_live_statuses and node_can_claim, as sets of categories.           *)
LiveCategories  == {"AVAILABLE", "BUSY"}
ClaimCategories == {"AVAILABLE"}
=============================================================================
