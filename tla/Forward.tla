-------------------------------- MODULE Forward --------------------------------
(***************************************************************************)
(* Forward slots: core/forward.py.  A node declares slots in its           *)
(* heartbeat, an administrator maps a slot to a capability, and at submit  *)
(* the server turns every stage that asks for "forward" into a stage for   *)
(* the mapped capability, with a payload shaped by the node's value slots  *)
(* and the mapping's binding.                                              *)
(*                                                                         *)
(* Every operation runs to its end on the event loop, so each is one       *)
(* action; what can go wrong is the order in which nodes and               *)
(* administrators call them.  A name is a slot or a payload field; a value *)
(* is the sequence of the texts joined in it; a schema is the set of its   *)
(* field names.                                                            *)
(***************************************************************************)
EXTENDS Integers, FiniteSets, SequencesExt, Sublists

CONSTANTS
  Nodes, Capabilities,
  Submitters,      \* bound: the nodes that declare slots and submit
  Slots, Names,    \* slots, and slots with payload fields
  Reserved,        \* KNOWN_FLOW_PROMPT_FIELDS
  None,            \* an absent value
  Declarations,    \* lists of slot entries that nodes send
  Bindings,        \* rule lists that administrators send, and None
  Schemas,         \* field sets capabilities declare, and None
  Submissions,     \* lists of forward stages that clients send
  MaxStages,       \* bound: stages in the store
  RuleLists,       \* more rule lists, for apply_binding alone
  Texts            \* what the constants in them are made of

VARIABLES
  registered,  \* rows of nodes
  index,       \* rows of node_capabilities: input schema of what a node offers
  slots,       \* rows of forward_slots, by node
  mappings,    \* rows of forward_mappings, by node and slot
  stages       \* the redirected stages stored so far

vars == <<registered, index, slots, mappings, stages>>

Empty == [x \in {} |-> x]

Only(f, S) == [x \in DOMAIN f \cap S |-> f[x]]

Over(f, g) == [x \in DOMAIN f \cup DOMAIN g |-> IF x \in DOMAIN f THEN f[x] ELSE g[x]]

Put(f, x, v) == [y \in DOMAIN f \cup {x} |-> IF y = x THEN v ELSE f[y]]

ASSUME SubmittersAreNodes == Submitters \subseteq Nodes

ASSUME DeclarationsAreLists == \A entries \in Declarations : Len(entries) \in Nat

ASSUME BindingsAreLists ==
  \A rules \in (Bindings \ {None}) \cup RuleLists :
    Len(rules) \in Nat /\ \A i \in 1..Len(rules) : rules[i].sources \in Seq(Names)

\* The texts of a constant can be told from those of the fields.
ASSUME TextsAreApart ==
  /\ Texts \cap Names = {}
  /\ \A rules \in RuleLists : \A i \in 1..Len(rules) :
       rules[i].target \in Names /\ rules[i].constant \in Seq(Texts) \cup {None}

-----------------------------------------------------------------------------
(* Declarations.                                                           *)

\* normalize_slot_value, normalize_slot_ref and the schema rule: a forward
\* slot carries neither value nor reference, a value slot no schema, and a
\* reference is whole.
WellTyped(e) ==
  IF e.type = "forward"
  THEN e.value = None /\ e.refSlot = None /\ e.refField = None
  ELSE e.schema = None /\ (e.refSlot = None <=> e.refField = None)

Declared(entries) == {entries[i].slot : i \in 1..Len(entries)}

\* Of two entries for one slot the later one counts.
LastEntry(entries, s) ==
  entries[CHOOSE i \in 1..Len(entries) :
            /\ entries[i].slot = s
            /\ \A j \in 1..Len(entries) : entries[j].slot = s => j <= i]

\* A slip: the first entry of a slot is looked up.
RefHolds_First(entries, e) ==
  e.refSlot # None =>
    \E i \in 1..Len(entries) :
      /\ entries[i].slot = e.refSlot /\ entries[i].type = "forward"
      /\ entries[i].schema # None /\ e.refField \in entries[i].schema

\* A reference names a forward slot of the same declaration and one of the
\* fields of that slot's schema.
RefHolds(entries, e) ==
  e.refSlot # None =>
    /\ e.refSlot \in Declared(entries)
    /\ LET target == LastEntry(entries, e.refSlot)
       IN /\ target.type = "forward"
          /\ target.schema # None /\ e.refField \in target.schema

Valid(entries) ==
  \A i \in 1..Len(entries) : WellTyped(entries[i]) /\ RefHolds(entries, entries[i])

\* replace_forward_slots: a valid declaration replaces the node's rows; the
\* heartbeat logs a refusal and goes on.
ReplaceForwardSlots(n, entries) ==
  /\ n \in registered
  /\ Valid(entries)
  /\ slots' = [slots EXCEPT ![n] = [s \in Declared(entries) |-> LastEntry(entries, s)]]
  /\ UNCHANGED <<registered, index, mappings, stages>>

-----------------------------------------------------------------------------
(* Bindings.                                                               *)

\* Plausible slips in the operators below.
Consumed_Nothing(rule, present) == {}

\* validate_binding_form: no two rules write one field, and no rule reads one
\* twice.
Disjoint(rules) ==
  /\ \A i, j \in 1..Len(rules) : rules[i].target = rules[j].target => i = j
  /\ \A i \in 1..Len(rules) : IsInjective(rules[i].sources)

Present(rule, payload) == Sublist(rule.sources, DOMAIN payload)

\* A rule uses up the fields it read, but not the one it writes.
Consumed(rule, present) == ToSet(present) \ {rule.target}

Write(rule, value, done) ==
  [payload |-> Put(done.payload, rule.target, value),
   written |-> done.written \cup {rule.target}]

\* One rule: a constant, nothing when no source is there, or the sources in
\* their order.
ApplyRule(done, rule) ==
  LET present == Present(rule, done.payload)
      joined  == FlattenSeq([i \in 1..Len(present) |-> done.payload[present[i]]])
      after   == Write(rule, joined, done)
  IN CASE rule.constant # None -> Write(rule, rule.constant, done)
       [] rule.constant = None /\ present = <<>> -> done
       [] OTHER -> [after EXCEPT !.payload = Only(@, DOMAIN @ \ Consumed(rule, present))]

\* The fields the sweep at the end leaves.
Survives(written) == written \cup Reserved

\* apply_binding: the rules in their order, then the sweep.
ApplyBinding(payload, rules) ==
  LET done[i \in 0..Len(rules)] ==
        IF i = 0 THEN [payload |-> payload, written |-> {}] ELSE ApplyRule(done[i - 1], rules[i])
      last == done[Len(rules)]
  IN Only(last.payload, Survives(last.written))

-----------------------------------------------------------------------------
(* Mappings.                                                               *)

SlotSchema(n, s) == IF s \in DOMAIN slots[n] THEN slots[n][s].schema ELSE None

Offers(n, c) == c \in DOMAIN index[n]

\* The fields a rule may write: the pinned provider's, or the slot's own.
TargetSchema(n, s, target, pin) ==
  IF pin # None THEN index[pin][target] ELSE SlotSchema(n, s)

\* Steps 8 and 9 of the ladder: the form, the sources, the targets.  An empty
\* schema declares no field and lets every target pass.
BindingAllowed(n, s, target, pin, rules) ==
  rules # None =>
    /\ rules # <<>> /\ Disjoint(rules)
    /\ SlotSchema(n, s) # None =>
         \A i \in 1..Len(rules) : ToSet(rules[i].sources) \subseteq SlotSchema(n, s)
    /\ TargetSchema(n, s, target, pin) # None
    /\ TargetSchema(n, s, target, pin) # {} =>
         \A i \in 1..Len(rules) : rules[i].target \in TargetSchema(n, s, target, pin)

\* Steps 4 to 7: the submitter, and somebody, or the pinned node, who offers
\* the capability.
MappingAllowed(n, target, pin) ==
  /\ n \in registered
  /\ IF pin = None THEN \E m \in registered : Offers(m, target)
                   ELSE pin \in registered /\ Offers(pin, target)

\* upsert_forward_mapping: the whole row is replaced.
UpsertForwardMapping(n, s, target, pin, rules) ==
  /\ MappingAllowed(n, target, pin)
  /\ BindingAllowed(n, s, target, pin, rules)
  /\ mappings' = [mappings EXCEPT ![n] =
                    Put(@, s, [target |-> target, pin |-> pin, binding |-> rules])]
  /\ UNCHANGED <<registered, index, slots, stages>>

DeleteForwardMapping(n, s) ==
  /\ s \in DOMAIN mappings[n]
  /\ mappings' = [mappings EXCEPT ![n] = Only(@, DOMAIN @ \ {s})]
  /\ UNCHANGED <<registered, index, slots, stages>>

-----------------------------------------------------------------------------
(* Submission.                                                             *)

\* A slip: what a mapped slot is declared as is not looked up again.
Routable_WhenMapped(n, s) == s \in DOMAIN mappings[n]

\* load_slot_declaration and the gate: value slots are not routable, an
\* undeclared slot counts as a forward slot.
Routable(n, s) == s \in DOMAIN slots[n] => slots[n][s].type = "forward"

Resolves(n, request) ==
  Routable(n, request.slot) /\ request.slot \in DOMAIN mappings[n]

\* The node's value slots that give a default to one slot or, without a
\* reference, to every slot.
ValueSlots(n, ref) ==
  {v \in DOMAIN slots[n] : /\ slots[n][v].type # "forward" /\ slots[n][v].value # None
                           /\ slots[n][v].refSlot = ref}

DefaultField(n, v) == IF slots[n][v].refField = None THEN v ELSE slots[n][v].refField

\* The defaults of one group; of two slots for one field either may count.
DefaultsOf(n, group) ==
  LET fields == {DefaultField(n, v) : v \in group}
  IN {d \in [fields -> {slots[n][v].value : v \in group}] :
        \A f \in fields : \E v \in group : DefaultField(n, v) = f /\ slots[n][v].value = d[f]}

\* A slip: a default replaces what the client sent.
Filled_Overwrites(payload, defaults) == Over(defaults, payload)

\* What the client sent stays, defaults fill the gaps (setdefault).
Filled(payload, defaults) == Over(payload, defaults)

\* One stage, rewritten for the capability it is mapped to.
Redirected(n, request, own, general) ==
  LET m      == mappings[n][request.slot]
      filled == Filled(Filled(request.payload, own), general)
  IN [by |-> n, slot |-> request.slot, sent |-> request.payload,
      capability |-> m.target, pin |-> m.pin, binding |-> m.binding,
      payload |-> IF m.binding = None THEN filled ELSE ApplyBinding(filled, m.binding)]

\* resolve_forward_stages, then create_task stores the stages: every stage
\* resolves or nothing is stored.
Submit(n, requests) ==
  /\ n \in registered
  /\ \A i \in 1..Len(requests) : Resolves(n, requests[i])
  /\ \E general \in DefaultsOf(n, ValueSlots(n, None)) :
     \E own \in [Slots -> UNION {DefaultsOf(n, ValueSlots(n, s)) : s \in Slots}] :
       /\ \A s \in Slots : own[s] \in DefaultsOf(n, ValueSlots(n, s))
       /\ stages' = stages \cup
            {Redirected(n, requests[i], own[requests[i].slot], general) : i \in 1..Len(requests)}
  /\ Cardinality(stages') <= MaxStages
  /\ UNCHANGED <<registered, index, slots, mappings>>

-----------------------------------------------------------------------------
(* Nodes.                                                                  *)

\* A new row of nodes; its identifier may be any that no row has.
Register(n) ==
  /\ n \notin registered
  /\ registered' = registered \cup {n}
  /\ UNCHANGED <<index, slots, mappings, stages>>

\* sync_node_capabilities: a heartbeat replaces the node's capability rows.
SyncCapabilities(n, offers) ==
  /\ n \in registered
  /\ index' = [index EXCEPT ![n] = offers]
  /\ UNCHANGED <<registered, slots, mappings, stages>>

\* A slip: the pins stay.
Unpinned_Not(row, n) == row

\* A row without its reference to node n.
Unpinned(row, n) == IF row.pin = n THEN [row EXCEPT !.pin = None] ELSE row

\* admin_delete_node: the node's slots and mappings go, mappings of others and
\* stored stages lose their pins on it.
DeleteNode(n) ==
  /\ n \in registered
  /\ registered' = registered \ {n}
  /\ index' = [index EXCEPT ![n] = Empty]
  /\ slots' = [slots EXCEPT ![n] = Empty]
  /\ mappings' = [m \in Nodes |->
       IF m = n THEN Empty ELSE [s \in DOMAIN mappings[m] |-> Unpinned(mappings[m][s], n)]]
  /\ stages' = {Unpinned(stage, n) : stage \in stages}

-----------------------------------------------------------------------------
Init ==
  /\ registered = {}
  /\ index = [n \in Nodes |-> Empty]
  /\ slots = [n \in Nodes |-> Empty]
  /\ mappings = [n \in Nodes |-> Empty]
  /\ stages = {}

Offerings == UNION {[cs -> Schemas] : cs \in SUBSET Capabilities}

Next ==
  \/ \E n \in Submitters :
    \/ \E entries \in Declarations : ReplaceForwardSlots(n, entries)
    \/ \E s \in Slots, target \in Capabilities, pin \in Nodes \cup {None}, rules \in Bindings :
         UpsertForwardMapping(n, s, target, pin, rules)
    \/ \E s \in Slots : DeleteForwardMapping(n, s)
    \/ \E requests \in Submissions : Submit(n, requests)
  \/ \E n \in Nodes :
    \/ \E offers \in Offerings : SyncCapabilities(n, offers)
    \/ Register(n) \/ DeleteNode(n)

Spec == Init /\ [][Next]_vars

-----------------------------------------------------------------------------
(* Properties.                                                             *)

TypeOK ==
  /\ registered \subseteq Nodes
  /\ \A n \in Nodes : /\ DOMAIN index[n] \subseteq Capabilities
                      /\ DOMAIN slots[n] \subseteq Slots /\ DOMAIN mappings[n] \subseteq Slots
                      /\ \A s \in DOMAIN slots[n] : slots[n][s].slot = s

\* Every stored reference leads to a forward slot of the node and to a field
\* of its schema, also when a declaration names a slot twice and the rows
\* checked are not the rows stored (replace_forward_slots).
RefsResolve ==
  \A n \in Nodes : \A v \in DOMAIN slots[n] :
    slots[n][v].refSlot # None =>
      /\ slots[n][v].refSlot \in DOMAIN slots[n]
      /\ LET target == slots[n][slots[n][v].refSlot]
         IN /\ target.type = "forward"
            /\ target.schema # None /\ slots[n][v].refField \in target.schema

\* Nothing refers to a deleted node: not its own slots and mappings, and no
\* pin that a mapping holds or that a submit has copied into a stage.
NoDanglingForward ==
  /\ \A n \in Nodes \ registered : slots[n] = Empty /\ mappings[n] = Empty
  /\ \A n \in Nodes : \A s \in DOMAIN mappings[n] : mappings[n][s].pin \in registered \cup {None}
  /\ \A stage \in stages : stage.pin \in registered \cup {None}

Touched(rules) == UNION {ToSet(rules[i].sources) \cup {rules[i].target} : i \in 1..Len(rules)}

\* What the client sent reaches the provider: every field without a binding,
\* the reserved fields that no rule touches with one; value slots fill gaps
\* and never replace it (resolve_forward_stages).
SentFieldsSurvive ==
  \A stage \in stages : \A f \in DOMAIN stage.sent :
    stage.binding = None \/ f \in Reserved \ Touched(stage.binding) =>
      f \in DOMAIN stage.payload /\ stage.payload[f] = stage.sent[f]

\* Where a mapping that outlived a new declaration, a withdrawn capability or
\* a deleted node leads: to no stage for a slot that is a value slot by now,
\* and to no pin on a node that is gone.
StaleMappingsAreSafe ==
  [][\A stage \in stages' \ (stages \cup {Unpinned(old, n) : old \in stages, n \in Nodes}) :
       /\ stage.slot \in DOMAIN slots[stage.by] => slots[stage.by][stage.slot].type = "forward"
       /\ stage.pin \in registered \cup {None}]_vars

\* What apply_binding makes of a payload: every text of it is in at most one
\* place, only targets and reserved fields are left, and a constant stays
\* unless a later rule reads it.
MovesValues(rules, fields) ==
  LET result == ApplyBinding([f \in fields |-> <<f>>], rules)
      Places(f) == {p \in (DOMAIN result) \X (1..Cardinality(Names)) :
                      p[2] <= Len(result[p[1]]) /\ result[p[1]][p[2]] = f}
      Reread(i) == \E j \in (i + 1)..Len(rules) : rules[i].target \in ToSet(rules[j].sources)
  IN /\ DOMAIN result \subseteq Reserved \cup {rules[i].target : i \in 1..Len(rules)}
     /\ \A f \in fields : Cardinality(Places(f)) <= 1
     /\ \A f \in (fields \cap Reserved) \ Touched(rules) : result[f] = <<f>>
     /\ \A i \in 1..Len(rules) :
          rules[i].constant # None /\ ~ Reread(i) =>
            rules[i].target \in DOMAIN result /\ result[rules[i].target] = rules[i].constant

\* No rule list the form check admits loses, doubles or mixes up what a client
\* sends, for every list and payload (apply_binding); the store plays no part
\* in it, so the empty one is enough.
BindingMovesValues ==
  Init => \A rules \in {r \in RuleLists : Disjoint(r)}, fields \in SUBSET Names :
            MovesValues(rules, fields)
=============================================================================
