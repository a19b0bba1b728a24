----------------------------- MODULE ForwardProofs -----------------------------
(***************************************************************************)
(* For any nodes, slots and declarations: stored references resolve, and   *)
(* nothing refers to a node that is gone.  Both are inductive, given that  *)
(* the tables have rows for every node: a declaration is checked as a      *)
(* whole and replaces all rows of its node, and the deletion of a node     *)
(* visits every table that can name it.  Then what apply_binding makes of  *)
(* a payload, by induction over the rules: what no rule touches stays, in  *)
(* every stage, and no text a client sent is doubled or mixed up.          *)
(***************************************************************************)
EXTENDS Forward, DataLemmas, FiniteSetTheorems

\* The tables are functions of the node, and rows have the field for a pin.
Tables ==
  /\ registered \subseteq Nodes
  /\ DOMAIN slots = Nodes /\ DOMAIN mappings = Nodes
  /\ \A n \in Nodes : \A s \in DOMAIN mappings[n] : "pin" \in DOMAIN mappings[n][s]
  /\ \A stage \in stages : "pin" \in DOMAIN stage

ForwardInv == Tables /\ RefsResolve /\ NoDanglingForward

-----------------------------------------------------------------------------
LEMMA LessThan == ASSUME NEW a \in Nat, NEW b \in Nat, a < b PROVE <<a, b>> \in OpToRel(<, Nat)
  BY DEF OpToRel

\* A slot that is declared has a last entry.
LEMMA LastEntryExists ==
  ASSUME NEW entries, Len(entries) \in Nat, NEW s \in Declared(entries)
  PROVE  \E i \in 1..Len(entries) : LastEntry(entries, s) = entries[i] /\ entries[i].slot = s
<1> DEFINE I == {i \in 1..Len(entries) : entries[i].slot = s}
           D == {Len(entries) - i : i \in I}
<1>1. D \subseteq Nat /\ D # {} BY DEF Declared
<1>2. PICK d \in D : \A e \in D : <<e, d>> \notin OpToRel(<, Nat)
  BY <1>1, NatLessThanWellFounded, WFMin
<1>3. PICK i \in I : d = Len(entries) - i BY <1>2
<1>4. ASSUME NEW j \in I PROVE j <= i
  <2>1. Len(entries) - j \in D OBVIOUS
  <2>2. ~(Len(entries) - j < d) BY <1>1, <1>2, <2>1, LessThan
  <2> QED BY <1>3, <2>2
<1> QED BY <1>4 DEF LastEntry

\* What a valid declaration stores resolves.
LEMMA ValidResolves ==
  ASSUME NEW entries, Len(entries) \in Nat, Valid(entries), NEW v \in Declared(entries),
         LastEntry(entries, v).refSlot # None
  PROVE  LET e == LastEntry(entries, v)
             target == LastEntry(entries, e.refSlot)
         IN /\ e.refSlot \in Declared(entries)
            /\ target.type = "forward" /\ target.schema # None /\ e.refField \in target.schema
<1>1. PICK i \in 1..Len(entries) : LastEntry(entries, v) = entries[i] BY LastEntryExists
<1> QED BY <1>1 DEF Valid, RefHolds

-----------------------------------------------------------------------------
LEMMA InitForward == Init => ForwardInv
  BY DEF Init, ForwardInv, Tables, RefsResolve, NoDanglingForward, Empty

LEMMA ReplaceKeeps ==
  ASSUME ForwardInv, NEW n \in Nodes, NEW entries, Len(entries) \in Nat,
         ReplaceForwardSlots(n, entries)
  PROVE  ForwardInv'
<1> DEFINE rows == [s \in Declared(entries) |-> LastEntry(entries, s)]
<1>1. slots' = [slots EXCEPT ![n] = rows] /\ Valid(entries) /\ n \in registered
  BY DEF ReplaceForwardSlots
<1>2. \A v \in Declared(entries) : rows[v].refSlot # None =>
        /\ rows[v].refSlot \in Declared(entries)
        /\ rows[rows[v].refSlot].type = "forward" /\ rows[rows[v].refSlot].schema # None
        /\ rows[v].refField \in rows[rows[v].refSlot].schema
  BY <1>1, ValidResolves
<1>3. DOMAIN slots' = Nodes /\ slots'[n] = rows /\ \A m \in Nodes : m # n => slots'[m] = slots[m]
  BY <1>1 DEF ForwardInv, Tables
<1>4. DOMAIN rows = Declared(entries) OBVIOUS
<1> HIDE DEF rows
<1>5. RefsResolve' BY <1>2, <1>3, <1>4 DEF ForwardInv, RefsResolve
<1>6. Tables' BY <1>3 DEF ReplaceForwardSlots, ForwardInv, Tables
<1>7. NoDanglingForward'
  BY <1>1, <1>3 DEF ReplaceForwardSlots, ForwardInv, NoDanglingForward
<1> QED BY <1>5, <1>6, <1>7 DEF ForwardInv

LEMMA UpsertKeeps ==
  ASSUME ForwardInv, NEW n \in Nodes, NEW s, NEW target, NEW pin \in Nodes \cup {None}, NEW rules,
         UpsertForwardMapping(n, s, target, pin, rules)
  PROVE  ForwardInv'
<1> DEFINE row == [target |-> target, pin |-> pin, binding |-> rules]
<1>1. /\ mappings' = [mappings EXCEPT ![n] = Put(mappings[n], s, row)] /\ n \in registered
      /\ pin \in registered \cup {None}
      /\ registered' = registered /\ slots' = slots /\ stages' = stages
  BY DEF UpsertForwardMapping, MappingAllowed
<1>2. row.pin = pin /\ "pin" \in DOMAIN row OBVIOUS
<1> HIDE DEF row
<1>3. /\ DOMAIN mappings' = Nodes /\ \A m \in Nodes : m # n => mappings'[m] = mappings[m]
      /\ \A t \in DOMAIN mappings'[n] :
           \/ mappings'[n][t] = row
           \/ t \in DOMAIN mappings[n] /\ mappings'[n][t] = mappings[n][t]
  <2>1. /\ DOMAIN mappings' = Nodes /\ mappings'[n] = Put(mappings[n], s, row)
        /\ \A m \in Nodes : m # n => mappings'[m] = mappings[m]
    BY <1>1 DEF ForwardInv, Tables
  <2>2. \A t \in DOMAIN Put(mappings[n], s, row) :
           \/ Put(mappings[n], s, row)[t] = row
           \/ t \in DOMAIN mappings[n] /\ Put(mappings[n], s, row)[t] = mappings[n][t]
    BY DEF Put
  <2> QED BY <2>1, <2>2
<1>4. Tables' BY <1>1, <1>2, <1>3 DEF ForwardInv, Tables
<1>5. RefsResolve' BY <1>1 DEF ForwardInv, RefsResolve
<1>6. NoDanglingForward' BY <1>1, <1>2, <1>3 DEF ForwardInv, NoDanglingForward
<1> QED BY <1>4, <1>5, <1>6 DEF ForwardInv

LEMMA DeleteMappingKeeps ==
  ASSUME ForwardInv, NEW n \in Nodes, NEW s, DeleteForwardMapping(n, s)
  PROVE  ForwardInv'
<1>1. /\ mappings' = [mappings EXCEPT ![n] = Only(mappings[n], DOMAIN mappings[n] \ {s})]
      /\ registered' = registered /\ slots' = slots /\ stages' = stages /\ s \in DOMAIN mappings[n]
  BY DEF DeleteForwardMapping
<1>2. /\ DOMAIN mappings' = Nodes /\ \A m \in Nodes : m # n => mappings'[m] = mappings[m]
      /\ \A t \in DOMAIN mappings'[n] : t \in DOMAIN mappings[n] /\ mappings'[n][t] = mappings[n][t]
  BY <1>1 DEF ForwardInv, Tables, Only
<1>3. n \in registered
  <2>1. DOMAIN Empty = {} BY DEF Empty
  <2>2. mappings[n] # Empty BY <1>1, <2>1
  <2> QED BY <2>2 DEF ForwardInv, NoDanglingForward
<1>4. Tables' BY <1>1, <1>2 DEF ForwardInv, Tables
<1>5. RefsResolve' BY <1>1 DEF ForwardInv, RefsResolve
<1>6. \A m \in Nodes : \A t \in DOMAIN mappings'[m] :
        t \in DOMAIN mappings[m] /\ mappings'[m][t].pin = mappings[m][t].pin
  BY <1>2
<1>7. \A m \in Nodes : \A t \in DOMAIN mappings'[m] : mappings'[m][t].pin \in registered \cup {None}
  BY <1>6 DEF ForwardInv, NoDanglingForward
<1>8. \A m \in Nodes \ registered : slots'[m] = Empty /\ mappings'[m] = Empty
  BY <1>1, <1>2, <1>3 DEF ForwardInv, NoDanglingForward
<1>9. NoDanglingForward' BY <1>1, <1>7, <1>8 DEF ForwardInv, NoDanglingForward
<1> QED BY <1>4, <1>5, <1>9 DEF ForwardInv

-----------------------------------------------------------------------------
\* What a submit adds: stages for slots that resolve, with the mapping's pin.
LEMMA SubmitAdds ==
  ASSUME ForwardInv, NEW n \in Nodes, NEW requests, Submit(n, requests)
  PROVE  /\ n \in registered
         /\ \A stage \in stages' : stage \in stages \/
              /\ stage.by = n /\ Routable(n, stage.slot) /\ stage.slot \in DOMAIN mappings[n]
              /\ stage.pin = mappings[n][stage.slot].pin /\ "pin" \in DOMAIN stage
<1>1. PICK general, own :
        stages' = stages \cup
          {Redirected(n, requests[i], own[requests[i].slot], general) : i \in 1..Len(requests)}
  BY DEF Submit
<1>2. ASSUME NEW stage \in stages', stage \notin stages
      PROVE  /\ stage.by = n /\ Routable(n, stage.slot) /\ stage.slot \in DOMAIN mappings[n]
             /\ stage.pin = mappings[n][stage.slot].pin /\ "pin" \in DOMAIN stage
  <2>1. PICK i \in 1..Len(requests) :
          stage = Redirected(n, requests[i], own[requests[i].slot], general)
    BY <1>1, <1>2
  <2>2. /\ stage.by = n /\ stage.slot = requests[i].slot
        /\ stage.pin = mappings[n][requests[i].slot].pin /\ "pin" \in DOMAIN stage
    BY <2>1 DEF Redirected
  <2>3. Resolves(n, requests[i]) BY DEF Submit
  <2> QED BY <2>2, <2>3 DEF Resolves
<1> QED BY <1>2 DEF Submit

LEMMA SubmitKeeps ==
  ASSUME ForwardInv, NEW n \in Nodes, NEW requests, Submit(n, requests)
  PROVE  ForwardInv'
<1>1. registered' = registered /\ slots' = slots /\ mappings' = mappings BY DEF Submit
<1>2. Tables' BY <1>1, SubmitAdds DEF ForwardInv, Tables
<1>3. RefsResolve' BY <1>1 DEF ForwardInv, RefsResolve
<1>4. NoDanglingForward' BY <1>1, SubmitAdds DEF ForwardInv, NoDanglingForward
<1> QED BY <1>2, <1>3, <1>4 DEF ForwardInv

-----------------------------------------------------------------------------
LEMMA UnpinnedFacts ==
  ASSUME NEW row, "pin" \in DOMAIN row, NEW n, NEW S, row.pin \in S \cup {None}
  PROVE  /\ "pin" \in DOMAIN Unpinned(row, n)
         /\ Unpinned(row, n).pin \in (S \ {n}) \cup {None}
  BY DEF Unpinned

LEMMA DeleteNodeKeeps == ASSUME ForwardInv, NEW n \in Nodes, DeleteNode(n) PROVE ForwardInv'
<1>1. registered' = registered \ {n} BY DEF DeleteNode
<1>2. /\ DOMAIN slots' = Nodes /\ slots'[n] = Empty
      /\ \A m \in Nodes : m # n => slots'[m] = slots[m]
  BY DEF DeleteNode, ForwardInv, Tables
<1>3. /\ DOMAIN mappings' = Nodes /\ mappings'[n] = Empty
      /\ \A m \in Nodes : m # n =>
           mappings'[m] = [s \in DOMAIN mappings[m] |-> Unpinned(mappings[m][s], n)]
  BY DEF DeleteNode
<1>4. stages' = {Unpinned(stage, n) : stage \in stages} BY DEF DeleteNode
<1>5. \A stage \in stages' :
        "pin" \in DOMAIN stage /\ stage.pin \in (registered \ {n}) \cup {None}
  BY <1>4, UnpinnedFacts DEF ForwardInv, Tables, NoDanglingForward
<1>6. \A m \in Nodes : \A s \in DOMAIN mappings'[m] :
        /\ "pin" \in DOMAIN mappings'[m][s]
        /\ mappings'[m][s].pin \in (registered \ {n}) \cup {None}
  <2> SUFFICES ASSUME NEW m \in Nodes, NEW s \in DOMAIN mappings'[m]
               PROVE  /\ "pin" \in DOMAIN mappings'[m][s]
                      /\ mappings'[m][s].pin \in (registered \ {n}) \cup {None}
    OBVIOUS
  <2>1. m # n BY <1>3 DEF Empty
  <2>2. s \in DOMAIN mappings[m] /\ mappings'[m][s] = Unpinned(mappings[m][s], n)
    BY <1>3, <2>1
  <2>3. "pin" \in DOMAIN mappings[m][s] /\ mappings[m][s].pin \in registered \cup {None}
    BY <2>2 DEF ForwardInv, Tables, NoDanglingForward
  <2> QED BY <2>2, <2>3, UnpinnedFacts
<1>7. \A m \in Nodes \ registered' : slots'[m] = Empty /\ mappings'[m] = Empty
  <2> SUFFICES ASSUME NEW m \in Nodes \ registered', m # n
               PROVE  slots'[m] = Empty /\ mappings'[m] = Empty
    BY <1>2, <1>3
  <2>1. slots[m] = Empty /\ mappings[m] = Empty
    BY <1>1 DEF ForwardInv, NoDanglingForward
  <2>2. DOMAIN mappings[m] = {} BY <2>1 DEF Empty
  <2>3. mappings'[m] = [s \in {} |-> Unpinned(mappings[m][s], n)] BY <1>3, <2>2
  <2> QED BY <1>2, <2>1, <2>3 DEF Empty
<1>8. Tables' BY <1>1, <1>2, <1>3, <1>5, <1>6 DEF ForwardInv, Tables
<1>9. NoDanglingForward' BY <1>1, <1>5, <1>6, <1>7 DEF NoDanglingForward
<1>10. RefsResolve' BY <1>2 DEF ForwardInv, RefsResolve, Empty
<1> QED BY <1>8, <1>9, <1>10 DEF ForwardInv

-----------------------------------------------------------------------------
LEMMA StepForward == ForwardInv /\ [Next]_vars => ForwardInv'
<1> SUFFICES ASSUME ForwardInv, [Next]_vars PROVE ForwardInv'
  OBVIOUS
<1>1. ASSUME NEW n \in Submitters, NEW entries \in Declarations, ReplaceForwardSlots(n, entries)
      PROVE  ForwardInv'
  BY <1>1, ReplaceKeeps, SubmittersAreNodes, DeclarationsAreLists
<1>2. ASSUME NEW n \in Submitters, NEW s \in Slots, NEW target \in Capabilities,
             NEW pin \in Nodes \cup {None}, NEW rules \in Bindings,
             UpsertForwardMapping(n, s, target, pin, rules)
      PROVE  ForwardInv'
  BY <1>2, UpsertKeeps, SubmittersAreNodes
<1>3. ASSUME NEW n \in Submitters, NEW s \in Slots, DeleteForwardMapping(n, s) PROVE ForwardInv'
  BY <1>3, DeleteMappingKeeps, SubmittersAreNodes
<1>4. ASSUME NEW n \in Submitters, NEW requests \in Submissions, Submit(n, requests)
      PROVE  ForwardInv'
  BY <1>4, SubmitKeeps, SubmittersAreNodes
<1>5. ASSUME NEW n \in Nodes, NEW offers \in Offerings, SyncCapabilities(n, offers)
      PROVE  ForwardInv'
  BY <1>5 DEF SyncCapabilities, ForwardInv, Tables, RefsResolve, NoDanglingForward
<1>6. ASSUME NEW n \in Nodes, Register(n) PROVE ForwardInv'
  BY <1>6 DEF Register, ForwardInv, Tables, RefsResolve, NoDanglingForward
<1>7. ASSUME NEW n \in Nodes, DeleteNode(n) PROVE ForwardInv'
  BY <1>7, DeleteNodeKeeps
<1>8. CASE UNCHANGED vars
  BY <1>8 DEF vars, ForwardInv, Tables, RefsResolve, NoDanglingForward
<1> QED BY <1>1, <1>2, <1>3, <1>4, <1>5, <1>6, <1>7, <1>8 DEF Next

LEMMA ForwardInvariant == Spec => []ForwardInv
  BY InitForward, StepForward, PTL DEF Spec

\* Stored references always resolve (replace_forward_slots).
THEOREM ReferencesResolve == Spec => []RefsResolve
<1>1. ForwardInv => RefsResolve BY DEF ForwardInv
<1> QED BY <1>1, ForwardInvariant, PTL

\* Nothing ever refers to a node that is gone (admin_delete_node).
THEOREM NothingDangles == Spec => []NoDanglingForward
<1>1. ForwardInv => NoDanglingForward BY DEF ForwardInv
<1> QED BY <1>1, ForwardInvariant, PTL

\* No submit is led astray by a mapping that has outlived what it was made for.
THEOREM StaleMappingsSafe == Spec => StaleMappingsAreSafe
<1> DEFINE New == stages' \ (stages \cup {Unpinned(old, n) : old \in stages, n \in Nodes})
           Safe == \A stage \in New :
             /\ stage.slot \in DOMAIN slots[stage.by] => slots[stage.by][stage.slot].type = "forward"
             /\ stage.pin \in registered \cup {None}
<1>1. ForwardInv /\ [Next]_vars => [Safe]_vars
  <2> SUFFICES ASSUME ForwardInv, Next, NEW stage \in New
               PROVE  /\ stage.slot \in DOMAIN slots[stage.by] =>
                           slots[stage.by][stage.slot].type = "forward"
                      /\ stage.pin \in registered \cup {None}
    OBVIOUS
  <2>1. ASSUME stages' = stages PROVE FALSE BY <2>1
  <2>2. ASSUME NEW n \in Nodes, DeleteNode(n) PROVE FALSE BY <2>2 DEF DeleteNode
  <2>3. ASSUME NEW n \in Submitters, NEW requests \in Submissions, Submit(n, requests)
        PROVE  /\ stage.slot \in DOMAIN slots[stage.by] =>
                    slots[stage.by][stage.slot].type = "forward"
               /\ stage.pin \in registered \cup {None}
    <3>1. /\ stage.by = n /\ Routable(n, stage.slot) /\ stage.slot \in DOMAIN mappings[n]
          /\ stage.pin = mappings[n][stage.slot].pin
      BY <2>3, SubmitAdds, SubmittersAreNodes
    <3> QED BY <3>1, SubmittersAreNodes DEF Routable, ForwardInv, NoDanglingForward
  <2>4. ASSUME NEW n \in Submitters, NEW entries \in Declarations, ReplaceForwardSlots(n, entries)
        PROVE  stages' = stages
    BY <2>4 DEF ReplaceForwardSlots
  <2>5. ASSUME NEW n \in Submitters, NEW s \in Slots, NEW target \in Capabilities,
               NEW pin \in Nodes \cup {None}, NEW rules \in Bindings,
               UpsertForwardMapping(n, s, target, pin, rules)
        PROVE  stages' = stages
    BY <2>5 DEF UpsertForwardMapping, MappingAllowed
  <2>6. ASSUME NEW n \in Submitters, NEW s \in Slots, DeleteForwardMapping(n, s)
        PROVE  stages' = stages
    BY <2>6 DEF DeleteForwardMapping
  <2>7. ASSUME NEW n \in Nodes, NEW offers \in Offerings, SyncCapabilities(n, offers)
        PROVE  stages' = stages
    BY <2>7 DEF SyncCapabilities
  <2>8. ASSUME NEW n \in Nodes, Register(n) PROVE stages' = stages BY <2>8 DEF Register
  <2> HIDE DEF New
  <2> QED BY <2>1, <2>2, <2>3, <2>4, <2>5, <2>6, <2>7, <2>8 DEF Next
<1> QED BY <1>1, ForwardInvariant, PTL DEF Spec, StaleMappingsAreSafe

-----------------------------------------------------------------------------
\* What a binding makes of a payload, rule by rule.
Runs(payload, rules, n, run) ==
  run = [i \in 0..n |->
           IF i = 0 THEN [payload |-> payload, written |-> {}] ELSE ApplyRule(run[i - 1], rules[i])]

LEMMA RunExists ==
  ASSUME NEW payload, NEW rules
  PROVE  \A n \in Nat : \E run : Runs(payload, rules, n, run)
<1> DEFINE S == {n \in Nat : \E run : Runs(payload, rules, n, run)}
           start == [payload |-> payload, written |-> {}]
<1>1. 0 \in S
  <2> DEFINE run == [i \in 0..0 |-> start]
  <2>1. Runs(payload, rules, 0, run) BY DEF Runs
  <2> QED BY <2>1
<1>2. ASSUME NEW n \in Nat, n \in S PROVE n + 1 \in S
  <2>1. PICK run : Runs(payload, rules, n, run) BY <1>2
  <2> DEFINE Step(g, i) == IF i = 0 THEN start ELSE ApplyRule(g[i - 1], rules[i])
             more == [i \in 0..(n + 1) |-> IF i <= n THEN run[i] ELSE Step(run, i)]
  <2>2. \A i \in 0..n : run[i] = Step(run, i) BY <2>1 DEF Runs
  <2>3. ASSUME NEW i \in 0..(n + 1) PROVE more[i] = Step(more, i)
    <3>1. CASE i = 0 BY <2>2, <3>1
    <3>2. CASE i # 0
      <4>1. i - 1 \in 0..n /\ more[i - 1] = run[i - 1] BY <3>2
      <4>2. CASE i <= n BY <2>2, <3>2, <4>1, <4>2
      <4>3. CASE ~ (i <= n) BY <3>2, <4>1, <4>3
      <4> QED BY <4>2, <4>3
    <3> QED BY <3>1, <3>2
  <2>4. Runs(payload, rules, n + 1, more) BY <2>3 DEF Runs
  <2> QED BY <2>4
<1> HIDE DEF S
<1>3. Nat \subseteq S BY <1>1, <1>2, SetInduction
<1> QED BY <1>3 DEF S

LEMMA BindingIsRun ==
  ASSUME NEW payload, NEW rules, Len(rules) \in Nat
  PROVE  \E run : /\ Runs(payload, rules, Len(rules), run)
                  /\ LET last == run[Len(rules)]
                     IN ApplyBinding(payload, rules) = Only(last.payload, Survives(last.written))
<1>1. \E run : Runs(payload, rules, Len(rules), run) BY RunExists
<1>2. PICK run : run = CHOOSE g : Runs(payload, rules, Len(rules), g) OBVIOUS
<1>3. Runs(payload, rules, Len(rules), run) BY <1>1, <1>2
<1>4. LET last == run[Len(rules)]
      IN ApplyBinding(payload, rules) = Only(last.payload, Survives(last.written))
  BY <1>2 DEF ApplyBinding, Runs
<1> QED BY <1>3, <1>4

\* The three things a rule may do.
Work(done) == done = [payload |-> done.payload, written |-> done.written]

Joined(rule, payload) ==
  LET present == Present(rule, payload)
  IN FlattenSeq([i \in 1..Len(present) |-> payload[present[i]]])

Fired(done, rule) ==
  LET after == Put(done.payload, rule.target, Joined(rule, done.payload))
  IN [payload |-> Only(after, DOMAIN after \ Consumed(rule, Present(rule, done.payload))),
      written |-> done.written \cup {rule.target}]

LEMMA RuleCases ==
  ASSUME NEW rule, NEW done, Work(done)
  PROVE  \/ rule.constant # None /\ ApplyRule(done, rule) = Write(rule, rule.constant, done)
         \/ /\ rule.constant = None /\ Present(rule, done.payload) = <<>>
            /\ ApplyRule(done, rule) = done
         \/ /\ rule.constant = None /\ Present(rule, done.payload) # <<>>
            /\ ApplyRule(done, rule) = Fired(done, rule)
<1>1. CASE rule.constant # None
  BY <1>1 DEF ApplyRule
<1>2. CASE rule.constant = None /\ Present(rule, done.payload) = <<>>
  BY <1>2 DEF ApplyRule
<1>3. CASE rule.constant = None /\ Present(rule, done.payload) # <<>>
  <2> DEFINE after == Write(rule, Joined(rule, done.payload), done)
             gone  == Consumed(rule, Present(rule, done.payload))
  <2>1. ApplyRule(done, rule) = [after EXCEPT !.payload = Only(after.payload, DOMAIN after.payload \ gone)]
    BY <1>3 DEF ApplyRule, Joined
  <2>2. after = [payload |-> Put(done.payload, rule.target, Joined(rule, done.payload)),
                 written |-> done.written \cup {rule.target}]
    BY DEF Write
  <2> HIDE DEF gone
  <2>3. ApplyRule(done, rule) = Fired(done, rule)
    BY <2>1, <2>2 DEF Fired, gone
  <2> QED BY <1>3, <2>3
<1> QED BY <1>1, <1>2, <1>3

\* A field that a rule neither reads nor writes stays as it is.
SameField(f, p, q) == (f \in DOMAIN p <=> f \in DOMAIN q) /\ p[f] = q[f]

LEMMA RuleLeaves ==
  ASSUME NEW rule, rule.sources \in Seq(Names), NEW done, Work(done)
  PROVE  LET next == ApplyRule(done, rule)
         IN /\ Work(next)
            /\ done.written \subseteq next.written
            /\ next.written \subseteq done.written \cup {rule.target}
            /\ \A f : f # rule.target /\ f \notin ToSet(rule.sources) /\ f \in DOMAIN done.payload =>
                 f \in DOMAIN next.payload /\ next.payload[f] = done.payload[f]
<1> DEFINE present == Present(rule, done.payload)
<1>1. ToSet(present) \subseteq ToSet(rule.sources)
  <2>1. PICK place : Places(rule.sources, DOMAIN done.payload, Len(rule.sources), present, place)
    BY SublistPlaces DEF Present
  <2>2. \A i \in 1..Len(present) : place[i] \in 1..Len(rule.sources) /\ present[i] = rule.sources[place[i]]
    BY <2>1 DEF Places
  <2>3. present \in Seq(Names) BY SublistPlaces DEF Present
  <2> HIDE DEF present
  <2> QED BY <2>2, <2>3 DEF ToSet
<1> HIDE DEF present
<1>2. CASE ApplyRule(done, rule) = Write(rule, rule.constant, done)
  BY <1>2 DEF Write, Put, Work
<1>3. CASE ApplyRule(done, rule) = done
  BY <1>3
<1>4. CASE ApplyRule(done, rule) = Fired(done, rule)
  <2> PICK value : value = Joined(rule, done.payload) OBVIOUS
  <2> DEFINE after == Put(done.payload, rule.target, value)
  <2>1. ApplyRule(done, rule) = [payload |-> Only(after, DOMAIN after \ Consumed(rule, present)),
                                 written |-> done.written \cup {rule.target}]
    BY <1>4 DEF Fired, present
  <2>2. \A f : f # rule.target /\ f \notin ToSet(rule.sources) /\ f \in DOMAIN done.payload =>
          f \in DOMAIN after \ Consumed(rule, present) /\ after[f] = done.payload[f]
    BY <1>1 DEF Put, Consumed
  <2> HIDE DEF after
  <2> QED BY <2>1, <2>2 DEF Only, Work
<1> QED BY <1>2, <1>3, <1>4, RuleCases

\* So does a field that no rule reads or writes; it passes the sweep if it is
\* reserved.
LEMMA UntouchedStays ==
  ASSUME NEW rules, Len(rules) \in Nat, \A i \in 1..Len(rules) : rules[i].sources \in Seq(Names),
         NEW payload, NEW f \in DOMAIN payload, f \in Reserved, f \notin Touched(rules)
  PROVE  f \in DOMAIN ApplyBinding(payload, rules) /\ ApplyBinding(payload, rules)[f] = payload[f]
<1>1. PICK run : /\ Runs(payload, rules, Len(rules), run)
                 /\ LET last == run[Len(rules)]
                    IN ApplyBinding(payload, rules) = Only(last.payload, Survives(last.written))
  BY BindingIsRun
<1> DEFINE Kept(done) == Work(done) /\ f \in DOMAIN done.payload /\ done.payload[f] = payload[f]
           S == {n \in Nat : n <= Len(rules) => Kept(run[n])}
<1>2. 0 \in S BY <1>1 DEF Runs, Work
<1>3. ASSUME NEW n \in Nat, n \in S PROVE n + 1 \in S
  <2> SUFFICES ASSUME n + 1 <= Len(rules) PROVE Kept(run[n + 1])
    OBVIOUS
  <2>1. n + 1 \in 1..Len(rules) /\ n + 1 \in 0..Len(rules) /\ n + 1 # 0 /\ (n + 1) - 1 = n /\ Kept(run[n])
    BY <1>3
  <2>2. run[n + 1] = ApplyRule(run[n], rules[n + 1]) BY <1>1, <2>1 DEF Runs
  <2>3. f # rules[n + 1].target /\ f \notin ToSet(rules[n + 1].sources) BY <2>1 DEF Touched
  <2>4. rules[n + 1].sources \in Seq(Names) BY <2>1
  <2> QED BY <2>1, <2>2, <2>3, <2>4, RuleLeaves
<1> HIDE DEF S
<1>4. Nat \subseteq S BY <1>2, <1>3, SetInduction
<1>5. Kept(run[Len(rules)]) BY <1>4 DEF S
<1> QED BY <1>1, <1>5 DEF Only, Survives

-----------------------------------------------------------------------------
\* What was sent, in every stage: bindings come from administrators, who may
\* change them, but a stage keeps the one it was rewritten with.
SentStays(stage) ==
  \A f \in DOMAIN stage.sent :
    stage.binding = None \/ f \in Reserved \ Touched(stage.binding) =>
      f \in DOMAIN stage.payload /\ stage.payload[f] = stage.sent[f]

Whole(stage) == {"pin", "sent", "binding", "payload"} \subseteq DOMAIN stage

SentInv ==
  /\ DOMAIN mappings = Nodes
  /\ \A n \in Nodes : \A s \in DOMAIN mappings[n] :
       {"pin", "binding"} \subseteq DOMAIN mappings[n][s] /\ mappings[n][s].binding \in Bindings
  /\ \A stage \in stages : Whole(stage) /\ SentStays(stage)

\* Defaults fill gaps only.
LEMMA FilledKeeps ==
  ASSUME NEW payload, NEW defaults, NEW f \in DOMAIN payload
  PROVE  f \in DOMAIN Filled(payload, defaults) /\ Filled(payload, defaults)[f] = payload[f]
BY DEF Filled, Over

LEMMA SubmitSends ==
  ASSUME SentInv, NEW n \in Nodes, NEW requests, Submit(n, requests)
  PROVE  SentInv'
<1>1. PICK general, own :
        stages' = stages \cup
          {Redirected(n, requests[i], own[requests[i].slot], general) : i \in 1..Len(requests)}
  BY DEF Submit
<1>2. ASSUME NEW i \in 1..Len(requests), NEW stage,
             stage = Redirected(n, requests[i], own[requests[i].slot], general)
      PROVE  Whole(stage) /\ SentStays(stage)
  <2> PICK filled : filled = Filled(Filled(requests[i].payload, own[requests[i].slot]), general)
    OBVIOUS
  <2> PICK rules : rules = mappings[n][requests[i].slot].binding
    OBVIOUS
  <2>1. /\ stage.sent = requests[i].payload /\ stage.binding = rules /\ Whole(stage)
        /\ stage.payload = IF rules = None THEN filled ELSE ApplyBinding(filled, rules)
    BY <1>2 DEF Redirected, Whole
  <2>2. rules \in Bindings
    BY DEF Submit, Resolves, SentInv
  <2>3. ASSUME NEW f \in DOMAIN stage.sent PROVE f \in DOMAIN filled /\ filled[f] = stage.sent[f]
    BY <2>1, <2>3, FilledKeeps
  <2>4. ASSUME NEW f \in DOMAIN stage.sent, rules # None, f \in Reserved \ Touched(rules)
        PROVE  f \in DOMAIN stage.payload /\ stage.payload[f] = stage.sent[f]
    <3>1. Len(rules) \in Nat /\ \A j \in 1..Len(rules) : rules[j].sources \in Seq(Names)
      BY <2>2, <2>4, BindingsAreLists
    <3>2. f \in DOMAIN filled /\ filled[f] = stage.sent[f]
      BY <2>3
    <3>3. f \in DOMAIN ApplyBinding(filled, rules) /\ ApplyBinding(filled, rules)[f] = filled[f]
      BY <2>4, <3>1, <3>2, UntouchedStays
    <3> QED BY <2>1, <2>4, <3>2, <3>3
  <2> QED BY <2>1, <2>3, <2>4 DEF SentStays
<1>3. \A stage \in stages' : Whole(stage) /\ SentStays(stage)
  BY <1>1, <1>2 DEF SentInv
<1> QED BY <1>3 DEF Submit, SentInv

LEMMA DeleteNodeSends == ASSUME SentInv, NEW n \in Nodes, DeleteNode(n) PROVE SentInv'
<1>1. ASSUME NEW stage \in stages PROVE Whole(Unpinned(stage, n)) /\ SentStays(Unpinned(stage, n))
  <2>1. Whole(stage) /\ SentStays(stage) BY DEF SentInv
  <2>2. /\ Whole(Unpinned(stage, n)) /\ Unpinned(stage, n).sent = stage.sent
        /\ Unpinned(stage, n).binding = stage.binding /\ Unpinned(stage, n).payload = stage.payload
    BY <2>1 DEF Unpinned, Whole
  <2> QED BY <2>1, <2>2 DEF SentStays
<1>2. \A stage \in stages' : Whole(stage) /\ SentStays(stage) BY <1>1 DEF DeleteNode
<1>3. DOMAIN mappings' = Nodes BY DEF DeleteNode
<1>4. ASSUME NEW m \in Nodes, NEW s \in DOMAIN mappings'[m]
      PROVE  {"pin", "binding"} \subseteq DOMAIN mappings'[m][s] /\ mappings'[m][s].binding \in Bindings
  <2>1. mappings'[m] = IF m = n THEN Empty ELSE [t \in DOMAIN mappings[m] |-> Unpinned(mappings[m][t], n)]
    BY DEF DeleteNode
  <2>2. m # n BY <2>1 DEF Empty
  <2>3. s \in DOMAIN mappings[m] /\ mappings'[m][s] = Unpinned(mappings[m][s], n) BY <2>1, <2>2
  <2>4. {"pin", "binding"} \subseteq DOMAIN mappings[m][s] /\ mappings[m][s].binding \in Bindings
    BY <2>3 DEF SentInv
  <2> QED BY <2>3, <2>4 DEF Unpinned
<1> QED BY <1>2, <1>3, <1>4 DEF SentInv

LEMMA StepSends == SentInv /\ [Next]_vars => SentInv'
<1> SUFFICES ASSUME SentInv, [Next]_vars PROVE SentInv'
  OBVIOUS
<1>1. ASSUME NEW n \in Submitters, NEW s \in Slots, NEW target \in Capabilities,
             NEW pin \in Nodes \cup {None}, NEW rules \in Bindings,
             UpsertForwardMapping(n, s, target, pin, rules)
      PROVE  SentInv'
  <2> PICK row : row = [target |-> target, pin |-> pin, binding |-> rules] OBVIOUS
  <2>1. mappings' = [mappings EXCEPT ![n] = Put(mappings[n], s, row)] /\ stages' = stages
    BY <1>1 DEF UpsertForwardMapping
  <2>2. {"pin", "binding"} \subseteq DOMAIN row /\ row.binding \in Bindings OBVIOUS
  <2>3. \A m \in Nodes : \A t \in DOMAIN mappings'[m] :
          mappings'[m][t] = row \/ (t \in DOMAIN mappings[m] /\ mappings'[m][t] = mappings[m][t])
    BY <2>1, SubmittersAreNodes DEF SentInv, Put
  <2>4. DOMAIN mappings' = Nodes BY <2>1 DEF SentInv
  <2> QED BY <2>1, <2>2, <2>3, <2>4 DEF SentInv
<1>2. ASSUME NEW n \in Submitters, NEW s \in Slots, DeleteForwardMapping(n, s) PROVE SentInv'
  <2>1. /\ mappings' = [mappings EXCEPT ![n] = Only(mappings[n], DOMAIN mappings[n] \ {s})]
        /\ stages' = stages
    BY <1>2 DEF DeleteForwardMapping
  <2>2. ASSUME NEW m \in Nodes, NEW t \in DOMAIN mappings'[m]
        PROVE  t \in DOMAIN mappings[m] /\ mappings'[m][t] = mappings[m][t]
    <3>1. mappings'[m] = IF m = n THEN Only(mappings[m], DOMAIN mappings[m] \ {s}) ELSE mappings[m]
      BY <2>1, SubmittersAreNodes DEF SentInv
    <3> QED BY <3>1 DEF Only
  <2>3. DOMAIN mappings' = Nodes BY <2>1 DEF SentInv
  <2>4. \A m \in Nodes : \A t \in DOMAIN mappings'[m] :
          {"pin", "binding"} \subseteq DOMAIN mappings'[m][t] /\ mappings'[m][t].binding \in Bindings
    <3> TAKE m \in Nodes
    <3> TAKE t \in DOMAIN mappings'[m]
    <3>1. t \in DOMAIN mappings[m] /\ mappings'[m][t] = mappings[m][t] BY <2>2
    <3> QED BY <3>1 DEF SentInv
  <2>5. \A stage \in stages' : Whole(stage) /\ SentStays(stage) BY <2>1 DEF SentInv
  <2> QED BY <2>3, <2>4, <2>5 DEF SentInv
<1>3. ASSUME NEW n \in Submitters, NEW requests \in Submissions, Submit(n, requests) PROVE SentInv'
  BY <1>3, SubmitSends, SubmittersAreNodes
<1>4. ASSUME NEW n \in Nodes, DeleteNode(n) PROVE SentInv'
  BY <1>4, DeleteNodeSends
<1>5. CASE UNCHANGED <<mappings, stages>>
  BY <1>5 DEF SentInv
<1>6. ASSUME NEW n \in Submitters, NEW entries \in Declarations, ReplaceForwardSlots(n, entries)
      PROVE  UNCHANGED <<mappings, stages>>
  BY <1>6 DEF ReplaceForwardSlots
<1>7. ASSUME NEW n \in Nodes, NEW offers, SyncCapabilities(n, offers) \/ Register(n)
      PROVE  UNCHANGED <<mappings, stages>>
  BY <1>7 DEF SyncCapabilities, Register
<1>8. CASE UNCHANGED vars
  BY <1>5, <1>8 DEF vars
<1> QED BY <1>1, <1>2, <1>3, <1>4, <1>5, <1>6, <1>7, <1>8 DEF Next

\* Whatever the administrators map and bind meanwhile, a stage holds what its
\* client sent (resolve_forward_stages, apply_binding).
THEOREM SentFieldsStay == Spec => []SentFieldsSurvive
<1>1. Init => SentInv BY DEF Init, SentInv, Empty
<1>2. SentInv => SentFieldsSurvive BY DEF SentInv, SentStays, SentFieldsSurvive
<1> QED BY <1>1, <1>2, StepSends, PTL DEF Spec

-----------------------------------------------------------------------------
\* Where each text of a join comes from: the part, and the place in it.
Origins(parts, n, flat, part, at) ==
  /\ \A k \in 1..Len(flat) : /\ part[k] \in 1..n /\ at[k] \in 1..Len(parts[part[k]])
                             /\ flat[k] = parts[part[k]][at[k]]
  /\ \A k, l \in 1..Len(flat) : part[k] = part[l] /\ at[k] = at[l] => k = l

OriginsKnown(parts, n, flat) == \E part, at : Origins(parts, n, flat, part, at)

LEMMA OriginsGrow ==
  ASSUME NEW T, NEW parts, NEW n \in Nat, parts[n + 1] \in Seq(T), NEW flat \in Seq(T),
         OriginsKnown(parts, n, flat)
  PROVE  flat \o parts[n + 1] \in Seq(T) /\ OriginsKnown(parts, n + 1, flat \o parts[n + 1])
<1> DEFINE new == parts[n + 1]
           all == flat \o new
<1>1. /\ all \in Seq(T) /\ Len(all) = Len(flat) + Len(new) /\ Len(flat) \in Nat /\ Len(new) \in Nat
      /\ \A k \in 1..Len(flat) : all[k] = flat[k]
      /\ \A k \in 1..Len(new) : all[Len(flat) + k] = new[k]
  OBVIOUS
<1>2. PICK part, at : Origins(parts, n, flat, part, at) BY DEF OriginsKnown
<1>s. new = parts[n + 1] OBVIOUS
<1> HIDE DEF all, new
<1> DEFINE p == [k \in 1..Len(all) |-> IF k <= Len(flat) THEN part[k] ELSE n + 1]
           a == [k \in 1..Len(all) |-> IF k <= Len(flat) THEN at[k] ELSE k - Len(flat)]
<1>3. ASSUME NEW k \in 1..Len(all)
      PROVE  p[k] \in 1..(n + 1) /\ a[k] \in 1..Len(parts[p[k]]) /\ all[k] = parts[p[k]][a[k]]
  <2>1. CASE k <= Len(flat)
    <3>1. k \in 1..Len(flat) /\ p[k] = part[k] /\ a[k] = at[k] BY <1>1, <2>1
    <3> HIDE DEF p, a
    <3> QED BY <1>1, <1>2, <3>1 DEF Origins
  <2>2. CASE ~ (k <= Len(flat))
    <3>1. /\ k - Len(flat) \in 1..Len(new) /\ p[k] = n + 1 /\ a[k] = k - Len(flat)
          /\ k = Len(flat) + (k - Len(flat))
      BY <1>1, <2>2
    <3> HIDE DEF p, a
    <3>2. all[k] = new[k - Len(flat)] BY <1>1, <3>1
    <3> QED BY <1>s, <3>1, <3>2
  <2> QED BY <2>1, <2>2
<1>4. ASSUME NEW k \in 1..Len(all), NEW l \in 1..Len(all), p[k] = p[l], a[k] = a[l] PROVE k = l
  <2>1. \A i \in 1..Len(flat) : part[i] \in 1..n BY <1>2 DEF Origins
  <2>2. CASE k <= Len(flat) /\ l <= Len(flat)
    <3>1. k \in 1..Len(flat) /\ l \in 1..Len(flat) /\ part[k] = part[l] /\ at[k] = at[l]
      BY <1>1, <1>4, <2>2
    <3> QED BY <1>2, <3>1 DEF Origins
  <2>3. CASE ~ (k <= Len(flat)) /\ ~ (l <= Len(flat))
    BY <1>1, <1>4, <2>3
  <2>4. CASE k <= Len(flat) /\ ~ (l <= Len(flat))
    <3>1. k \in 1..Len(flat) /\ p[k] = part[k] /\ p[l] = n + 1 BY <1>1, <2>4
    <3> QED BY <1>4, <2>1, <3>1
  <2>5. CASE ~ (k <= Len(flat)) /\ l <= Len(flat)
    <3>1. l \in 1..Len(flat) /\ p[l] = part[l] /\ p[k] = n + 1 BY <1>1, <2>5
    <3> QED BY <1>4, <2>1, <3>1
  <2> QED BY <2>2, <2>3, <2>4, <2>5
<1> HIDE DEF p, a
<1>5. Origins(parts, n + 1, all, p, a) BY <1>3, <1>4 DEF Origins
<1> QED BY <1>1, <1>5 DEF OriginsKnown, all, new

\* The recursive function inside FlattenSeq.
Flattens(parts, n, run) == run = [i \in 1..n |-> IF i = 1 THEN parts[i] ELSE run[i - 1] \o parts[i]]

LEMMA FlattenExists ==
  ASSUME NEW parts
  PROVE  \A n \in Nat : \E run : Flattens(parts, n, run)
<1> DEFINE S == {n \in Nat : \E run : Flattens(parts, n, run)}
<1>1. 0 \in S
  <2> DEFINE run == [i \in 1..0 |-> parts[i]]
  <2>1. Flattens(parts, 0, run) BY DEF Flattens
  <2> QED BY <2>1
<1>2. ASSUME NEW n \in Nat, n \in S PROVE n + 1 \in S
  <2>1. PICK run : Flattens(parts, n, run) BY <1>2
  <2> DEFINE Step(g, i) == IF i = 1 THEN parts[i] ELSE g[i - 1] \o parts[i]
             more == [i \in 1..(n + 1) |-> IF i <= n THEN run[i] ELSE Step(run, i)]
  <2>2. \A i \in 1..n : run[i] = Step(run, i) BY <2>1 DEF Flattens
  <2>3. ASSUME NEW i \in 1..(n + 1) PROVE more[i] = Step(more, i)
    <3>1. CASE i = 1 BY <2>2, <3>1
    <3>2. CASE i # 1
      <4>1. i - 1 \in 1..n /\ more[i - 1] = run[i - 1] BY <3>2
      <4>2. CASE i <= n
        <5>1. i \in 1..n /\ more[i] = run[i] BY <4>2
        <5>2. run[i] = run[i - 1] \o parts[i] BY <2>2, <3>2, <5>1
        <5> HIDE DEF more
        <5> QED BY <3>2, <4>1, <5>1, <5>2
      <4>3. CASE ~ (i <= n) BY <3>2, <4>1, <4>3
      <4> QED BY <4>2, <4>3
    <3> QED BY <3>1, <3>2
  <2>4. Flattens(parts, n + 1, more) BY <2>3 DEF Flattens
  <2> QED BY <2>4
<1> HIDE DEF S
<1>3. Nat \subseteq S BY <1>1, <1>2, SetInduction
<1> QED BY <1>3 DEF S

\* No text of a join is lost to another one: each has a place of its own.
LEMMA FlattenOrigins ==
  ASSUME NEW T, NEW parts, Len(parts) \in Nat, Len(parts) # 0,
         \A i \in 1..Len(parts) : parts[i] \in Seq(T)
  PROVE  FlattenSeq(parts) \in Seq(T) /\ OriginsKnown(parts, Len(parts), FlattenSeq(parts))
<1>1. \E run : Flattens(parts, Len(parts), run) BY FlattenExists
<1>2. PICK run : run = CHOOSE g : Flattens(parts, Len(parts), g) OBVIOUS
<1>3. Flattens(parts, Len(parts), run) BY <1>1, <1>2
<1>4. FlattenSeq(parts) = run[Len(parts)] BY <1>2 DEF FlattenSeq, Flattens
<1> DEFINE Fine(n) == run[n] \in Seq(T) /\ OriginsKnown(parts, n, run[n])
           S == {n \in Nat : n + 1 <= Len(parts) => Fine(n + 1)}
<1>5. 0 \in S
  <2>1. run[1] = parts[1] /\ parts[1] \in Seq(T) BY <1>3 DEF Flattens
  <2> DEFINE part == [k \in 1..Len(parts[1]) |-> 1]
             at   == [k \in 1..Len(parts[1]) |-> k]
  <2>2. \A k \in 1..Len(parts[1]) : part[k] = 1 /\ at[k] = k OBVIOUS
  <2> HIDE DEF part, at
  <2>3. Origins(parts, 1, run[1], part, at) BY <2>1, <2>2 DEF Origins
  <2>4. Fine(1) BY <2>1, <2>3 DEF OriginsKnown
  <2>5. 0 + 1 = 1 OBVIOUS
  <2> HIDE DEF Fine
  <2> QED BY <2>4, <2>5
<1>6. ASSUME NEW n \in Nat, n \in S PROVE n + 1 \in S
  <2> SUFFICES ASSUME (n + 1) + 1 <= Len(parts) PROVE Fine((n + 1) + 1)
    OBVIOUS
  <2> PICK m : m = n + 1 OBVIOUS
  <2>1. m \in Nat /\ m + 1 \in 1..Len(parts) /\ m + 1 # 1 /\ (m + 1) - 1 = m /\ Fine(m) BY <1>6
  <2>2. run[m + 1] = run[m] \o parts[m + 1] BY <1>3, <2>1 DEF Flattens
  <2>3. parts[m + 1] \in Seq(T) BY <2>1
  <2> QED BY <2>1, <2>2, <2>3, OriginsGrow
<1> HIDE DEF S
<1>7. Nat \subseteq S BY <1>5, <1>6, SetInduction
<1>8. Fine(Len(parts))
  <2>1. Len(parts) - 1 \in S BY <1>7
  <2> QED BY <2>1 DEF S
<1> QED BY <1>4, <1>8

-----------------------------------------------------------------------------
\* A payload whose fields hold lists of texts, and in which no text that was
\* once a field stands twice.
Said == Names \cup Texts

Tidy(p) ==
  /\ p = [g \in DOMAIN p |-> p[g]] /\ DOMAIN p \subseteq Names
  /\ \A g \in DOMAIN p : p[g] \in Seq(Said)

Once(p) ==
  \A g, h \in DOMAIN p : \A k \in 1..Len(p[g]), l \in 1..Len(p[h]) :
    p[g][k] = p[h][l] /\ p[g][k] \in Names => g = h /\ k = l

\* Writing a field and removing others moves texts, if what is written comes
\* from what is removed.
LEMMA MoveKeepsOnce ==
  ASSUME NEW p, Tidy(p), Once(p), NEW t \in Names, NEW v \in Seq(Said), NEW gone, t \notin gone,
         \A k \in 1..Len(v) : v[k] \in Names =>
           \E g \in DOMAIN p : g \in gone \cup {t} /\ \E l \in 1..Len(p[g]) : p[g][l] = v[k],
         \A k, l \in 1..Len(v) : v[k] = v[l] /\ v[k] \in Names => k = l,
         NEW q, q = Only(Put(p, t, v), DOMAIN Put(p, t, v) \ gone)
  PROVE  Tidy(q) /\ Once(q) /\ t \in DOMAIN q /\ q[t] = v
<1>1. /\ DOMAIN q = (DOMAIN p \cup {t}) \ gone /\ q[t] = v
      /\ q = [g \in DOMAIN q |-> q[g]] /\ \A g \in DOMAIN q : g # t => q[g] = p[g]
  BY DEF Only, Put
<1>2. Tidy(q) BY <1>1 DEF Tidy
<1>3. ASSUME NEW g \in DOMAIN q, NEW k \in 1..Len(v), g # t, NEW l \in 1..Len(q[g]),
             q[g][l] = v[k], v[k] \in Names
      PROVE  FALSE
  <2>1. PICK h \in DOMAIN p : h \in gone \cup {t} /\ \E m \in 1..Len(p[h]) : p[h][m] = v[k]
    BY <1>3
  <2>2. PICK m \in 1..Len(p[h]) : p[h][m] = v[k] BY <2>1
  <2>3. g \in DOMAIN p /\ g \notin gone /\ q[g] = p[g] BY <1>1, <1>3
  <2>4. g = h BY <1>3, <2>2, <2>3 DEF Once
  <2> QED BY <1>3, <2>1, <2>3, <2>4
<1>4. \A g, h \in DOMAIN q : \A k \in 1..Len(q[g]), l \in 1..Len(q[h]) :
        q[g][k] = q[h][l] /\ q[g][k] \in Names => g = h /\ k = l
  <2> TAKE g, h \in DOMAIN q
  <2> TAKE k \in 1..Len(q[g]), l \in 1..Len(q[h])
  <2>0. HAVE q[g][k] = q[h][l] /\ q[g][k] \in Names
  <2>1. CASE g = t /\ h = t BY <1>1, <2>0, <2>1
  <2>2. CASE g # t /\ h # t
    <3>1. g \in DOMAIN p /\ h \in DOMAIN p /\ q[g] = p[g] /\ q[h] = p[h] BY <1>1, <2>2
    <3> QED BY <2>0, <3>1 DEF Once
  <2>3. CASE g # t /\ h = t
    <3>1. q[g][k] = v[l] /\ v[l] \in Names /\ l \in 1..Len(v) BY <1>1, <2>0, <2>3
    <3> QED BY <1>3, <2>3, <3>1
  <2>4. CASE g = t /\ h # t
    <3>1. q[h][l] = v[k] /\ v[k] \in Names /\ k \in 1..Len(v) BY <1>1, <2>0, <2>4
    <3> QED BY <1>3, <2>0, <2>4, <3>1
  <2> QED BY <2>1, <2>2, <2>3, <2>4
<1>5. Once(q) BY <1>4 DEF Once
<1> QED BY <1>1, <1>2, <1>5

\* What a rule joins holds no text twice, and only texts of the fields read.
LEMMA JoinedOnce ==
  ASSUME NEW rule, rule.sources \in Seq(Names), IsInjective(rule.sources),
         NEW p, Tidy(p), Once(p), Present(rule, p) # <<>>
  PROVE  LET v == Joined(rule, p)
         IN /\ v \in Seq(Said)
            /\ \A k \in 1..Len(v) : v[k] \in Names =>
                 \E g \in DOMAIN p : g \in ToSet(Present(rule, p)) /\ \E l \in 1..Len(p[g]) : p[g][l] = v[k]
            /\ \A k, l \in 1..Len(v) : v[k] = v[l] /\ v[k] \in Names => k = l
<1> DEFINE present == Present(rule, p)
           v == Joined(rule, p)
           parts == [i \in 1..Len(present) |-> p[present[i]]]
<1>1. PICK place : Places(rule.sources, DOMAIN p, Len(rule.sources), present, place)
  BY SublistPlaces DEF Present
<1>2. present \in Seq(Names) BY SublistPlaces DEF Present
<1>3. /\ Len(present) \in Nat /\ Len(present) # 0
      /\ \A i \in 1..Len(present) : present[i] \in DOMAIN p /\ present[i] \in ToSet(present)
  <2>1. \A i \in 1..Len(present) : present[i] \in DOMAIN p BY <1>1 DEF Places
  <2> HIDE DEF present
  <2>2. present # <<>> BY DEF present
  <2> QED BY <1>2, <2>1, <2>2 DEF ToSet
<1>4. ASSUME NEW i \in 1..Len(present), NEW j \in 1..Len(present), present[i] = present[j] PROVE i = j
  <2>1. /\ place[i] \in 1..Len(rule.sources) /\ place[j] \in 1..Len(rule.sources)
        /\ rule.sources[place[i]] = rule.sources[place[j]]
        /\ i < j => place[i] < place[j]
        /\ j < i => place[j] < place[i]
    BY <1>1, <1>4 DEF Places
  <2>2. DOMAIN rule.sources = 1..Len(rule.sources) OBVIOUS
  <2>3. place[i] = place[j] BY <2>1, <2>2 DEF IsInjective
  <2> HIDE DEF present
  <2> QED BY <1>3, <2>1, <2>3
<1>v. v = FlattenSeq(parts) BY DEF Joined
<1>p. /\ Len(parts) = Len(present) /\ \A i \in 1..Len(present) : parts[i] = p[present[i]]
      /\ \A i \in 1..Len(present) : parts[i] \in Seq(Said)
  <2> HIDE DEF present
  <2> QED BY <1>3 DEF Tidy
<1> HIDE DEF parts, present, v
<1>5. v \in Seq(Said) /\ OriginsKnown(parts, Len(parts), v)
  BY <1>3, <1>v, <1>p, FlattenOrigins
<1>6. PICK part, at : Origins(parts, Len(parts), v, part, at) BY <1>5 DEF OriginsKnown
<1>7. \A k \in 1..Len(v) : /\ part[k] \in 1..Len(present) /\ present[part[k]] \in DOMAIN p
                           /\ present[part[k]] \in ToSet(present)
                           /\ at[k] \in 1..Len(p[present[part[k]]]) /\ v[k] = p[present[part[k]]][at[k]]
  BY <1>3, <1>6, <1>p DEF Origins
<1>8. ASSUME NEW k \in 1..Len(v), NEW l \in 1..Len(v), v[k] = v[l], v[k] \in Names PROVE k = l
  <2> PICK g, h, m, n : g = present[part[k]] /\ h = present[part[l]] /\ m = at[k] /\ n = at[l]
    OBVIOUS
  <2>0. /\ g \in DOMAIN p /\ h \in DOMAIN p /\ m \in 1..Len(p[g]) /\ n \in 1..Len(p[h])
        /\ p[g][m] = p[h][n] /\ p[g][m] \in Names
    BY <1>7, <1>8
  <2>1. present[part[k]] = present[part[l]] /\ at[k] = at[l]
    <3>1. g = h /\ m = n BY <2>0 DEF Once
    <3> QED BY <3>1
  <2>2. part[k] = part[l] BY <1>4, <1>7, <2>1
  <2> QED BY <1>6, <2>1, <2>2 DEF Origins
<1> QED BY <1>5, <1>7, <1>8 DEF v, present

\* One rule of a binding the form check admits.
Rule(rule) ==
  /\ rule.sources \in Seq(Names) /\ IsInjective(rule.sources)
  /\ rule.target \in Names /\ rule.constant \in Seq(Texts) \cup {None}

LEMMA RuleMoves ==
  ASSUME NEW rule, Rule(rule), NEW done, Work(done), Tidy(done.payload), Once(done.payload)
  PROVE  LET next == ApplyRule(done, rule)
         IN /\ Tidy(next.payload) /\ Once(next.payload)
            /\ rule.constant # None =>
                 /\ rule.target \in DOMAIN next.payload /\ next.payload[rule.target] = rule.constant
                 /\ rule.target \in next.written
<1>1. CASE rule.constant # None /\ ApplyRule(done, rule) = Write(rule, rule.constant, done)
  <2> DEFINE p == done.payload
             t == rule.target
             v == rule.constant
             q == Put(p, t, v)
  <2>1. v \in Seq(Texts) BY <1>1 DEF Rule
  <2>2. v \in Seq(Said) /\ \A k \in 1..Len(v) : v[k] \notin Names
    BY <2>1, TextsAreApart DEF Said
  <2>3. q = Only(Put(p, t, v), DOMAIN Put(p, t, v) \ {}) BY DEF Only, Put
  <2>4. ApplyRule(done, rule).payload = q /\ ApplyRule(done, rule).written = done.written \cup {t}
    BY <1>1 DEF Write
  <2>5. t \in Names BY DEF Rule
  <2>6. Tidy(q) /\ Once(q) /\ t \in DOMAIN q /\ q[t] = v
    <3> HIDE DEF p, t, v, q
    <3> QED BY <2>2, <2>3, <2>5, MoveKeepsOnce DEF p
  <2> QED BY <2>4, <2>6
<1>2. CASE rule.constant = None /\ ApplyRule(done, rule) = done
  BY <1>2
<1>3. CASE rule.constant = None /\ Present(rule, done.payload) # <<>> /\ ApplyRule(done, rule) = Fired(done, rule)
  <2> DEFINE p == done.payload
             t == rule.target
             v == Joined(rule, p)
             gone == Consumed(rule, Present(rule, p))
             q == Only(Put(p, t, v), DOMAIN Put(p, t, v) \ gone)
  <2>1. /\ v \in Seq(Said)
        /\ \A k \in 1..Len(v) : v[k] \in Names =>
             \E g \in DOMAIN p : g \in ToSet(Present(rule, p)) /\ \E l \in 1..Len(p[g]) : p[g][l] = v[k]
        /\ \A k, l \in 1..Len(v) : v[k] = v[l] /\ v[k] \in Names => k = l
    <3> HIDE DEF p
    <3> QED BY <1>3, JoinedOnce DEF Rule, p
  <2>2. t \notin gone /\ gone \cup {t} = ToSet(Present(rule, p)) \cup {t} BY DEF Consumed
  <2>3. ApplyRule(done, rule).payload = q BY <1>3 DEF Fired
  <2>4. t \in Names BY DEF Rule
  <2>5. Tidy(q) /\ Once(q)
    <3>1. q = Only(Put(p, t, v), DOMAIN Put(p, t, v) \ gone) OBVIOUS
    <3>2. Tidy(p) /\ Once(p) OBVIOUS
    <3> HIDE DEF p, t, v, gone, q
    <3>3. \A k \in 1..Len(v) : v[k] \in Names =>
            \E g \in DOMAIN p : g \in gone \cup {t} /\ \E l \in 1..Len(p[g]) : p[g][l] = v[k]
      BY <2>1, <2>2
    <3> QED BY <2>1, <2>2, <2>4, <3>1, <3>2, <3>3, MoveKeepsOnce
  <2> QED BY <1>3, <2>3, <2>5
<1> QED BY <1>1, <1>2, <1>3, RuleCases

\* Every list of rules the form check admits, over any payload.
LEMMA BindingMoves ==
  ASSUME NEW rules \in RuleLists, Disjoint(rules), NEW fields \in SUBSET Names
  PROVE  MovesValues(rules, fields)
<1> DEFINE payload == [f \in fields |-> <<f>>]
           result == ApplyBinding(payload, rules)
           Reread(i) == \E j \in (i + 1)..Len(rules) : rules[i].target \in ToSet(rules[j].sources)
           Stands(i) == rules[i].constant # None /\ ~ Reread(i)
           Set(done, i) == /\ rules[i].target \in DOMAIN done.payload /\ rules[i].target \in done.written
                           /\ done.payload[rules[i].target] = rules[i].constant
           Good(done, n) == /\ Work(done) /\ Tidy(done.payload) /\ Once(done.payload)
                            /\ done.written \subseteq {rules[i].target : i \in 1..Len(rules)}
                            /\ \A i \in 1..n : Stands(i) => Set(done, i)
<1>1. /\ Len(rules) \in Nat
      /\ \A i \in 1..Len(rules) : Rule(rules[i])
      /\ \A i, j \in 1..Len(rules) : rules[i].target = rules[j].target => i = j
  BY BindingsAreLists, TextsAreApart DEF Disjoint, Rule
<1>2. PICK run : /\ Runs(payload, rules, Len(rules), run)
                 /\ LET last == run[Len(rules)]
                    IN ApplyBinding(payload, rules) = Only(last.payload, Survives(last.written))
  BY <1>1, BindingIsRun
<1> DEFINE S == {n \in Nat : n <= Len(rules) => Good(run[n], n)}
<1>3. 0 \in S
  <2>1. run[0] = [payload |-> payload, written |-> {}] BY <1>1, <1>2 DEF Runs
  <2>2. Tidy(payload) /\ Once(payload)
    <3>1. \A f \in fields : payload[f] = <<f>> /\ payload[f] \in Seq(Said) /\ Len(payload[f]) = 1
      BY DEF Said
    <3>2. payload = [f \in fields |-> payload[f]] /\ DOMAIN payload = fields OBVIOUS
    <3> HIDE DEF payload
    <3>3. Tidy(payload) BY <3>1, <3>2 DEF Tidy
    <3>4. ASSUME NEW g \in fields, NEW h \in fields,
                 NEW k \in 1..Len(payload[g]), NEW l \in 1..Len(payload[h]),
                 payload[g][k] = payload[h][l]
          PROVE  g = h /\ k = l
      <4>1. Len(payload[g]) = 1 /\ Len(payload[h]) = 1 /\ payload[g][1] = g /\ payload[h][1] = h
        BY <3>1
      <4>2. k = 1 /\ l = 1 BY <4>1
      <4> QED BY <3>4, <4>1, <4>2
    <3>5. Once(payload) BY <3>2, <3>4 DEF Once
    <3> QED BY <3>3, <3>5
  <2>3. run[0].payload = payload /\ run[0].written = {} /\ Work(run[0]) BY <2>1 DEF Work
  <2> QED BY <2>2, <2>3
<1>4. ASSUME NEW n \in Nat, n \in S PROVE n + 1 \in S
  <2> SUFFICES ASSUME n + 1 <= Len(rules) PROVE Good(run[n + 1], n + 1)
    OBVIOUS
  <2> PICK m : m = n + 1 OBVIOUS
  <2>1. m \in 1..Len(rules) /\ m \in 0..Len(rules) /\ m # 0 /\ m - 1 = n /\ Good(run[n], n)
    BY <1>4
  <2> PICK done, next : done = run[n] /\ next = run[m] OBVIOUS
  <2>2. next = ApplyRule(done, rules[m]) BY <1>2, <2>1 DEF Runs
  <2>3. Rule(rules[m]) /\ rules[m].sources \in Seq(Names) BY <1>1, <2>1 DEF Rule
  <2>4. Work(done) /\ Tidy(done.payload) /\ Once(done.payload) BY <2>1
  <2>5. /\ Work(next) /\ done.written \subseteq next.written
        /\ next.written \subseteq done.written \cup {rules[m].target}
        /\ \A f : f # rules[m].target /\ f \notin ToSet(rules[m].sources) /\ f \in DOMAIN done.payload =>
             f \in DOMAIN next.payload /\ next.payload[f] = done.payload[f]
    BY <2>2, <2>3, <2>4, RuleLeaves
  <2>6. /\ Tidy(next.payload) /\ Once(next.payload)
        /\ rules[m].constant # None => Set(next, m)
    BY <2>2, <2>3, <2>4, RuleMoves
  <2>7. ASSUME NEW i \in 1..m, Stands(i) PROVE Set(next, i)
    <3>1. CASE i = m BY <2>6, <2>7, <3>1
    <3>2. CASE i # m
      <4>1. i \in 1..n /\ i \in 1..Len(rules) /\ m \in (i + 1)..Len(rules) BY <2>1, <3>2
      <4>2. Set(done, i) BY <2>1, <2>7, <4>1
      <4>3. rules[i].target # rules[m].target /\ rules[i].target \notin ToSet(rules[m].sources)
        BY <1>1, <2>1, <2>7, <3>2, <4>1
      <4> QED BY <2>5, <4>2, <4>3
    <3> QED BY <3>1, <3>2
  <2>8. next.written \subseteq {rules[i].target : i \in 1..Len(rules)} BY <2>1, <2>5
  <2> QED BY <2>5, <2>6, <2>7, <2>8
<1> HIDE DEF S
<1>5. Nat \subseteq S BY <1>3, <1>4, SetInduction
<1> PICK last : last = run[Len(rules)] OBVIOUS
<1>6. Good(last, Len(rules)) BY <1>1, <1>5 DEF S
<1>7. result = Only(last.payload, Survives(last.written)) BY <1>2
<1> HIDE DEF payload, result
<1>8. DOMAIN result = DOMAIN last.payload \cap (last.written \cup Reserved)
      /\ \A g \in DOMAIN result : result[g] = last.payload[g]
  BY <1>7 DEF Only, Survives
<1>9. DOMAIN result \subseteq Reserved \cup {rules[i].target : i \in 1..Len(rules)}
  BY <1>6, <1>8
<1>10. ASSUME NEW f \in fields
       PROVE  Cardinality({p \in (DOMAIN result) \X (1..Cardinality(Names)) :
                             p[2] <= Len(result[p[1]]) /\ result[p[1]][p[2]] = f}) <= 1
  <2> DEFINE P == {p \in (DOMAIN result) \X (1..Cardinality(Names)) :
                     p[2] <= Len(result[p[1]]) /\ result[p[1]][p[2]] = f}
  <2>1. ASSUME NEW p \in P, NEW q \in P PROVE p = q
    <3> PICK g, k, h, l : p = <<g, k>> /\ q = <<h, l>> OBVIOUS
    <3>1. /\ g \in DOMAIN last.payload /\ h \in DOMAIN last.payload
          /\ k \in Int /\ l \in Int /\ k >= 1 /\ l >= 1
          /\ k <= Len(last.payload[g]) /\ l <= Len(last.payload[h])
          /\ last.payload[g][k] = f /\ last.payload[h][l] = f
      BY <1>8, <2>1
    <3>2. Len(last.payload[g]) \in Nat /\ Len(last.payload[h]) \in Nat
      BY <1>6, <3>1 DEF Tidy
    <3>3. g = h /\ k = l BY <1>6, <3>1, <3>2 DEF Once
    <3> QED BY <3>3
  <2> HIDE DEF P
  <2>2. P = {} => Cardinality(P) = 0 BY FS_EmptySet
  <2>3. ASSUME NEW p \in P PROVE Cardinality(P) = 1
    <3>1. P = {p} BY <2>1
    <3>2. Cardinality({p}) = 1 BY FS_Singleton
    <3> QED BY <3>1, <3>2
  <2>4. Cardinality(P) = 0 \/ Cardinality(P) = 1 BY <2>2, <2>3
  <2> QED BY <2>4 DEF P
<1>11. ASSUME NEW f \in (fields \cap Reserved) \ Touched(rules) PROVE result[f] = <<f>>
  <2>1. f \in DOMAIN payload /\ payload[f] = <<f>> BY DEF payload
  <2>2. \A i \in 1..Len(rules) : rules[i].sources \in Seq(Names) BY <1>1 DEF Rule
  <2>3. ApplyBinding(payload, rules)[f] = payload[f] BY <1>1, <2>1, <2>2, UntouchedStays
  <2> QED BY <2>1, <2>3 DEF result
<1>12. ASSUME NEW i \in 1..Len(rules), rules[i].constant # None, ~ Reread(i)
       PROVE  rules[i].target \in DOMAIN result /\ result[rules[i].target] = rules[i].constant
  BY <1>6, <1>8, <1>12
<1> QED BY <1>9, <1>10, <1>11, <1>12 DEF MovesValues, result, payload

\* No list of rules the form check admits loses, doubles or mixes up what a
\* client sends (apply_binding): by induction over the rules.
THEOREM BindingsMoveValues == Spec => []BindingMovesValues
<1>1. BindingMovesValues BY BindingMoves DEF BindingMovesValues
<1> QED BY <1>1, PTL
=============================================================================
