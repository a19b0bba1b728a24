-------------------------------- MODULE MCForward --------------------------------
(***************************************************************************)
(* A small instance of Forward: declarations with references, a duplicate  *)
(* slot and a slot that turns into a value slot; and every list of up to   *)
(* two rules over four names for the binding algorithm.                    *)
(***************************************************************************)
EXTENDS Forward

Text(t) == <<t>>

ForwardSlot(s, schema) ==
  [slot |-> s, type |-> "forward", value |-> None, refSlot |-> None, refField |-> None,
   schema |-> schema]

ValueSlot(s, value, ref, field) ==
  [slot |-> s, type |-> "text", value |-> value, refSlot |-> ref, refField |-> field,
   schema |-> None]

MCDeclarations == {
  <<ForwardSlot("a", {"f"})>>,
  <<ValueSlot("b", Text("d"), "a", "f"), ForwardSlot("a", None), ForwardSlot("a", {"f", "p"})>>,
  <<ForwardSlot("a", {"f"}), ValueSlot("b", Text("d"), "a", "f"), ForwardSlot("a", None)>>,
  <<ForwardSlot("b", {"f"}), ValueSlot("a", Text("d"), None, None)>>,
  <<ValueSlot("b", Text("d"), None, "f")>> }

Copy(sources, target)  == [sources |-> sources, target |-> target, constant |-> None]
Const(value, target)   == [sources |-> <<>>, target |-> target, constant |-> value]

MCBindings == {None, <<Copy(<<"f", "b">>, "p")>>, <<Const(Text("k"), "f")>>}

Orders == UNION {[1..k -> Names] : k \in 1..2}
Rules  == {Copy(s, t) : s \in Orders, t \in Names} \cup {Const(Text("k"), t) : t \in Names}

MCRuleLists == {<<r>> : r \in Rules} \cup (Rules \X Rules)

MCSubmissions == {
  <<[slot |-> "a", payload |-> [x \in {"f", "p"} |-> Text(x)]]>>,
  <<[slot |-> "a", payload |-> [x \in {"p"} |-> Text(x)]],
    [slot |-> "b", payload |-> [x \in {"f"} |-> Text(x)]]>> }

MCSchemas == {None, {"f", "p"}}
=============================================================================
