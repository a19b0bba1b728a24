------------------------------ MODULE WorkQueue ------------------------------
(***************************************************************************)
(* What the task scheduler promises about its stages, without nodes,       *)
(* statuses, timers, threads or tables: items are submitted, leased to one *)
(* worker at a time for a bounded number of tries, perhaps kept by the     *)
(* worker for a long run, and end done or dead.                            *)
(***************************************************************************)
EXTENDS Integers

CONSTANTS Items, Workers, Nobody, MaxTries

VARIABLES
  phase,   \* new, open, leased, kept, done or dead
  holder,  \* the worker that has it leased or kept, perhaps gone: Nobody
  tries    \* leases granted so far

vars == <<phase, holder, tries>>

Init ==
  /\ phase  = [i \in Items |-> "new"]
  /\ holder = [i \in Items |-> Nobody]
  /\ tries  = [i \in Items |-> 0]

Move(S, to) == phase' = [i \in Items |-> IF i \in S THEN to ELSE phase[i]]
Drop(S)     == holder' = [i \in Items |-> IF i \in S THEN Nobody ELSE holder[i]]
HeldBy(w)   == {i \in Items : holder[i] = w}

Submit(S) ==
  /\ \A i \in S : phase[i] = "new"
  /\ Move(S, "open")
  /\ UNCHANGED <<holder, tries>>

Lease(i, w) ==
  /\ phase[i] = "open" /\ tries[i] < MaxTries
  /\ Move({i}, "leased")
  /\ holder' = [holder EXCEPT ![i] = w]
  /\ tries'  = [tries EXCEPT ![i] = @ + 1]

(* The worker takes leased items over; they are not leased again.          *)
Keep(S, w) ==
  /\ S \subseteq HeldBy(w)
  /\ Move(S, "kept")
  /\ UNCHANGED <<holder, tries>>

(* Only the holder finishes an item.                                       *)
Finish(i, w) ==
  /\ holder[i] = w
  /\ Move({i}, "done")
  /\ Drop({i})
  /\ UNCHANGED tries

(* Leased items with tries left come back; open or held ones are given up. *)
Sweep(back, dead) ==
  /\ \A i \in back : phase[i] = "leased" /\ tries[i] < MaxTries
  /\ \A i \in dead : phase[i] \in {"open", "leased", "kept"}
  /\ phase' = [i \in Items |-> IF i \in dead THEN "dead" ELSE IF i \in back THEN "open" ELSE phase[i]]
  /\ Drop(back \cup dead)
  /\ UNCHANGED tries

(* A worker leaves for good: what it leased is dead, what it kept is       *)
(* nobody's.                                                               *)
Leave(w) ==
  /\ Move({i \in HeldBy(w) : phase[i] = "leased"}, "dead")
  /\ Drop(HeldBy(w))
  /\ UNCHANGED tries

Next ==
  \/ \E S \in SUBSET Items : Submit(S) \/ \E w \in Workers : Keep(S, w)
  \/ \E i \in Items, w \in Workers : Lease(i, w) \/ Finish(i, w)
  \/ \E back, dead \in SUBSET Items : Sweep(back, dead)
  \/ \E w \in Workers : Leave(w)

Spec == Init /\ [][Next]_vars
=============================================================================
