------------------------------- MODULE Sublists -------------------------------
(***************************************************************************)
(* The list comprehension [x for x in seq if x in keep], which the event   *)
(* bus, the route loader and the forward handlers all use: a recursive     *)
(* function, so that what it returns can be proved (DataLemmas).           *)
(***************************************************************************)
EXTENDS Integers, Sequences

(* pick[i] is the comprehension over the first i elements.                 *)
Sublist(seq, keep) ==
  LET pick[i \in 0..Len(seq)] ==
        IF i = 0 THEN <<>>
        ELSE IF seq[i] \in keep THEN Append(pick[i - 1], seq[i]) ELSE pick[i - 1]
  IN  pick[Len(seq)]
=============================================================================
