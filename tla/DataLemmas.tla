------------------------------ MODULE DataLemmas ------------------------------
(***************************************************************************)
(* Induction over the natural numbers, stated for a set instead of a       *)
(* predicate so that first-order provers can use it, and what it gives for *)
(* the list comprehension of Sublists.                                     *)
(***************************************************************************)
EXTENDS Sublists, TLAPS, WellFoundedInduction, SequenceTheorems

(* A set that holds 0 and the successor of every number it holds, holds    *)
(* every number: otherwise the least number outside it has a predecessor.  *)
LEMMA SetInduction ==
  ASSUME NEW S, 0 \in S, \A n \in Nat : n \in S => n + 1 \in S
  PROVE  Nat \subseteq S
<1> DEFINE R == OpToRel(<, Nat)
           T == Nat \ S
<1>1. IsWellFoundedOn(R, Nat)
  BY NatLessThanWellFounded
<1>2. \A y, z \in Nat : y < z => <<y, z>> \in R
  BY DEF OpToRel
<1>3. SUFFICES ASSUME T # {} PROVE FALSE
  OBVIOUS
<1>4. PICK x \in T : \A y \in T : ~ (<<y, x>> \in R)
  <2> HIDE DEF R
  <2>1. T \subseteq Nat
    OBVIOUS
  <2> HIDE DEF T
  <2> QED
    BY <1>1, <1>3, <2>1, WFMin
<1> HIDE DEF R
<1>5. x \in Nat /\ x # 0
  OBVIOUS
<1>6. x - 1 \in T /\ x - 1 < x
  BY <1>5
<1> QED
  BY <1>2, <1>4, <1>5, <1>6

-----------------------------------------------------------------------------
(* The recursive function inside Sublist, over the first n elements.       *)
Picks(seq, keep, n, f) ==
  f = [i \in 0..n |->
         IF i = 0 THEN <<>>
         ELSE IF seq[i] \in keep THEN Append(f[i - 1], seq[i]) ELSE f[i - 1]]

(* It exists, whatever the sequence: each value needs only the one before. *)
LEMMA PicksExists ==
  ASSUME NEW seq, NEW keep
  PROVE  \A n \in Nat : \E f : Picks(seq, keep, n, f)
<1> DEFINE S == {n \in Nat : \E f : Picks(seq, keep, n, f)}
<1>1. 0 \in S
  <2> DEFINE f == [i \in 0..0 |-> <<>>]
  <2>1. Picks(seq, keep, 0, f)
    BY DEF Picks
  <2> QED
    BY <2>1
<1>2. ASSUME NEW n \in Nat, n \in S
      PROVE  n + 1 \in S
  <2>1. PICK f : Picks(seq, keep, n, f)
    BY <1>2
  <2> DEFINE Step(g, i) == IF i = 0 THEN <<>>
                           ELSE IF seq[i] \in keep THEN Append(g[i - 1], seq[i]) ELSE g[i - 1]
             h == [i \in 0..(n + 1) |-> IF i <= n THEN f[i] ELSE Step(f, i)]
  <2>2. \A i \in 0..n : f[i] = Step(f, i)
    BY <2>1 DEF Picks
  <2>3. ASSUME NEW i \in 0..(n + 1)
        PROVE  h[i] = Step(h, i)
    <3>1. CASE i = 0
      BY <2>2, <3>1
    <3>2. CASE i # 0
      <4>1. i - 1 \in 0..n /\ h[i - 1] = f[i - 1]
        BY <3>2
      <4>2. CASE i <= n
        BY <2>2, <3>2, <4>1, <4>2
      <4>3. CASE ~ (i <= n)
        BY <3>2, <4>1, <4>3
      <4> QED
        BY <4>2, <4>3
    <3> QED
      BY <3>1, <3>2
  <2>4. Picks(seq, keep, n + 1, h)
    BY <2>3 DEF Picks
  <2> QED
    BY <2>4
<1> HIDE DEF S
<1>3. Nat \subseteq S
  BY <1>1, <1>2, SetInduction
<1> QED
  BY <1>3 DEF S

(* Sublist is its last value.                                              *)
LEMMA SublistIsPick ==
  ASSUME NEW seq, NEW keep, Len(seq) \in Nat
  PROVE  \E f : Picks(seq, keep, Len(seq), f) /\ Sublist(seq, keep) = f[Len(seq)]
<1>1. \E f : Picks(seq, keep, Len(seq), f)
  BY PicksExists
<1>2. PICK g : g = CHOOSE f : Picks(seq, keep, Len(seq), f)
  OBVIOUS
<1>3. Picks(seq, keep, Len(seq), g)
  BY <1>1, <1>2
<1>4. Sublist(seq, keep) = g[Len(seq)]
  BY <1>2 DEF Sublist, Picks
<1> QED
  BY <1>3, <1>4

(* Two such functions agree as far as their sequences do.                  *)
LEMMA PicksAgree ==
  ASSUME NEW seq, NEW more, NEW keep, NEW n \in Nat, NEW m \in Nat, n <= m,
         \A i \in 1..n : more[i] = seq[i],
         NEW f, Picks(seq, keep, n, f), NEW g, Picks(more, keep, m, g)
  PROVE  f[n] = g[n]
<1> DEFINE S == {k \in Nat : k <= n => f[k] = g[k]}
<1>1. /\ \A i \in 0..n : f[i] = IF i = 0 THEN <<>>
                                ELSE IF seq[i] \in keep THEN Append(f[i - 1], seq[i]) ELSE f[i - 1]
      /\ \A i \in 0..m : g[i] = IF i = 0 THEN <<>>
                                ELSE IF more[i] \in keep THEN Append(g[i - 1], more[i]) ELSE g[i - 1]
  BY DEF Picks
<1>2. 0 \in S
  BY <1>1
<1>3. ASSUME NEW k \in Nat, k \in S
      PROVE  k + 1 \in S
  <2>1. SUFFICES ASSUME k + 1 <= n PROVE f[k + 1] = g[k + 1]
    OBVIOUS
  <2>2. f[k] = g[k] /\ more[k + 1] = seq[k + 1] /\ k + 1 \in 0..n /\ k + 1 \in 0..m
        /\ k + 1 # 0 /\ (k + 1) - 1 = k
    BY <1>3, <2>1
  <2> QED
    BY <1>1, <2>2
<1> HIDE DEF S
<1>4. Nat \subseteq S
  BY <1>2, <1>3, SetInduction
<1> QED
  BY <1>4 DEF S

(* An element at the end is appended to the comprehension or left out.     *)
LEMMA SublistAppend ==
  ASSUME NEW T, NEW seq \in Seq(T), NEW x \in T, NEW keep
  PROVE  Sublist(Append(seq, x), keep) =
           IF x \in keep THEN Append(Sublist(seq, keep), x) ELSE Sublist(seq, keep)
<1> DEFINE n    == Len(seq)
           more == Append(seq, x)
<1>1. /\ n \in Nat /\ Len(more) = n + 1
      /\ \A i \in 1..n : more[i] = seq[i]
      /\ more[n + 1] = x
  OBVIOUS
<1> HIDE DEF n, more
<1>2. PICK f : Picks(seq, keep, n, f) /\ Sublist(seq, keep) = f[n]
  BY <1>1, SublistIsPick DEF n
<1>3. PICK g : Picks(more, keep, n + 1, g) /\ Sublist(more, keep) = g[n + 1]
  <2>1. Len(more) \in Nat
    BY <1>1
  <2>2. \E g : Picks(more, keep, Len(more), g) /\ Sublist(more, keep) = g[Len(more)]
    BY <2>1, SublistIsPick
  <2> QED
    BY <1>1, <2>2
<1>4. g[n] = f[n]
  <2>1. n \in Nat /\ n + 1 \in Nat /\ n <= n + 1
    BY <1>1
  <2> QED
    BY <1>1, <1>2, <1>3, <2>1, PicksAgree
<1>5. g[n + 1] = IF more[n + 1] \in keep THEN Append(g[n], more[n + 1]) ELSE g[n]
  <2>1. n + 1 \in 0..(n + 1) /\ n + 1 # 0 /\ (n + 1) - 1 = n
    BY <1>1
  <2> QED
    BY <1>3, <2>1 DEF Picks
<1> QED
  BY <1>1, <1>2, <1>3, <1>4, <1>5 DEF more

(* The comprehension holds exactly the elements to keep, in their order:   *)
(* place tells where in the sequence each element of it stands.            *)
Places(seq, keep, n, sub, place) ==
  /\ place \in [1..Len(sub) -> 1..n]
  /\ \A i, j \in 1..Len(sub) : i < j => place[i] < place[j]
  /\ \A i \in 1..Len(sub) : sub[i] = seq[place[i]] /\ sub[i] \in keep
  /\ \A j \in 1..n : seq[j] \in keep => \E i \in 1..Len(sub) : place[i] = j

LEMMA SublistPlaces ==
  ASSUME NEW T, NEW seq \in Seq(T), NEW keep
  PROVE  /\ Sublist(seq, keep) \in Seq(T)
         /\ \E place : Places(seq, keep, Len(seq), Sublist(seq, keep), place)
<1>1. Len(seq) \in Nat /\ \A i \in 1..Len(seq) : seq[i] \in T
  OBVIOUS
<1>2. PICK f : Picks(seq, keep, Len(seq), f) /\ Sublist(seq, keep) = f[Len(seq)]
  BY <1>1, SublistIsPick
<1> DEFINE Good(k) == /\ f[k] \in Seq(T)
                      /\ \E place : Places(seq, keep, k, f[k], place)
           S == {k \in Nat : k <= Len(seq) => Good(k)}
<1>3. \A i \in 0..Len(seq) : f[i] = IF i = 0 THEN <<>>
                                    ELSE IF seq[i] \in keep THEN Append(f[i - 1], seq[i]) ELSE f[i - 1]
  BY <1>2 DEF Picks
<1>4. 0 \in S
  <2>1. f[0] = <<>> /\ Len(f[0]) = 0
    BY <1>1, <1>3
  <2> DEFINE none == [i \in {} |-> 0]
  <2>2. 1..Len(f[0]) = {} /\ 1..0 = {}
    BY <2>1
  <2>3. none \in [{} -> {}]
    OBVIOUS
  <2> HIDE DEF none
  <2>4. Places(seq, keep, 0, f[0], none)
    BY <2>2, <2>3 DEF Places
  <2>5. f[0] \in Seq(T)
    BY <2>1
  <2> QED
    BY <2>4, <2>5
<1>5. ASSUME NEW k \in Nat, k \in S
      PROVE  k + 1 \in S
  <2>1. SUFFICES ASSUME k + 1 <= Len(seq) PROVE Good(k + 1)
    OBVIOUS
  <2> DEFINE old == f[k]
             new == f[k + 1]
             x   == seq[k + 1]
  <2>2. /\ new = IF x \in keep THEN Append(old, x) ELSE old
        /\ x \in T
    <3>1. k + 1 \in 0..Len(seq) /\ k + 1 # 0 /\ (k + 1) - 1 = k /\ k + 1 \in 1..Len(seq)
      BY <1>1, <2>1
    <3> QED
      BY <1>1, <1>3, <3>1
  <2>3. /\ old \in Seq(T)
        /\ \E place : Places(seq, keep, k, old, place)
    BY <1>1, <1>5, <2>1
  <2>4. PICK place : Places(seq, keep, k, old, place)
    BY <2>3
  <2>s. seq[k + 1] = x /\ Len(old) \in Nat
    BY <2>3
  <2> HIDE DEF old, new, x
  <2>5. CASE x \in keep
    <3>1. new = Append(old, x) /\ new \in Seq(T) /\ Len(new) = Len(old) + 1
          /\ (\A i \in 1..Len(old) : new[i] = old[i]) /\ new[Len(old) + 1] = x
      BY <2>2, <2>3, <2>5
    <3> DEFINE more == [i \in 1..Len(new) |-> IF i <= Len(old) THEN place[i] ELSE k + 1]
    <3>2. more \in [1..Len(new) -> 1..(k + 1)]
      BY <2>4, <2>s, <3>1 DEF Places
    <3>3. \A i, j \in 1..Len(new) : i < j => more[i] < more[j]
      <4> TAKE i, j \in 1..Len(new)
      <4> HAVE i < j
      <4>0. i \in 1..Len(old)
        BY <2>s, <3>1
      <4>1. i \in 1..Len(old) /\ more[i] = place[i] /\ place[i] \in 1..k
        BY <2>4, <2>s, <3>1, <4>0, SMTT(30) DEF Places
      <4>2. CASE j <= Len(old)
        <5>1. j \in 1..Len(old) /\ more[j] = place[j]
          BY <2>s, <3>1, <4>2
        <5> HIDE DEF more
        <5> QED
          BY <2>4, <4>1, <5>1 DEF Places
      <4>3. CASE ~ (j <= Len(old))
        <5>1. more[j] = k + 1
          BY <4>3
        <5> HIDE DEF more
        <5> QED
          BY <4>1, <5>1
      <4> QED
        BY <4>2, <4>3
    <3>4. \A i \in 1..Len(new) : new[i] = seq[more[i]] /\ new[i] \in keep
      BY <2>4, <2>5, <2>s, <3>1 DEF Places
    <3>5. \A j \in 1..(k + 1) : seq[j] \in keep => \E i \in 1..Len(new) : more[i] = j
      <4> TAKE j \in 1..(k + 1)
      <4> HAVE seq[j] \in keep
      <4>1. CASE j = k + 1
        <5>1. Len(new) \in 1..Len(new) /\ more[Len(new)] = j
          BY <2>s, <3>1, <4>1
        <5> HIDE DEF more
        <5> QED
          BY <5>1
      <4>2. CASE j # k + 1
        <5>1. j \in 1..k
          BY <4>2
        <5>2. PICK i \in 1..Len(old) : place[i] = j
          BY <2>4, <5>1 DEF Places
        <5>3. i \in 1..Len(new) /\ more[i] = j
          BY <2>s, <3>1, <5>2
        <5> HIDE DEF more
        <5> QED
          BY <5>3
      <4> QED
        BY <4>1, <4>2
    <3> HIDE DEF more
    <3>6. Places(seq, keep, k + 1, new, more)
      BY <3>2, <3>3, <3>4, <3>5 DEF Places
    <3> QED
      BY <3>1, <3>6 DEF new
  <2>6. CASE x \notin keep
    <3>1. new = old
      BY <2>2, <2>6
    <3>2. Places(seq, keep, k + 1, old, place)
      BY <2>4, <2>6, <2>s DEF Places
    <3> QED
      BY <2>3, <3>1, <3>2 DEF new
  <2> QED
    BY <2>5, <2>6
<1> HIDE DEF S
<1>6. Nat \subseteq S
  BY <1>4, <1>5, SetInduction
<1>7. Good(Len(seq))
  BY <1>1, <1>6 DEF S
<1> QED
  BY <1>2, <1>7

(* The first element heads the comprehension or does not occur in it.      *)
LEMMA SublistTail ==
  ASSUME NEW T, NEW seq \in Seq(T), seq # <<>>, NEW keep
  PROVE  IF Head(seq) \in keep
         THEN /\ Sublist(seq, keep) # <<>>
              /\ Head(Sublist(seq, keep)) = Head(seq)
              /\ Sublist(Tail(seq), keep) = Tail(Sublist(seq, keep))
         ELSE Sublist(Tail(seq), keep) = Sublist(seq, keep)
<1> DEFINE n    == Len(seq)
           rest == Tail(seq)
           x    == Head(seq)
<1>1. /\ n \in Nat /\ n # 0 /\ Len(rest) = n - 1 /\ n - 1 \in Nat
      /\ \A i \in 1..(n - 1) : rest[i] = seq[i + 1] /\ rest[i] \in T
      /\ seq[1] = x /\ x \in T
  OBVIOUS
<1> HIDE DEF n, rest, x
<1>2. PICK f : Picks(seq, keep, n, f) /\ Sublist(seq, keep) = f[n]
  BY <1>1, SublistIsPick DEF n
<1>3. PICK g : Picks(rest, keep, n - 1, g) /\ Sublist(rest, keep) = g[n - 1]
  <2>1. Len(rest) \in Nat
    BY <1>1
  <2>2. \E g : Picks(rest, keep, Len(rest), g) /\ Sublist(rest, keep) = g[Len(rest)]
    BY <2>1, SublistIsPick
  <2> QED
    BY <1>1, <2>2
<1> DEFINE Shifted(a, b) == /\ b \in Seq(T)
                            /\ IF x \in keep
                               THEN a \in Seq(T) /\ a # <<>> /\ Head(a) = x /\ b = Tail(a)
                               ELSE b = a
           S == {k \in Nat : k <= n - 1 => Shifted(f[k + 1], g[k])}
<1>4. /\ \A i \in 0..n : f[i] = IF i = 0 THEN <<>>
                                ELSE IF seq[i] \in keep THEN Append(f[i - 1], seq[i]) ELSE f[i - 1]
      /\ \A i \in 0..(n - 1) : g[i] = IF i = 0 THEN <<>>
                                      ELSE IF rest[i] \in keep THEN Append(g[i - 1], rest[i]) ELSE g[i - 1]
  BY <1>2, <1>3 DEF Picks
<1>5. 0 \in S
  <2>1. f[0] = <<>> /\ g[0] = <<>>
    BY <1>1, <1>4
  <2>2. f[1] = IF x \in keep THEN Append(f[0], x) ELSE f[0]
    <3>1. 1 \in 0..n /\ 1 - 1 = 0
      BY <1>1
    <3> QED
      BY <1>1, <1>4, <3>1
  <2>3. Shifted(f[1], g[0])
    BY <1>1, <2>1, <2>2
  <2> QED
    BY <2>3
<1>6. ASSUME NEW k \in Nat, k \in S
      PROVE  k + 1 \in S
  <2>1. SUFFICES ASSUME k + 1 <= n - 1 PROVE Shifted(f[(k + 1) + 1], g[k + 1])
    OBVIOUS
  <2> DEFINE y == rest[k + 1]
  <2>2. g[k + 1] = IF y \in keep THEN Append(g[k], y) ELSE g[k]
    <3>1. k + 1 \in 0..(n - 1) /\ k + 1 # 0 /\ (k + 1) - 1 = k
      BY <1>1, <2>1
    <3> QED
      BY <1>4, <3>1
  <2>3. y = seq[(k + 1) + 1] /\ y \in T
    <3>1. k + 1 \in 1..(n - 1)
      BY <1>1, <2>1
    <3> QED
      BY <1>1, <3>1
  <2>4. f[(k + 1) + 1] = IF y \in keep THEN Append(f[k + 1], y) ELSE f[k + 1]
    <3>1. (k + 1) + 1 \in 0..n /\ (k + 1) + 1 # 0 /\ ((k + 1) + 1) - 1 = k + 1
      BY <1>1, <2>1
    <3> QED
      BY <1>4, <2>3, <3>1
  <2>5. Shifted(f[k + 1], g[k])
    BY <1>1, <1>6, <2>1
  <2> HIDE DEF y
  <2>6. CASE y \notin keep
    BY <2>2, <2>4, <2>5, <2>6
  <2>7. CASE y \in keep
    <3> DEFINE a == f[k + 1]
               b == g[k]
    <3>1. f[(k + 1) + 1] = Append(a, y) /\ g[k + 1] = Append(b, y)
      BY <2>2, <2>4, <2>7
    <3>2. Shifted(a, b)
      BY <2>5
    <3> HIDE DEF a, b
    <3>3. Shifted(Append(a, y), Append(b, y))
      <4>1. CASE x \in keep
        <5>1. a \in Seq(T) /\ a # <<>> /\ Head(a) = x /\ b = Tail(a)
          BY <3>2, <4>1
        <5>2. /\ Append(a, y) \in Seq(T) /\ Append(a, y) # <<>> /\ Head(Append(a, y)) = x
              /\ Append(b, y) \in Seq(T)
          BY <2>3, <5>1
        <5>3. Append(Tail(a), y) = Tail(Append(a, y))
          BY <2>3, <5>1
        <5> QED
          BY <4>1, <5>1, <5>2, <5>3
      <4>2. CASE x \notin keep
        BY <2>3, <3>2, <4>2
      <4> QED
        BY <4>1, <4>2
    <3> HIDE DEF Shifted
    <3> QED
      BY <3>1, <3>3
  <2> QED
    BY <2>6, <2>7
<1> HIDE DEF S
<1>7. Nat \subseteq S
  BY <1>5, <1>6, SetInduction
<1>8. Shifted(f[n], g[n - 1])
  <2>1. Shifted(f[(n - 1) + 1], g[n - 1])
    BY <1>1, <1>7 DEF S
  <2>2. (n - 1) + 1 = n
    BY <1>1
  <2> HIDE DEF Shifted
  <2> QED
    BY <2>1, <2>2
<1> QED
  BY <1>2, <1>3, <1>8 DEF rest, x
=============================================================================
