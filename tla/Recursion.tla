----------------------------- MODULE Recursion -----------------------------
(***************************************************************************)
(* What a recursive function on 0 .. n is, and what holds for it at every  *)
(* number. The provers cannot instantiate a theorem whose hypothesis is an *)
(* operator; here the induction is over sets, with a least counterexample. *)
(***************************************************************************)
EXTENDS Integers, WellFoundedInduction, TLAPS

\* Every set of numbers that is not empty has a smallest one.
LEMMA Smallest ==
  ASSUME NEW S, S \subseteq Nat, S # {}
  PROVE  \E c \in S : \A d \in S : c <= d
<1> DEFINE Before == OpToRel(<, Nat)
<1>1. IsWellFoundedOn(Before, Nat)
  BY NatLessThanWellFounded
<1> HIDE DEF Before
<1>2. PICK c \in S : \A d \in S : ~ (<<d, c>> \in Before)
  BY <1>1, WFMin
<1>3. \A d \in S : d < c => <<d, c>> \in Before
  BY DEF Before, OpToRel
<1>4. \A d \in S : ~ (d < c)
  BY <1>2, <1>3
<1>5. \A d \in S : c <= d
  BY <1>4
<1> QED
  BY <1>5

\* g is what comes of n steps from base.
Comes(g, n, base, step) ==
  /\ g = [i \in 0 .. n |-> g[i]]
  /\ g[0] = base
  /\ \A i \in 1 .. n : g[i] = step[<<i, g[i - 1]>>]

LEMMA RecursionExists ==
  ASSUME NEW V, NEW n \in Nat, NEW base \in V, NEW step \in [(1 .. n) \X V -> V]
  PROVE  \E g \in [0 .. n -> V] : Comes(g, n, base, step)
<1> DEFINE Missing == {m \in 0 .. n : ~ \E g \in [0 .. m -> V] : Comes(g, m, base, step)}
<1>1. 0 \notin Missing
  <2> DEFINE g == [i \in 0 .. 0 |-> base]
  <2>1. g \in [0 .. 0 -> V] /\ Comes(g, 0, base, step)
    BY DEF Comes
  <2> QED
    BY <2>1
<1>2. ASSUME NEW m \in Missing, \A k \in Missing : m <= k
      PROVE  FALSE
  <2>1. m \in 0 .. n
    OBVIOUS
  <2>2. m - 1 \notin Missing /\ m # 0
    <3> HIDE DEF Missing
    <3>1. m # 0
      BY <1>1
    <3> QED
      BY <1>2, <2>1, <3>1
  <2>3. PICK g \in [0 .. m - 1 -> V] : Comes(g, m - 1, base, step)
    BY <2>1, <2>2
  <2> DEFINE h == [i \in 0 .. m |-> IF i = m THEN step[<<m, g[m - 1]>>] ELSE g[i]]
  <2> HIDE DEF Missing
  <2>4. step[<<m, g[m - 1]>>] \in V
    BY <2>1, <2>2
  <2>5. h \in [0 .. m -> V]
    BY <2>1, <2>2, <2>4
  <2>6. h[0] = base
    BY <2>1, <2>2, <2>3 DEF Comes
  <2>7. ASSUME NEW i \in 1 .. m PROVE h[i] = step[<<i, h[i - 1]>>]
    <3>1. h[i - 1] = g[i - 1]
      BY <2>1, <2>2
    <3>2. CASE i = m
      <4>1. h[m] = step[<<m, g[m - 1]>>]
        BY <2>1
      <4> HIDE DEF h
      <4> QED
        BY <3>1, <3>2, <4>1
    <3>3. CASE i # m
      <4>1. i \in 1 .. m - 1
        BY <2>1, <3>3
      <4>2. g[i] = step[<<i, g[i - 1]>>]
        BY <2>3, <4>1 DEF Comes
      <4>3. h[i] = g[i]
        BY <3>3
      <4> QED
        BY <3>1, <4>2, <4>3
    <3> QED
      BY <3>2, <3>3
  <2>8. h = [i \in 0 .. m |-> h[i]]
    OBVIOUS
  <2> HIDE DEF h
  <2>9. Comes(h, m, base, step)
    BY <2>6, <2>7, <2>8 DEF Comes
  <2> QED
    BY <2>5, <2>9 DEF Missing
<1>3. Missing = {}
  <2>1. Missing \subseteq Nat
    OBVIOUS
  <2> HIDE DEF Missing
  <2> QED
    BY <1>2, <2>1, Smallest
<1> QED
  BY <1>3

\* Induction: S has 0 and with a number below n the next one.
Climbs(S, n) == 0 \in S /\ \A i \in 1 .. n : i - 1 \in S => i \in S

LEMMA Climb ==
  ASSUME NEW n \in Nat, NEW S, Climbs(S, n)
  PROVE  \A i \in 0 .. n : i \in S
<1> DEFINE Left == {i \in 0 .. n : i \notin S}
<1>1. ASSUME NEW m \in Left, \A k \in Left : m <= k
      PROVE  FALSE
  <2>1. m \in 1 .. n /\ m \notin S
    BY DEF Climbs
  <2>2. m - 1 \notin Left
    <3> HIDE DEF Left
    <3> QED
      BY <1>1, <2>1
  <2>3. m - 1 \in S
    BY <2>1, <2>2
  <2> QED
    BY <2>1, <2>3 DEF Climbs
<1>2. Left \subseteq Nat
  OBVIOUS
<1>3. Left = {}
  <2> HIDE DEF Left
  <2> QED
    BY <1>1, <1>2, Smallest
<1> QED
  BY <1>3
=============================================================================
