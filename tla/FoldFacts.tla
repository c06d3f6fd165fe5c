----------------------------- MODULE FoldFacts -----------------------------
(***************************************************************************)
(* Induction over the natural numbers, and what a fold computes.           *)
(***************************************************************************)
EXTENDS Integers, FiniteSetsExt, WellFoundedInduction, TLAPS

(* What holds at 0 and is passed on holds of every number. *)
LEMMA NatSetInduction ==
  ASSUME NEW P, 0 \in P, \A n \in Nat : n \in P => n + 1 \in P
  PROVE  \A n \in Nat : n \in P
<1> DEFINE R == OpToRel(<, Nat)
           T == Nat \ P
<1>1. SUFFICES ASSUME T # {} PROVE FALSE
  OBVIOUS
<1>2. IsWellFoundedOn(R, Nat)
  BY NatLessThanWellFounded
<1>3. T \subseteq Nat
  OBVIOUS
<1>4. \A x, y \in Nat : x < y => <<x, y>> \in R
  BY DEF OpToRel
<1>5. \E x \in T : \A y \in T : <<y, x>> \notin R
  <2> HIDE DEF R, T
  <2> QED
    BY <1>1, <1>2, <1>3, WFMin
<1>6. PICK x \in T : \A y \in T : ~(y < x)
  BY <1>4, <1>5
<1>7. x # 0 /\ x - 1 \in Nat
  BY <1>6
<1>8. x - 1 \in P
  BY <1>6, <1>7
<1> QED
  BY <1>6, <1>7, <1>8

(* The same up to a bound. *)
LEMMA UpTo ==
  ASSUME NEW n \in Nat, NEW P, 0 \in P, \A i \in 1 .. n : i - 1 \in P => i \in P
  PROVE  \A i \in 0 .. n : i \in P
<1> DEFINE Q == P \cup {i \in Nat : i > n}
<1>1. 0 \in Q
  OBVIOUS
<1>2. \A i \in Nat : i \in Q => i + 1 \in Q
  <2> TAKE i \in Nat
  <2> HAVE i \in Q
  <2>1. CASE i >= n
    BY <2>1
  <2>2. CASE i < n
    <3>1. i + 1 \in 1 .. n /\ (i + 1) - 1 = i /\ i \in P
      BY <2>2
    <3> QED
      BY <3>1
  <2> QED
    BY <2>1, <2>2
<1>3. \A i \in Nat : i \in Q
  <2> HIDE DEF Q
  <2> QED
    BY <1>1, <1>2, NatSetInduction
<1> QED
  BY <1>3

(* A set of numbers up to n has its maximum. *)
LEMMA MaxUpTo ==
  ASSUME NEW n \in Nat
  PROVE  \A S \in SUBSET (1 .. n) : S # {} => Max(S) \in S /\ \A x \in S : x <= Max(S)
<1> DEFINE Has(S) == \E m \in S : \A x \in S : x <= m
           P == {i \in Nat : \A S \in SUBSET (1 .. i) : S # {} => Has(S)}
<1>1. 0 \in P
  <2>1. \A S \in SUBSET (1 .. 0) : S = {}
    OBVIOUS
  <2> QED
    BY <2>1
<1>2. \A i \in Nat : i \in P => i + 1 \in P
  <2> TAKE i \in Nat
  <2> HAVE i \in P
  <2>1. ASSUME NEW S \in SUBSET (1 .. (i + 1)), S # {} PROVE Has(S)
    <3>1. CASE i + 1 \in S
      BY <3>1
    <3>2. CASE i + 1 \notin S
      <4>1. S \in SUBSET (1 .. i)
        BY <3>2
      <4> QED
        BY <2>1, <4>1
    <3> QED
      BY <3>1, <3>2
  <2> QED
    BY <2>1
<1>3. \A i \in Nat : i \in P
  <2> HIDE DEF P
  <2> QED
    BY <1>1, <1>2, NatSetInduction
<1>4. TAKE S \in SUBSET (1 .. n)
<1>5. HAVE S # {}
<1>6. Has(S)
  BY <1>3, <1>5
<1>7. PICK m \in S : \A y \in S : m >= y
  BY <1>6
<1> QED
  BY <1>7 DEF Max

(* The iteration of an operation Op over the elements of a set, the        *)
(* largest last, as the folds of the community modules define it.          *)
Iterates(iter, n, base, Op) ==
  iter = [s \in SUBSET (1 .. n) |->
            IF s = {} THEN base ELSE Op[Max(s)][iter[s \ {Max(s)}]]]

LEMMA IterationExists ==
  ASSUME NEW n \in Nat, NEW State, NEW base \in State, NEW Op \in [1 .. n -> [State -> State]]
  PROVE  \E iter \in [SUBSET (1 .. n) -> State] : Iterates(iter, n, base, Op)
<1> DEFINE Good(i) == \E iter \in [SUBSET (1 .. i) -> State] : Iterates(iter, i, base, Op)
           P == {i \in 0 .. n : Good(i)}
<1>0. \A i \in 1 .. n, x \in State : Op[i][x] \in State
  OBVIOUS
<1>1. 0 \in P
  <2> DEFINE iter == [s \in SUBSET (1 .. 0) |-> base]
  <2>1. \A s \in SUBSET (1 .. 0) : s = {}
    OBVIOUS
  <2>2. iter = [s \in SUBSET (1 .. 0) |-> IF s = {} THEN base ELSE Op[Max(s)][iter[s \ {Max(s)}]]]
    BY <2>1
  <2>3. iter \in [SUBSET (1 .. 0) -> State] /\ Iterates(iter, 0, base, Op)
    BY <2>2 DEF Iterates
  <2> QED
    BY <2>3
<1>2. ASSUME NEW i \in 1 .. n, i - 1 \in P PROVE i \in P
  <2>1. PICK iter \in [SUBSET (1 .. (i - 1)) -> State] : Iterates(iter, i - 1, base, Op)
    BY <1>2
  <2>i. i \in Nat /\ i >= 1 /\ i - 1 \in Nat
    OBVIOUS
  <2> DEFINE next == [s \in SUBSET (1 .. i) |->
                        IF i \in s THEN Op[i][iter[s \ {i}]] ELSE iter[s]]
  <2>2. ASSUME NEW s \in SUBSET (1 .. i), i \in s
        PROVE  Max(s) = i /\ s \ {i} \in SUBSET (1 .. (i - 1)) /\ s # {}
    <3>1. Max(s) \in s /\ i <= Max(s)
      BY <2>i, <2>2, MaxUpTo
    <3>2. Max(s) \in 1 .. i
      BY <3>1
    <3> QED
      BY <2>i, <2>2, <3>1, <3>2
  <2>3. ASSUME NEW s \in SUBSET (1 .. i), i \notin s
        PROVE  s \in SUBSET (1 .. (i - 1))
    BY <2>i, <2>3
  <2>4. ASSUME NEW s \in SUBSET (1 .. i) PROVE next[s] \in State
    <3>1. CASE i \in s
      <4>1. iter[s \ {i}] \in State
        BY <2>2, <3>1
      <4> QED
        BY <1>0, <3>1, <4>1
    <3>2. CASE i \notin s
      BY <2>3, <3>2
    <3> QED
      BY <3>1, <3>2
  <2>5. ASSUME NEW s \in SUBSET (1 .. (i - 1)) PROVE next[s] = iter[s] /\ s \in SUBSET (1 .. i)
    BY <2>i
  <2>6. ASSUME NEW s \in SUBSET (1 .. i)
        PROVE  next[s] = IF s = {} THEN base ELSE Op[Max(s)][next[s \ {Max(s)}]]
    <3>1. CASE i \in s
      <4>1. next[s] = Op[i][iter[s \ {i}]]
        BY <3>1
      <4>2. next[s \ {i}] = iter[s \ {i}]
        BY <2>2, <2>5, <3>1
      <4> QED
        BY <2>2, <3>1, <4>1, <4>2
    <3>2. CASE i \notin s
      <4>1. s \in SUBSET (1 .. (i - 1)) /\ next[s] = iter[s]
        BY <2>3, <3>2
      <4>2. iter[s] = IF s = {} THEN base ELSE Op[Max(s)][iter[s \ {Max(s)}]]
        BY <2>1, <4>1 DEF Iterates
      <4>3. next[s \ {Max(s)}] = iter[s \ {Max(s)}]
        BY <2>5, <4>1
      <4> QED
        BY <4>1, <4>2, <4>3
    <3> QED
      BY <3>1, <3>2
  <2>7. next = [s \in SUBSET (1 .. i) |-> next[s]]
    OBVIOUS
  <2>8. Iterates(next, i, base, Op) /\ next \in [SUBSET (1 .. i) -> State]
    <3> HIDE DEF next
    <3> QED
      BY <2>4, <2>6, <2>7 DEF Iterates
  <2> HIDE DEF next
  <2>9. Good(i)
    BY <2>8
  <2> QED
    BY <2>9
<1>3. \A i \in 0 .. n : i \in P
  <2> HIDE DEF P
  <2> QED
    BY <1>1, <1>2, UpTo
<1>4. n \in P
  <2> HIDE DEF P
  <2> QED
    BY <1>3
<1> QED
  BY <1>4

(* An iteration that takes the steps of Op as long as it keeps to State    *)
(* goes through the numbers in their order.                                *)
Unfolds(iter, n, State, base, Op) ==
  /\ n \in Nat /\ base \in State /\ Op \in [1 .. n -> [State -> State]]
  /\ iter[{}] = base
  /\ \A s \in SUBSET (1 .. n) : s # {} /\ iter[s \ {Max(s)}] \in State =>
       iter[s] = Op[Max(s)][iter[s \ {Max(s)}]]
GoesThrough(iter, n, State, base, Op) ==
  \E g \in [0 .. n -> State] :
    /\ g[0] = base /\ g[n] = iter[1 .. n]
    /\ \A i \in 1 .. n : g[i] = Op[i][g[i - 1]]

LEMMA IterationSteps ==
  ASSUME NEW n, NEW State, NEW base, NEW Op, NEW iter, Unfolds(iter, n, State, base, Op)
  PROVE  GoesThrough(iter, n, State, base, Op)
<1>0. n \in Nat /\ base \in State /\ Op \in [1 .. n -> [State -> State]]
  BY DEF Unfolds
<1> DEFINE g == [i \in 0 .. n |-> iter[1 .. i]]
<1>1. g[0] = base
  <2>1. 1 .. 0 = {}
    OBVIOUS
  <2> QED
    BY <2>1 DEF Unfolds
<1>2. ASSUME NEW i \in 1 .. n, g[i - 1] \in State PROVE g[i] = Op[i][g[i - 1]]
  <2>1. 1 .. i \in SUBSET (1 .. n) /\ 1 .. i # {} /\ i \in 1 .. i /\ i \in Nat
    <3> HIDE DEF g
    <3>1. i \in Nat /\ i >= 1 /\ i <= n
      BY <1>0
    <3>2. \A x \in 1 .. i : x \in 1 .. n
      BY <1>0, <3>1
    <3>3. i \in 1 .. i
      BY <3>1
    <3> QED
      BY <3>1, <3>2, <3>3
  <2>2. Max(1 .. i) = i
    <3>1. Max(1 .. i) \in 1 .. i /\ i <= Max(1 .. i)
      BY <2>1, MaxUpTo
    <3> QED
      BY <2>1, <3>1
  <2>3. (1 .. i) \ {i} = 1 .. (i - 1) /\ i - 1 \in 0 .. n
    BY <1>0
  <2>4. iter[1 .. (i - 1)] \in State
    BY <1>2, <2>3
  <2>5. iter[1 .. i] = Op[i][iter[1 .. (i - 1)]]
    BY <2>1, <2>2, <2>3, <2>4 DEF Unfolds
  <2> QED
    BY <2>3, <2>5
<1>3. \A i \in 0 .. n : g[i] \in State
  <2> DEFINE P == {i \in 0 .. n : g[i] \in State}
  <2>1. \A i \in 1 .. n, x \in State : Op[i][x] \in State
    BY <1>0
  <2> HIDE DEF g
  <2>2. 0 \in P
    BY <1>0, <1>1
  <2>3. \A i \in 1 .. n : i - 1 \in P => i \in P
    BY <1>0, <1>2, <2>1
  <2>4. \A i \in 0 .. n : i \in P
    <3> HIDE DEF P
    <3> QED
      BY <1>0, <2>2, <2>3, UpTo
  <2> QED
    BY <2>4
<1>4. g[n] = iter[1 .. n] /\ g = [i \in 0 .. n |-> g[i]]
  BY <1>0
<1>5. \A i \in 1 .. n : i - 1 \in 0 .. n
  BY <1>0
<1> HIDE DEF g
<1> QED
  BY <1>1, <1>2, <1>3, <1>4, <1>5 DEF GoesThrough
=============================================================================
