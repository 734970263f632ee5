------------------------------ MODULE Folding -------------------------------
(***************************************************************************)
(* What the fold of a sequence keeps.  FoldLeft is defined by recursion    *)
(* over the subsets of a domain: the fold runs over 1 .. k and takes the   *)
(* largest index off.                                                      *)
(***************************************************************************)
EXTENDS Integers, SequencesExt, WellFoundedInduction, TLAPS

CONSTANT step(_, _)   \* one step of the fold

Folded(base, seq) == FoldLeft(step, base, seq)

(* The recursion of a fold over the first n entries. *)
Recursion(it, base, seq, n) ==
    it = [s \in SUBSET (1 .. n) |->
            IF s = {} THEN base ELSE step(it[s \ {Max(s)}], seq[Max(s)])]

(* Induction, for a set of numbers. *)
LEMMA Induction ==
    ASSUME NEW T, 0 \in T, \A k \in Nat : k \in T => k + 1 \in T
    PROVE  Nat \subseteq T
<1> DEFINE R == OpToRel(<, Nat)
           M == Nat \ T
<1>1. SUFFICES ASSUME M # {} PROVE FALSE
      OBVIOUS
<1>2. IsWellFoundedOn(R, Nat)
      BY NatLessThanWellFounded
<1>3. \A x, y \in Nat : y < x => <<y, x>> \in R
      BY DEF OpToRel
<1>4. PICK x \in M : \A y \in M : ~(<<y, x>> \in R)
  <2> HIDE DEF R
  <2>1. M \subseteq Nat
        OBVIOUS
  <2> QED BY <1>1, <1>2, <2>1, WFMin
<1>5. x \in Nat /\ x # 0
      OBVIOUS
<1>6. x - 1 \in Nat /\ x - 1 < x
      BY <1>5
<1> HIDE DEF R
<1>7. x - 1 \in T
      BY <1>3, <1>4, <1>5, <1>6
<1>8. (x - 1) + 1 = x
      BY <1>5
<1> QED BY <1>6, <1>7, <1>8

(* The largest index. *)
LEMMA LargestOf ==
    ASSUME NEW n \in Nat, NEW s \in SUBSET (1 .. n), n \in s
    PROVE  Max(s) = n
<1>1. \A y \in s : n >= y
      OBVIOUS
<1>2. \A x \in s : (\A y \in s : x >= y) => x = n
      OBVIOUS
<1> QED BY <1>1, <1>2 DEF Max

LEMMA LargestIn ==
    ASSUME NEW n \in Nat, NEW s \in SUBSET (1 .. n), s # {}
    PROVE  Max(s) \in s
<1> DEFINE T == {k \in Nat : \A S \in SUBSET (1 .. k) : S # {} => Max(S) \in S}
<1>1. 0 \in T
  <2>1. \A S \in SUBSET (1 .. 0) : S = {}
        OBVIOUS
  <2> QED BY <2>1
<1>2. ASSUME NEW k \in Nat, k \in T PROVE k + 1 \in T
  <2>1. ASSUME NEW S \in SUBSET (1 .. (k + 1)), S # {} PROVE Max(S) \in S
    <3>1. CASE k + 1 \in S
          BY <3>1, LargestOf
    <3>2. CASE k + 1 \notin S
      <4>1. S \in SUBSET (1 .. k)
            BY <3>2
      <4> QED BY <1>2, <2>1, <4>1
    <3> QED BY <3>1, <3>2
  <2> QED BY <2>1
<1> HIDE DEF T
<1>3. n \in T
      BY <1>1, <1>2, Induction
<1> QED BY <1>3 DEF T

(* The recursion has a solution. *)
LEMMA RecursionExists ==
    ASSUME NEW base, NEW seq, NEW n \in Nat
    PROVE  \E it : Recursion(it, base, seq, n)
<1> DEFINE T == {k \in Nat : \E it : Recursion(it, base, seq, k)}
<1>1. 0 \in T
  <2> DEFINE it == [s \in SUBSET (1 .. 0) |-> base]
  <2>1. SUBSET (1 .. 0) = {{}}
        OBVIOUS
  <2>2. Recursion(it, base, seq, 0)
        BY <2>1 DEF Recursion
  <2> QED BY <2>2
<1>2. ASSUME NEW k \in Nat, k \in T PROVE k + 1 \in T
  <2>1. PICK g : Recursion(g, base, seq, k)
        BY <1>2
  <2> DEFINE h == [s \in SUBSET (1 .. (k + 1)) |->
                     IF s \in SUBSET (1 .. k) THEN g[s]
                     ELSE step(g[s \ {k + 1}], seq[k + 1])]
             Next(s) == IF s = {} THEN base ELSE step(h[s \ {Max(s)}], seq[Max(s)])
  <2>2. ASSUME NEW s \in SUBSET (1 .. (k + 1)) PROVE h[s] = Next(s)
    <3>1. CASE s \in SUBSET (1 .. k)
      <4>1. h[s] = g[s]
            BY <3>1
      <4>2. g[s] = IF s = {} THEN base ELSE step(g[s \ {Max(s)}], seq[Max(s)])
            BY <2>1, <3>1 DEF Recursion
      <4>3. ASSUME s # {} PROVE h[s \ {Max(s)}] = g[s \ {Max(s)}]
            BY <3>1
      <4> HIDE DEF h
      <4> QED BY <4>1, <4>2, <4>3
    <3>2. CASE s \notin SUBSET (1 .. k)
      <4>1. k + 1 \in s /\ s \ {k + 1} \in SUBSET (1 .. k)
            BY <3>2
      <4>2. Max(s) = k + 1
            BY <4>1, LargestOf
      <4>3. h[s \ {k + 1}] = g[s \ {k + 1}]
            BY <4>1
      <4>4. h[s] = step(g[s \ {k + 1}], seq[k + 1])
            BY <3>2
      <4> HIDE DEF h
      <4> QED BY <4>1, <4>2, <4>3, <4>4
    <3> QED BY <3>1, <3>2
  <2>3. h = [s \in SUBSET (1 .. (k + 1)) |-> h[s]]
        OBVIOUS
  <2> HIDE DEF h
  <2>4. h = [s \in SUBSET (1 .. (k + 1)) |-> Next(s)]
        BY <2>2, <2>3
  <2>5. Recursion(h, base, seq, k + 1)
        BY <2>4 DEF Recursion
  <2> QED BY <2>5
<1> HIDE DEF T
<1>3. n \in T
      BY <1>1, <1>2, Induction
<1> QED BY <1>3 DEF T

(* What holds of the base and is handed on from each entry to the next     *)
(* holds of the fold.                                                      *)
THEOREM FoldKeeps ==
    ASSUME NEW base, NEW S, NEW seq \in Seq(S), NEW good,
           base \in good[0],
           \A k \in 1 .. Len(seq) : \A a \in good[k - 1] : step(a, seq[k]) \in good[k]
    PROVE  Folded(base, seq) \in good[Len(seq)]
<1> DEFINE n == Len(seq)
           it == CHOOSE f : Recursion(f, base, seq, n)
<1>1. n \in Nat /\ DOMAIN seq = 1 .. n
      OBVIOUS
<1>2. Recursion(it, base, seq, n)
      BY <1>1, RecursionExists
<1>3. Folded(base, seq) = it[1 .. n]
      BY <1>1 DEF Folded, FoldLeft, MapThenFoldSet, Recursion
<1> HIDE DEF it
<1> DEFINE T == {k \in Nat : k <= n => it[1 .. k] \in good[k]}
<1>4. 0 \in T
  <2>1. 1 .. 0 = {} /\ {} \in SUBSET (1 .. n)
        OBVIOUS
  <2>2. it[{}] = base
        BY <1>2, <2>1 DEF Recursion
  <2> QED BY <2>1, <2>2
<1>5. ASSUME NEW k \in Nat, k \in T PROVE k + 1 \in T
  <2>1. SUFFICES ASSUME k + 1 <= n PROVE it[1 .. (k + 1)] \in good[k + 1]
        OBVIOUS
  <2> DEFINE s == 1 .. (k + 1)
  <2>2. s \in SUBSET (1 .. n) /\ s # {} /\ k + 1 \in s /\ s \ {k + 1} = 1 .. k
    <3> HIDE DEF n
    <3>1. k + 1 \in s /\ \A x : x \in s /\ x # k + 1 <=> x \in 1 .. k
          OBVIOUS
    <3>2. \A x \in s : x \in 1 .. n
          BY <1>1, <2>1
    <3> HIDE DEF s
    <3> QED BY <3>1, <3>2
  <2>3. Max(s) = k + 1
        BY <2>2, LargestOf
  <2>4. it[s] = step(it[1 .. k], seq[k + 1])
    <3> HIDE DEF s
    <3> QED BY <1>2, <2>2, <2>3 DEF Recursion
  <2>5. it[1 .. k] \in good[k]
        BY <1>1, <1>5, <2>1
  <2>6. k + 1 \in 1 .. n /\ (k + 1) - 1 = k
        BY <1>1, <2>1
  <2> QED BY <2>4, <2>5, <2>6
<1> HIDE DEF T
<1>6. n \in T
      BY <1>1, <1>4, <1>5, Induction
<1> QED BY <1>1, <1>3, <1>6 DEF T
=============================================================================
