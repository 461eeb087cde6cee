------------------------------ MODULE Folding ------------------------------
(* What a fold over a sequence keeps.  The operators that are folded in    *)
(* this project are written in place, over what surrounds them; an         *)
(* instance of this module names one of them, with what surrounds it as    *)
(* its first three arguments, and a property of its results, which may     *)
(* speak of how many elements were folded.                                 *)
EXTENDS Integers
LOCAL INSTANCE WellFoundedInduction

CONSTANTS Op(_, _, _, _, _), Good(_, _, _, _, _)

Top(S) == CHOOSE x \in S : \A y \in S : x >= y

\* What FoldLeft of Op over the sequence is, its definition expanded.
Folded(d, e, f, base, seq) ==
  LET g == CHOOSE g : g = [s \in SUBSET (DOMAIN seq) |->
                IF s = {} THEN base ELSE Op(d, e, f, g[s \ {Top(s)}], seq[Top(s)])]
  IN g[DOMAIN seq]

-----------------------------------------------------------------------------

LEMMA LeastNumber ==
  ASSUME NEW S \in SUBSET Nat, S # {}
  PROVE  \E m \in S : \A n \in S : m <= n
<1>1. PICK m \in S : \A n \in S : ~(<<n, m>> \in OpToRel(<, Nat))
  BY NatLessThanWellFounded, WFMin
<1>2. ASSUME NEW n \in S PROVE m <= n
  <2>1. m \in Nat /\ n \in Nat /\ ~(n < m)
    BY <1>1 DEF OpToRel
  <2> QED
    BY <2>1
<1> QED
  BY <1>2

LEMMA MaxIs ==
  ASSUME NEW S \in SUBSET Int, NEW x \in S, \A y \in S : x >= y
  PROVE  Top(S) = x
<1>1. \A z \in S : (\A y \in S : z >= y) => z = x
  OBVIOUS
<1> QED
  BY <1>1 DEF Top

\* One step of the recursion FoldLeft is defined by.
Next(d, e, f, base, seq, g, s) ==
  IF s = {} THEN base ELSE Op(d, e, f, g[s \ {Top(s)}], seq[Top(s)])

Recursive(d, e, f, base, seq, m, g) ==
  g = [s \in SUBSET (1 .. m) |-> Next(d, e, f, base, seq, g, s)]

\* The recursion has a solution: each subset with a new highest element is
\* worked out from the subset without it.
LEMMA SolutionExists ==
  ASSUME NEW d, NEW e, NEW f, NEW base, NEW seq, NEW n \in Nat
  PROVE  \E g : Recursive(d, e, f, base, seq, n, g)
<1> DEFINE unsolved == {m \in Nat : ~\E g : Recursive(d, e, f, base, seq, m, g)}
<1> SUFFICES ASSUME unsolved # {} PROVE FALSE
  OBVIOUS
<1>1. PICK m \in unsolved : \A k \in unsolved : m <= k
  BY LeastNumber
<1>2. CASE m = 0
  <2> DEFINE g == [s \in SUBSET (1 .. m) |-> base]
  <2>1. \A s \in SUBSET (1 .. m) : s = {}
    BY <1>2
  <2>2. g = [s \in SUBSET (1 .. m) |-> Next(d, e, f, base, seq, g, s)]
    BY <2>1 DEF Next
  <2> HIDE DEF g
  <2>3. Recursive(d, e, f, base, seq, m, g)
    BY <2>2 DEF Recursive
  <2> QED
    BY <2>3
<1>3. CASE m # 0
  <2>1. m - 1 \in Nat /\ m - 1 \notin unsolved
    BY <1>1, <1>3
  <2>2. PICK h : Recursive(d, e, f, base, seq, m - 1, h)
    BY <2>1
  <2> DEFINE g == [s \in SUBSET (1 .. m) |->
                     IF m \in s THEN Op(d, e, f, h[s \ {m}], seq[m]) ELSE h[s]]
  <2>3. ASSUME NEW s \in SUBSET (1 .. m), m \in s
        PROVE  g[s] = Next(d, e, f, base, seq, g, s)
    <3>1. Top(s) = m
      <4>1. s \in SUBSET Int /\ \A y \in s : m >= y
        BY <2>1
      <4> QED
        BY <4>1, <2>3, MaxIs
    <3>2. s \ {m} \in SUBSET (1 .. m) /\ m \notin s \ {m}
      OBVIOUS
    <3>3. g[s \ {m}] = h[s \ {m}]
      BY <3>2
    <3>4. g[s] = Op(d, e, f, h[s \ {m}], seq[m])
      BY <2>3
    <3> QED
      BY <3>1, <3>3, <3>4, <2>3 DEF Next
  <2>4. ASSUME NEW s \in SUBSET (1 .. m), m \notin s
        PROVE  g[s] = Next(d, e, f, base, seq, g, s)
    <3>1. s \in SUBSET (1 .. m - 1)
      BY <2>1, <2>4
    <3>2. g[s] = h[s]
      BY <2>4
    <3>3. h[s] = Next(d, e, f, base, seq, h, s)
      BY <2>2, <3>1 DEF Recursive
    <3>4. s \ {Top(s)} \in SUBSET (1 .. m) /\ m \notin s \ {Top(s)}
      BY <2>4
    <3>5. g[s \ {Top(s)}] = h[s \ {Top(s)}]
      BY <3>4
    <3> HIDE DEF g
    <3> QED
      BY <3>2, <3>3, <3>5 DEF Next
  <2>5. g = [s \in SUBSET (1 .. m) |-> g[s]]
    OBVIOUS
  <2> HIDE DEF g
  <2>6. [s \in SUBSET (1 .. m) |-> g[s]]
          = [s \in SUBSET (1 .. m) |-> Next(d, e, f, base, seq, g, s)]
    BY <2>3, <2>4
  <2>7. Recursive(d, e, f, base, seq, m, g)
    BY <2>5, <2>6 DEF Recursive
  <2> QED
    BY <2>7
<1> QED
  BY <1>2, <1>3

\* The fold is the value at the whole domain of some solution.
LEMMA FoldedIs ==
  ASSUME NEW d, NEW e, NEW f, NEW base, NEW seq, NEW n \in Nat, DOMAIN seq = 1 .. n
  PROVE  \E g : /\ Recursive(d, e, f, base, seq, n, g)
                /\ Folded(d, e, f, base, seq) = g[1 .. n]
<1> DEFINE g == CHOOSE g : g = [s \in SUBSET (1 .. n) |->
                   IF s = {} THEN base ELSE Op(d, e, f, g[s \ {Top(s)}], seq[Top(s)])]
<1>1. Folded(d, e, f, base, seq) = g[1 .. n]
  BY DEF Folded
<1>2. \E h : h = [s \in SUBSET (1 .. n) |->
                   IF s = {} THEN base ELSE Op(d, e, f, h[s \ {Top(s)}], seq[Top(s)])]
  <2>1. \E h : Recursive(d, e, f, base, seq, n, h)
    BY SolutionExists
  <2> QED
    BY <2>1 DEF Recursive, Next
<1>3. Recursive(d, e, f, base, seq, n, g)
  BY <1>2 DEF Recursive, Next
<1> QED
  BY <1>1, <1>3

\* What holds before the first element and is kept by every step holds of the
\* fold: `Good(.., i, a)` is what is known of the result `a` of i elements.
THEOREM FoldKeeps ==
  ASSUME NEW d, NEW e, NEW f, NEW base, NEW seq, NEW n \in Nat, DOMAIN seq = 1 .. n,
         Good(d, e, f, 0, base),
         \A i \in 1 .. n : \A a : Good(d, e, f, i - 1, a)
                                  => Good(d, e, f, i, Op(d, e, f, a, seq[i]))
  PROVE  Good(d, e, f, n, Folded(d, e, f, base, seq))
<1>1. PICK g : /\ Recursive(d, e, f, base, seq, n, g)
               /\ Folded(d, e, f, base, seq) = g[1 .. n]
  BY FoldedIs
<1> DEFINE bad == {m \in 0 .. n : ~Good(d, e, f, m, g[1 .. m])}
<1>2. bad = {}
  <2> SUFFICES ASSUME bad # {} PROVE FALSE
    OBVIOUS
  <2>1. PICK m \in bad : \A k \in bad : m <= k
    <3>1. bad \in SUBSET Nat
      OBVIOUS
    <3> QED
      BY <3>1, LeastNumber
  <2>2. 1 .. m \in SUBSET (1 .. n)
    OBVIOUS
  <2>3. g[1 .. m] = Next(d, e, f, base, seq, g, 1 .. m)
    BY <1>1, <2>2 DEF Recursive
  <2>4. CASE m = 0
    <3>1. 1 .. m = {}
      BY <2>4
    <3> QED
      BY <2>1, <2>3, <2>4, <3>1 DEF Next
  <2>5. CASE m # 0
    <3>1. m \in 1 .. n /\ m - 1 \in 0 .. n /\ m - 1 \notin bad
      BY <2>1, <2>5
    <3>2. Top(1 .. m) = m
      <4>1. 1 .. m \in SUBSET Int /\ m \in 1 .. m /\ \A y \in 1 .. m : m >= y
        BY <3>1
      <4> QED
        BY <4>1, MaxIs
    <3>3. (1 .. m) \ {m} = 1 .. m - 1 /\ 1 .. m # {}
      BY <3>1
    <3>4. g[1 .. m] = Op(d, e, f, g[1 .. m - 1], seq[m])
      BY <2>3, <3>2, <3>3 DEF Next
    <3>5. Good(d, e, f, m - 1, g[1 .. m - 1])
      BY <3>1
    <3> QED
      BY <2>1, <3>1, <3>4, <3>5
  <2> QED
    BY <2>4, <2>5
<1> QED
  BY <1>1, <1>2
=============================================================================
