---------------------------- MODULE FoldInduction ----------------------------
(***************************************************************************)
(* Loops over a list: what every turn keeps, FoldLeft keeps.  FoldLeft of  *)
(* the community modules is a CHOOSE of a function on sets of numbers, and *)
(* a library theorem on induction takes its predicate as a parameter: here *)
(* the turn and what it keeps are constants of the module, which a proof   *)
(* about one loop gives their definitions (INSTANCE ... WITH Op, Kept).    *)
(***************************************************************************)
EXTENDS Integers, SequencesExt, FiniteSetTheorems, WellFoundedInduction, TLAPS

CONSTANTS
    Op(_, _, _),    \* a turn: Op(p, x, element)
    Kept(_, _, _)   \* what it keeps: Kept(p, turns made, x)

\* Induction over the turns of a loop, for the one predicate Kept.
LEMMA Induction ==
  ASSUME NEW S \in SUBSET Nat, 0 \in S, \A n \in S : n + 1 \in S
  PROVE  S = Nat
<1> DEFINE T == Nat \ S
           R == OpToRel(<, Nat)
<1>1. IsWellFoundedOn(R, Nat)
  BY NatLessThanWellFounded
<1>2. T = {}
  <2> SUFFICES ASSUME T # {} PROVE FALSE
    OBVIOUS
  <2>1. PICK x \in T : \A y \in T : <<y, x>> \notin R
    <3> HIDE DEF R
    <3>1. T \subseteq Nat
      OBVIOUS
    <3> QED BY <1>1, <3>1, WFMin
  <2>2. x \in Nat /\ x \notin S
    OBVIOUS
  <2>3. x - 1 \in Nat /\ x - 1 < x
    BY <2>2
  <2>4. x - 1 \notin S
    BY <2>2, <2>3
  <2>5. <<x - 1, x>> \in R
    BY <2>2, <2>3 DEF OpToRel
  <2> QED BY <2>1, <2>3, <2>4, <2>5
<1> QED BY <1>2

\* A set of numbers has a least one.
LEMMA MinIs ==
  ASSUME NEW S \in SUBSET Nat, S # {}
  PROVE  Min(S) \in S /\ \A y \in S : Min(S) <= y
<1> DEFINE Below == {n \in Nat : \A y \in S : n <= y}
<1>1. \E x \in S : \A y \in S : x <= y
  <2> SUFFICES ASSUME \A x \in S : \E y \in S : y < x PROVE FALSE
    <3>1. \A x, y \in S : x <= y \/ y < x
      OBVIOUS
    <3> QED BY <3>1
  <2>1. 0 \in Below
    OBVIOUS
  <2>2. ASSUME NEW n \in Below PROVE n + 1 \in Below
    <3>1. n \notin S
      OBVIOUS
    <3> QED BY <3>1
  <2>3. Below = Nat
    <3> HIDE DEF Below
    <3>1. Below \in SUBSET Nat
      BY DEF Below
    <3> QED BY <2>1, <2>2, <3>1, Induction
  <2>4. PICK x \in S : TRUE
    OBVIOUS
  <2>5. x + 1 \in Below
    BY <2>3
  <2> QED BY <2>5
<1> QED BY <1>1 DEF Min

-----------------------------------------------------------------------------
(* The recursion of FoldLeft                                               *)

Fold(p, base, seq) == FoldLeft(LAMBDA x, e : Op(p, x, e), base, seq)

\* f is the recursive function of a fold over the first n elements of seq.
Turns(p, f, base, seq, n) ==
  f = [s \in SUBSET (1 .. n) |->
        IF s = {} THEN base ELSE Op(p, f[s \ {Max(s)}], seq[Max(s)])]

\* Max of a nonempty finite set of numbers is its largest.
LEMMA MaxIs ==
  ASSUME NEW n \in Nat, NEW s \in SUBSET (1 .. n + 1), n + 1 \in s
  PROVE  Max(s) = n + 1
<1>1. \A y \in s : y \in Int /\ n + 1 >= y
  OBVIOUS
<1>2. \A x \in s : (\A y \in s : x >= y) => x = n + 1
  BY <1>1
<1> QED BY <1>1, <1>2 DEF Max

\* A fold has a turn for every element.
LEMMA TurnsExist ==
  ASSUME NEW p, NEW base, NEW seq
  PROVE  \A n \in Nat : \E f : Turns(p, f, base, seq, n)
<1> DEFINE S == {n \in Nat : \E f : Turns(p, f, base, seq, n)}
<1>1. 0 \in S
  <2>1. Turns(p, [s \in SUBSET (1 .. 0) |-> base], base, seq, 0)
    <3>1. 1 .. 0 = {}
      OBVIOUS
    <3> QED BY <3>1 DEF Turns
  <2> QED BY <2>1
<1>2. ASSUME NEW n \in S PROVE n + 1 \in S
  <2>1. PICK f : Turns(p, f, base, seq, n)
    OBVIOUS
  <2> DEFINE g == [s \in SUBSET (1 .. n + 1) |->
                      IF s \subseteq 1 .. n THEN f[s] ELSE Op(p, f[s \ {n + 1}], seq[n + 1])]
  <2>2. ASSUME NEW s \in SUBSET (1 .. n + 1)
        PROVE  g[s] = IF s = {} THEN base ELSE Op(p, g[s \ {Max(s)}], seq[Max(s)])
    <3>1. CASE s \subseteq 1 .. n
      <4>1. s \ {Max(s)} \subseteq 1 .. n /\ s \ {Max(s)} \in SUBSET (1 .. n + 1)
        BY <3>1
      <4>2. g[s] = f[s] /\ g[s \ {Max(s)}] = f[s \ {Max(s)}]
        BY <3>1, <4>1
      <4>3. f[s] = IF s = {} THEN base ELSE Op(p, f[s \ {Max(s)}], seq[Max(s)])
        BY <3>1, <2>1 DEF Turns
      <4> QED BY <4>2, <4>3
    <3>2. CASE ~(s \subseteq 1 .. n)
      <4>1. n + 1 \in s /\ n \in Nat
        BY <3>2
      <4>2. Max(s) = n + 1
        BY <4>1, MaxIs
      <4>3. s \ {n + 1} \subseteq 1 .. n /\ s \ {n + 1} \in SUBSET (1 .. n + 1)
        BY <4>1
      <4>4. g[s \ {n + 1}] = f[s \ {n + 1}]
        BY <4>3
      <4>5. g[s] = Op(p, f[s \ {n + 1}], seq[n + 1])
        BY <3>2
      <4> HIDE DEF g
      <4> QED BY <4>1, <4>2, <4>4, <4>5
    <3> QED BY <3>1, <3>2
  <2>3. Turns(p, g, base, seq, n + 1)
    <3>1. g = [s \in SUBSET (1 .. n + 1) |-> g[s]]
      OBVIOUS
    <3> HIDE DEF g
    <3> QED BY <2>2, <3>1 DEF Turns
  <2> HIDE DEF g
  <2> QED BY <2>3
<1> HIDE DEF S
<1>3. S \in SUBSET Nat
  BY DEF S
<1>4. S = Nat
  BY <1>1, <1>2, <1>3, Induction
<1> QED BY <1>4 DEF S

\* The folds of the community modules take the turns in order.
LEMMA FoldTurns ==
  ASSUME NEW p, NEW base, NEW seq, NEW n \in Nat, DOMAIN seq = 1 .. n
  PROVE  \E f : Turns(p, f, base, seq, n) /\ Fold(p, base, seq) = f[1 .. n]
<1>1. Fold(p, base, seq) = (CHOOSE f : Turns(p, f, base, seq, n))[1 .. n]
  BY DEF Fold, FoldLeft, MapThenFoldSet, Turns
<1>2. \E f : Turns(p, f, base, seq, n)
  BY TurnsExist
<1>3. Turns(p, CHOOSE f : Turns(p, f, base, seq, n), base, seq, n)
  BY <1>2
<1> QED BY <1>1, <1>3

\* What f gives for the first i elements, for each i.
Values(p, f, base, seq, n) ==
  /\ f[{}] = base
  /\ \A i \in 0 .. n - 1 : f[1 .. i + 1] = Op(p, f[1 .. i], seq[i + 1])

\* The value of a fold after a turn.
LEMMA TurnsAt ==
  ASSUME NEW p, NEW base, NEW seq, NEW n \in Nat, NEW f, Turns(p, f, base, seq, n)
  PROVE  Values(p, f, base, seq, n)
<1>1. f[{}] = base
  <2>1. {} \in SUBSET (1 .. n)
    OBVIOUS
  <2> QED BY <2>1 DEF Turns
<1>2. ASSUME NEW i \in 0 .. n - 1 PROVE f[1 .. i + 1] = Op(p, f[1 .. i], seq[i + 1])
  <2>1. i \in Nat /\ i + 1 \in 1 .. i + 1 /\ 1 .. i + 1 \in SUBSET (1 .. n)
    OBVIOUS
  <2>2. Max(1 .. i + 1) = i + 1
    BY <2>1, MaxIs
  <2>3. (1 .. i + 1) \ {i + 1} = 1 .. i
    BY <2>1
  <2>4. f[1 .. i + 1] = Op(p, f[(1 .. i + 1) \ {Max(1 .. i + 1)}], seq[Max(1 .. i + 1)])
    <3>1. 1 .. i + 1 # {}
      BY <2>1
    <3> QED BY <2>1, <3>1 DEF Turns
  <2> QED BY <2>2, <2>3, <2>4
<1> QED BY <1>1, <1>2 DEF Values

\* A fold is the last of its values, each of which is one turn from the one before.
LEMMA FoldValues ==
  ASSUME NEW p, NEW base, NEW seq, NEW n \in Nat, DOMAIN seq = 1 .. n
  PROVE  \E f : Values(p, f, base, seq, n) /\ Fold(p, base, seq) = f[1 .. n]
<1>1. PICK f : Turns(p, f, base, seq, n) /\ Fold(p, base, seq) = f[1 .. n]
  BY FoldTurns
<1>2. Values(p, f, base, seq, n)
  BY <1>1, TurnsAt
<1> QED BY <1>1, <1>2

\* A fold from the left keeps what each of its turns keeps.
THEOREM FoldKeeps ==
  ASSUME NEW p, NEW base, NEW seq, NEW n \in Nat, DOMAIN seq = 1 .. n,
         Kept(p, 0, base),
         \A i \in 0 .. n - 1 : \A x : Kept(p, i, x) => Kept(p, i + 1, Op(p, x, seq[i + 1]))
  PROVE  Kept(p, n, Fold(p, base, seq))
<1>1. PICK f : Values(p, f, base, seq, n) /\ Fold(p, base, seq) = f[1 .. n]
  BY FoldValues
<1> DEFINE S == {i \in Nat : i <= n => Kept(p, i, f[1 .. i])}
<1>3. 0 \in S
  <2>1. 1 .. 0 = {}
    OBVIOUS
  <2> QED BY <1>1, <2>1 DEF Values
<1>4. ASSUME NEW i \in S PROVE i + 1 \in S
  <2>1. CASE i + 1 <= n
    <3>1. i \in 0 .. n - 1 /\ i <= n
      BY <2>1
    <3>2. Kept(p, i, f[1 .. i])
      BY <3>1
    <3>3. Kept(p, i + 1, f[1 .. i + 1])
      BY <1>1, <3>1, <3>2 DEF Values
    <3> QED BY <3>3
  <2>2. CASE ~(i + 1 <= n)
    BY <2>2
  <2> QED BY <2>1, <2>2
<1>5. S = Nat
  <2> HIDE DEF S
  <2>1. S \in SUBSET Nat
    BY DEF S
  <2> QED BY <1>3, <1>4, <2>1, Induction
<1>6. Kept(p, n, f[1 .. n])
  BY <1>5
<1> QED BY <1>1, <1>6

\* One more element is one more turn, after all the others.
THEOREM FoldAppend ==
  ASSUME NEW p, NEW base, NEW seq, NEW longer, NEW n \in Nat,
         DOMAIN seq = 1 .. n, DOMAIN longer = 1 .. n + 1,
         \A i \in 1 .. n : longer[i] = seq[i]
  PROVE  Fold(p, base, longer) = Op(p, Fold(p, base, seq), longer[n + 1])
<1>1. PICK f : Values(p, f, base, seq, n) /\ Fold(p, base, seq) = f[1 .. n]
  BY FoldValues
<1>2. PICK g : Values(p, g, base, longer, n + 1) /\ Fold(p, base, longer) = g[1 .. n + 1]
  <2>1. n + 1 \in Nat
    OBVIOUS
  <2> QED BY <2>1, FoldValues
<1> DEFINE S == {i \in Nat : i <= n => f[1 .. i] = g[1 .. i]}
<1>5. 0 \in S
  <2>1. 1 .. 0 = {}
    OBVIOUS
  <2> QED BY <1>1, <1>2, <2>1 DEF Values
<1>6. ASSUME NEW i \in S PROVE i + 1 \in S
  <2>1. CASE i + 1 <= n
    <3>1. i \in 0 .. n - 1 /\ i <= n /\ i \in 0 .. n /\ i + 1 \in 1 .. n
      BY <2>1
    <3>2. f[1 .. i] = g[1 .. i] /\ longer[i + 1] = seq[i + 1]
      BY <3>1
    <3>3. f[1 .. i + 1] = g[1 .. i + 1]
      BY <1>1, <1>2, <3>1, <3>2 DEF Values
    <3> QED BY <3>3
  <2>2. CASE ~(i + 1 <= n)
    BY <2>2
  <2> QED BY <2>1, <2>2
<1>7. S = Nat
  <2> HIDE DEF S
  <2>1. S \in SUBSET Nat
    BY DEF S
  <2> QED BY <1>5, <1>6, <2>1, Induction
<1>8. f[1 .. n] = g[1 .. n]
  BY <1>7
<1>9. g[1 .. n + 1] = Op(p, g[1 .. n], longer[n + 1])
  BY <1>2 DEF Values
<1> QED BY <1>1, <1>2, <1>8, <1>9
=============================================================================
