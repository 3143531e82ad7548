------------------------------ MODULE FoldFacts ------------------------------
(***************************************************************************)
(* What a fold over a sequence is: base, then one application of Op to     *)
(* each element in turn.  The models fold with FoldLeft, which the library *)
(* defines by a CHOOSE over the subsets of the domain; a proof wants the   *)
(* list of its intermediate values instead.  Op is a constant operator, so *)
(* that a proof module takes these facts for its own step by INSTANCE;     *)
(* ctx is what the step reads besides the value so far and the element.    *)
(***************************************************************************)
EXTENDS SequencesExt, FiniteSetTheorems, TLAPS

CONSTANTS Op(_, _, _)

-----------------------------------------------------------------------------
\* Induction on the naturals, for a set of them instead of a predicate.

\* A set of naturals has a least element.
LEMMA Least ==
    ASSUME NEW T, T \subseteq Nat, T # {}
    PROVE  \E x \in T : \A y \in T : x <= y
<1>1. PICK x \in T : \A y \in T : ~(<<y, x>> \in OpToRel(<, Nat))
  BY NatLessThanWellFounded, WFMin
<1>2. \A y \in T : ~(y < x)
  BY <1>1 DEF OpToRel
<1> QED BY <1>2

\* A set with 0 and with the successor of each of its naturals has them all.
LEMMA Climb ==
    ASSUME NEW C, 0 \in C, \A n \in Nat : n \in C => n + 1 \in C
    PROVE  Nat \subseteq C
<1> SUFFICES ASSUME ~(Nat \subseteq C) PROVE FALSE
  OBVIOUS
<1>1. PICK x \in Nat \ C : \A y \in Nat \ C : x <= y
  BY Least
<1>2. x # 0 /\ x - 1 \in Nat
  BY <1>1
<1>3. x - 1 \in C
  BY <1>1, <1>2
<1> QED BY <1>2, <1>3

-----------------------------------------------------------------------------
\* The library's definition, unfolded.

Unfolds(g, ctx, base, seq, D) ==
    g = [s \in SUBSET D |-> IF s = {} THEN base ELSE Op(ctx, g[s \ {Max(s)}], seq[Max(s)])]

Iter(ctx, base, seq, D) ==
    CHOOSE g : g = [s \in SUBSET D |->
                      IF s = {} THEN base ELSE Op(ctx, g[s \ {Max(s)}], seq[Max(s)])]

Folded(ctx, base, seq) == FoldLeft(LAMBDA w, e : Op(ctx, w, e), base, seq)

\* A fold is that function at the whole domain.
LEMMA Same ==
    ASSUME NEW ctx, NEW base, NEW seq
    PROVE  Folded(ctx, base, seq) = Iter(ctx, base, seq, DOMAIN seq)[DOMAIN seq]
  BY DEF Folded, FoldLeft, MapThenFoldSet, Iter

\* The greatest of a finite set of numbers is in it and bounds it.
LEMMA MaxIs ==
    ASSUME NEW k \in Nat, NEW s \in SUBSET (1..k), s # {}
    PROVE  Max(s) \in s /\ \A y \in s : Max(s) >= y
<1> DEFINE T == {k - x : x \in s}
<1>0. \A x \in s : x \in 1..k
  OBVIOUS
<1>1. T \subseteq Nat /\ T # {}
  <2>1. \A x \in s : k - x \in Nat
    BY <1>0
  <2>2. PICK x \in s : TRUE
    OBVIOUS
  <2>3. k - x \in T
    OBVIOUS
  <2> QED BY <2>1, <2>3
<1> HIDE DEF T
<1>2. PICK d \in T : \A y \in T : d <= y
  BY <1>1, Least
<1>3. PICK x \in s : d = k - x
  BY DEF T
<1>4. \A y \in s : k - y \in T
  BY DEF T
<1>5. \A y \in s : x >= y
  <2> TAKE y \in s
  <2>1. x \in 1..k /\ y \in 1..k /\ k - x <= k - y
    BY <1>0, <1>2, <1>3, <1>4
  <2> QED BY <2>1
<1>6. x \in s
  OBVIOUS
<1>7. \E m \in s : \A y \in s : m >= y
  BY <1>5, <1>6
<1> QED BY <1>7 DEF Max

\* A set that reaches k + 1 has it as its greatest.
LEMMA MaxTop ==
    ASSUME NEW k \in Nat, NEW s \in SUBSET (1..(k+1)), k + 1 \in s
    PROVE  Max(s) = k + 1 /\ s \ {Max(s)} \in SUBSET (1..k)
<1>1. k + 1 \in Nat /\ s # {}
  OBVIOUS
<1>2. Max(s) \in s /\ Max(s) >= k + 1
  BY <1>1, MaxIs
<1>3. Max(s) \in 1..(k+1)
  BY <1>2
<1>4. Max(s) = k + 1
  BY <1>2, <1>3
<1>5. ASSUME NEW x \in s \ {k + 1} PROVE x \in 1..k
  <2>1. x \in 1..(k+1) /\ x # k + 1
    OBVIOUS
  <2> QED BY <2>1
<1> QED BY <1>4, <1>5

\* So a function that folds every subset of 1..n exists.
LEMMA Exists ==
    ASSUME NEW ctx, NEW base, NEW seq, NEW n \in Nat
    PROVE  \E g : Unfolds(g, ctx, base, seq, 1..n)
<1> DEFINE C == {k \in Nat : \E g : Unfolds(g, ctx, base, seq, 1..k)}
<1>1. 0 \in C
  <2>1. PICK g : g = [s \in SUBSET (1..0) |-> base]
    OBVIOUS
  <2>2. SUBSET (1..0) = {{}}
    OBVIOUS
  <2>3. g = [s \in SUBSET (1..0) |-> IF s = {} THEN base ELSE Op(ctx, g[s \ {Max(s)}], seq[Max(s)])]
    BY <2>1, <2>2
  <2> QED BY <2>3 DEF Unfolds
<1>2. ASSUME NEW k \in Nat, k \in C PROVE k + 1 \in C
  <2>1. PICK g : Unfolds(g, ctx, base, seq, 1..k)
    BY <1>2
  <2>2. PICK h : h = [s \in SUBSET (1..(k + 1)) |->
                        IF k + 1 \in s THEN Op(ctx, g[s \ {k + 1}], seq[k + 1]) ELSE g[s]]
    OBVIOUS
  <2>3. \A s \in SUBSET (1..k) : h[s] = g[s] /\ s \in SUBSET (1..(k+1))
    BY <2>2
  <2>4. ASSUME NEW s \in SUBSET (1..(k+1))
        PROVE  h[s] = IF s = {} THEN base ELSE Op(ctx, h[s \ {Max(s)}], seq[Max(s)])
    <3>1. CASE k + 1 \in s
      <4>1. Max(s) = k + 1 /\ s \ {Max(s)} \in SUBSET (1..k) /\ s # {}
        BY <3>1, MaxTop
      <4>2. h[s] = Op(ctx, g[s \ {k + 1}], seq[k + 1])
        BY <2>2, <3>1
      <4>3. h[s \ {k + 1}] = g[s \ {k + 1}]
        BY <4>1, <2>3
      <4> QED BY <4>1, <4>2, <4>3
    <3>2. CASE k + 1 \notin s
      <4>1. s \in SUBSET (1..k)
        BY <3>2
      <4>2. h[s] = IF s = {} THEN base ELSE Op(ctx, g[s \ {Max(s)}], seq[Max(s)])
        BY <4>1, <2>1, <2>3 DEF Unfolds
      <4>3. s \ {Max(s)} \in SUBSET (1..k)
        BY <4>1
      <4>4. h[s \ {Max(s)}] = g[s \ {Max(s)}]
        BY <4>3, <2>3
      <4> QED BY <4>2, <4>4
    <3> QED BY <3>1, <3>2
  <2>5. Unfolds(h, ctx, base, seq, 1..(k+1))
    BY <2>2, <2>4 DEF Unfolds
  <2> QED BY <2>5
<1> HIDE DEF C
<1>3. n \in C
  BY <1>1, <1>2, Climb
<1> QED BY <1>3 DEF C

-----------------------------------------------------------------------------
\* The fold, step by step.

\* f[k] is what the first k elements make of base.
Steps(f, ctx, base, seq, n) ==
    /\ DOMAIN f = 0..n
    /\ f[0] = base
    /\ \A k \in 0..(n-1) : f[k + 1] = Op(ctx, f[k], seq[k + 1])

\* A fold over a sequence of n elements is the last of n steps from base: how the
\* models' loops over a list (Kept, BookAll) are reasoned about.
LEMMA FoldSteps ==
    ASSUME NEW ctx, NEW base, NEW seq, NEW n \in Nat, DOMAIN seq = 1..n
    PROVE  \E f : /\ Steps(f, ctx, base, seq, n)
                  /\ Folded(ctx, base, seq) = f[n]
<1>1. PICK g : g = Iter(ctx, base, seq, 1..n)
  OBVIOUS
<1>2. Unfolds(g, ctx, base, seq, 1..n)
  <2>1. PICK h : Unfolds(h, ctx, base, seq, 1..n)
    BY Exists
  <2> QED BY <1>1, <2>1 DEF Iter, Unfolds
<1>3. PICK f : f = [k \in 0..n |-> g[1..k]]
  OBVIOUS
<1>4. f[0] = base
  <2>1. 1..0 = {} /\ {} \in SUBSET (1..n)
    OBVIOUS
  <2>2. g[{}] = base
    BY <1>2, <2>1 DEF Unfolds
  <2> QED BY <1>3, <2>1, <2>2
<1>5. ASSUME NEW k \in 0..(n-1) PROVE f[k + 1] = Op(ctx, f[k], seq[k + 1])
  <2>1. PICK s : s = 1..(k + 1)
    OBVIOUS
  <2>2. s \in SUBSET (1..n) /\ s # {} /\ k \in Nat /\ k + 1 \in s /\ s \in SUBSET (1..(k+1))
    <3>1. k \in Nat /\ k + 1 \in 1..n /\ \A x \in 1..(k+1) : x \in 1..n
      OBVIOUS
    <3> QED BY <2>1, <3>1
  <2>3. Max(s) = k + 1
    BY <2>2, MaxTop
  <2>4. s \ {k + 1} = 1..k
    BY <2>1, <2>2
  <2>5. g[s] = Op(ctx, g[s \ {Max(s)}], seq[Max(s)])
    BY <1>2, <2>2 DEF Unfolds
  <2>6. f[k + 1] = g[s] /\ f[k] = g[1..k]
    BY <1>3, <2>1, <2>2
  <2> QED BY <2>3, <2>4, <2>5, <2>6
<1>6. f[n] = g[1..n]
  BY <1>3
<1>7. Folded(ctx, base, seq) = f[n]
  BY <1>1, <1>6, Same
<1>8. Steps(f, ctx, base, seq, n)
  BY <1>3, <1>4, <1>5 DEF Steps
<1> QED BY <1>7, <1>8
=============================================================================
