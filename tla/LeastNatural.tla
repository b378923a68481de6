---------------------------- MODULE LeastNatural ----------------------------
(***************************************************************************)
(* The least-number principle for sets of naturals, in the form the proofs *)
(* about arrival orders need, and induction and recursion from it.         *)
(***************************************************************************)
EXTENDS FiniteSetTheorems, TLAPS

\* Every non-empty set of naturals has a least element: the interval 0..m is
\* minimal under inclusion among the intervals that end in the set.
LEMMA LeastElement ==
  ASSUME NEW S \in SUBSET Nat, S # {}
  PROVE  \E m \in S : \A n \in S : m <= n
<1> DEFINE T == {0..n : n \in S}
<1>1. T \subseteq FiniteSubsetsOf(Nat) /\ T # {}
  <2>1. ASSUME NEW n \in S PROVE 0..n \in FiniteSubsetsOf(Nat)
    <3>1. IsFiniteSet(0..n)
      BY FS_Interval
    <3> QED BY <3>1 DEF FiniteSubsetsOf
  <2> QED BY <2>1
<1>2. PICK U \in T : \A V \in T : ~ (<<V, U>> \in StrictSubsetOrdering(Nat))
  <2> HIDE DEF T
  <2> QED BY <1>1, FS_StrictSubsetOrderingWellFounded, WFMin
<1>3. PICK m \in S : U = 0..m
  BY <1>2
<1>4. ASSUME NEW n \in S, n < m PROVE FALSE
  <2>1. 0..n \subseteq 0..m /\ 0..n # 0..m
    BY <1>4
  <2>2. 0..n \in T /\ 0..n \subseteq Nat /\ 0..m \subseteq Nat
    OBVIOUS
  <2> QED BY <1>2, <1>3, <2>1, <2>2 DEF StrictSubsetOrdering
<1> QED BY <1>4

\* Every non-empty bounded set of naturals has a greatest element: the one
\* whose distance to the bound is least.
LEMMA GreatestElement ==
  ASSUME NEW b \in Nat, NEW S \in SUBSET (0..b), S # {}
  PROVE  \E m \in S : \A n \in S : n <= m
<1> DEFINE D == {b - n : n \in S}
<1>1. D \in SUBSET Nat /\ D # {}
  <2>1. \A n \in S : b - n \in Nat
    OBVIOUS
  <2>2. PICK n \in S : TRUE
    OBVIOUS
  <2> QED BY <2>1, <2>2
<1>2. PICK d \in D : \A e \in D : d <= e
  <2> HIDE DEF D
  <2> QED BY <1>1, LeastElement
<1>3. PICK m \in S : d = b - m
  OBVIOUS
<1>4. \A n \in S : b - m <= b - n
  BY <1>2, <1>3
<1> QED BY <1>4

\* Induction over the naturals: a set of naturals that has 0 and the successor of
\* each of its elements has them all, since a least one outside has a predecessor.
LEMMA AllNaturals ==
  ASSUME NEW S \in SUBSET Nat, 0 \in S, \A n \in S : n + 1 \in S
  PROVE  S = Nat
<1> SUFFICES ASSUME Nat \ S # {} PROVE FALSE
  OBVIOUS
<1>1. PICK m \in Nat \ S : \A n \in Nat \ S : m <= n
  BY LeastElement
<1>2. m # 0 /\ m - 1 \in Nat /\ m - 1 \in S
  BY <1>1
<1> QED BY <1>1, <1>2

\* Recursion over the naturals, for a step that is a function: g is the beginning,
\* up to n, of the sequence that starts at base and follows step.
Begins(base, step, S, n, g) ==
  /\ g \in [0..n -> S]
  /\ g[0] = base
  /\ \A i \in 0..n : i # n => g[i + 1] = step[<<i + 1, g[i]>>]

\* Every beginning can be continued.
LEMMA BeginningsExist ==
  ASSUME NEW S, NEW base \in S, NEW step \in [Nat \X S -> S], NEW n \in Nat
  PROVE  \E g : Begins(base, step, S, n, g)
<1> DEFINE T == {k \in Nat : \E g : Begins(base, step, S, k, g)}
<1>1. 0 \in T
  <2>1. Begins(base, step, S, 0, [i \in 0..0 |-> base])
    BY DEF Begins
  <2> QED BY <2>1
<1>2. ASSUME NEW k \in T PROVE k + 1 \in T
  <2>1. PICK g : Begins(base, step, S, k, g)
    OBVIOUS
  <2> DEFINE h == [i \in 0..(k + 1) |-> IF i = k + 1 THEN step[<<k + 1, g[k]>>] ELSE g[i]]
  <2>2. h \in [0..(k + 1) -> S]
    BY <2>1 DEF Begins
  <2>3. h[0] = base
    BY <2>1 DEF Begins
  <2>4. ASSUME NEW i \in 0..(k + 1), i # k + 1 PROVE h[i + 1] = step[<<i + 1, h[i]>>]
    <3>1. CASE i = k
      <4>1. h[i] = g[k] /\ h[i + 1] = step[<<k + 1, g[k]>>]
        BY <3>1
      <4> QED BY <3>1, <4>1
    <3>2. CASE i # k
      <4>1. i \in 0..k /\ i + 1 \in 0..k
        BY <2>4, <3>2
      <4>2. h[i] = g[i] /\ h[i + 1] = g[i + 1]
        BY <4>1
      <4> HIDE DEF h
      <4> QED BY <2>1, <3>2, <4>1, <4>2 DEF Begins
    <3> QED BY <3>1, <3>2
  <2>5. Begins(base, step, S, k + 1, h)
    <3> HIDE DEF h
    <3> QED BY <2>2, <2>3, <2>4 DEF Begins
  <2> QED BY <2>5
<1>3. T \in SUBSET Nat
  OBVIOUS
<1>4. T = Nat
  <2> HIDE DEF T
  <2> QED BY <1>1, <1>2, <1>3, AllNaturals
<1> QED BY <1>4

\* So there is the whole sequence.
Follows(base, step, S, f) ==
  /\ f \in [Nat -> S]
  /\ f[0] = base
  /\ \A n \in Nat : f[n + 1] = step[<<n + 1, f[n]>>]

LEMMA PrimitiveRecursion ==
  ASSUME NEW S, NEW base \in S, NEW step \in [Nat \X S -> S]
  PROVE  \E f : Follows(base, step, S, f)
<1>1. ASSUME NEW n \in Nat, NEW g, NEW h,
             Begins(base, step, S, n, g), Begins(base, step, S, n + 1, h)
      PROVE  g[n] = h[n]
  <2> DEFINE T == {i \in Nat : i <= n => g[i] = h[i]}
  <2>1. T \in SUBSET Nat /\ 0 \in T
    BY <1>1 DEF Begins
  <2>2. ASSUME NEW i \in T PROVE i + 1 \in T
    <3>1. CASE i + 1 <= n
      <4>1. g[i] = h[i] /\ i \in 0..n /\ i # n /\ i \in 0..(n + 1) /\ i # n + 1
        BY <3>1
      <4>2. g[i + 1] = step[<<i + 1, g[i]>>] /\ h[i + 1] = step[<<i + 1, h[i]>>]
        BY <1>1, <4>1 DEF Begins
      <4> QED BY <4>1, <4>2
    <3> QED BY <3>1
  <2>3. T = Nat
    <3> HIDE DEF T
    <3> QED BY <2>1, <2>2, AllNaturals
  <2> QED BY <2>3
<1> DEFINE G(n) == CHOOSE g : Begins(base, step, S, n, g)
<1> DEFINE f == [n \in Nat |-> G(n)[n]]
<1>2. ASSUME NEW n \in Nat PROVE Begins(base, step, S, n, G(n))
  BY BeginningsExist
<1> HIDE DEF G
<1>3. f \in [Nat -> S] /\ f[0] = base
  BY <1>2 DEF Begins
<1>4. ASSUME NEW n \in Nat PROVE f[n + 1] = step[<<n + 1, f[n]>>]
  <2>1. Begins(base, step, S, n, G(n)) /\ Begins(base, step, S, n + 1, G(n + 1))
    BY <1>2
  <2>2. G(n)[n] = G(n + 1)[n]
    BY <1>1, <2>1
  <2>3. G(n + 1)[n + 1] = step[<<n + 1, G(n + 1)[n]>>]
    BY <2>1 DEF Begins
  <2> QED BY <2>2, <2>3
<1>5. Follows(base, step, S, f)
  <2> HIDE DEF f
  <2> QED BY <1>3, <1>4 DEF Follows
<1> QED BY <1>5
=============================================================================
