------------------------- MODULE LiveRuntime_proofs -------------------------
(***************************************************************************)
(* What the live runtime guarantees for any calls, texts and bounds,        *)
(* however the futures of its calls are dropped: nothing starts before its  *)
(* records are durable, none of the states arises for which the code has an *)
(* internal error, whatever the agent or the file waits for has an owner,   *)
(* and a shutdown that returns without an error leaves nothing. Each        *)
(* follows from what the runtime may be doing at once: a start, a request,  *)
(* a summary, a batch of tools or a stop, and where its continuation is.    *)
(***************************************************************************)
EXTENDS LiveRuntime, LeastNatural, TLAPS

-----------------------------------------------------------------------------
(* Sequences, and what is kept of one.                                      *)

\* Induction over sequences, for a set of them.
LEMMA AllSequences ==
  ASSUME NEW S, NEW T \in SUBSET Seq(S), <<>> \in T,
         \A s \in T, e \in S : Append(s, e) \in T
  PROVE  T = Seq(S)
<1> DEFINE N == {n \in Nat : \A s \in Seq(S) : Len(s) = n => s \in T}
<1>1. 0 \in N
  OBVIOUS
<1>2. ASSUME NEW n \in N PROVE n + 1 \in N
  <2>1. ASSUME NEW s \in Seq(S), Len(s) = n + 1 PROVE s \in T
    <3> DEFINE r == [i \in 1..n |-> s[i]]
    <3>1. r \in Seq(S) /\ Len(r) = n
      BY <2>1
    <3>2. s[n + 1] \in S
      BY <2>1
    <3>3. s = Append(r, s[n + 1])
      BY <2>1
    <3> HIDE DEF r
    <3> QED BY <3>1, <3>2, <3>3
  <2> QED BY <2>1
<1>3. N = Nat
  <2>1. N \in SUBSET Nat
    OBVIOUS
  <2> HIDE DEF N
  <2> QED BY <1>1, <1>2, <2>1, AllNaturals
<1>4. ASSUME NEW s \in Seq(S) PROVE s \in T
  <2>1. Len(s) \in N
    BY <1>3
  <2> QED BY <2>1
<1> QED BY <1>4

\* What the recursive function of Kept is: one entry after the other.
LEMMA KeptChain ==
  ASSUME NEW S, NEW s \in Seq(S), NEW A
  PROVE  \E k : /\ k[0] = <<>>
                /\ \A n \in 1..Len(s) :
                     k[n] = IF s[n] \in A THEN Append(k[n - 1], s[n]) ELSE k[n - 1]
                /\ \A n \in 0..Len(s) : k[n] \in Seq(S)
                /\ Kept(s, A) = k[Len(s)]
<1> DEFINE Grow(n, u) == IF s[n] \in A THEN Append(u, s[n]) ELSE u
<1> DEFINE grow == [p \in Nat \X Seq(S) |-> IF p[1] \in 1..Len(s) THEN Grow(p[1], p[2]) ELSE p[2]]
<1> DEFINE Def(g) == [n \in 0..Len(s) |-> IF n = 0 THEN <<>> ELSE Grow(n, g[n - 1])]
<1> DEFINE k == CHOOSE g : g = Def(g)
<1>1. grow \in [Nat \X Seq(S) -> Seq(S)]
  OBVIOUS
<1>2. PICK f : Follows(<<>>, grow, Seq(S), f)
  <2>1. <<>> \in Seq(S)
    OBVIOUS
  <2> HIDE DEF grow
  <2> QED BY <1>1, <2>1, PrimitiveRecursion
<1>3. ASSUME NEW n \in 1..Len(s) PROVE f[n] = Grow(n, f[n - 1])
  <2>1. n - 1 \in Nat /\ n = (n - 1) + 1
    OBVIOUS
  <2>2. f[n] = grow[<<n, f[n - 1]>>]
    <3> HIDE DEF grow
    <3> QED BY <1>2, <2>1 DEF Follows
  <2>3. f[n - 1] \in Seq(S)
    BY <1>2, <2>1 DEF Follows
  <2> QED BY <2>1, <2>2, <2>3
<1> DEFINE h == [n \in 0..Len(s) |-> f[n]]
<1>4. h = Def(h)
  <2>1. ASSUME NEW n \in 0..Len(s) PROVE h[n] = IF n = 0 THEN <<>> ELSE Grow(n, h[n - 1])
    <3> HIDE DEF Grow
    <3>1. f[0] = <<>>
      BY <1>2 DEF Follows
    <3>2. n # 0 => n \in 1..Len(s) /\ n - 1 \in 0..Len(s)
      OBVIOUS
    <3> QED BY <1>3, <3>1, <3>2
  <2> HIDE DEF Grow
  <2> QED BY <2>1
<1>5. k = Def(k)
  <2> HIDE DEF h, Def
  <2> QED BY <1>4
<1>6. Kept(s, A) = k[Len(s)]
  BY DEF Kept
<1>7. k[0] = <<>> /\ \A n \in 1..Len(s) : k[n] = Grow(n, k[n - 1])
  <2> HIDE DEF k, Grow
  <2> QED BY <1>5
<1> HIDE DEF k
<1>8. \A n \in 0..Len(s) : k[n] \in Seq(S)
  <2> DEFINE N == {n \in Nat : n <= Len(s) => k[n] \in Seq(S)}
  <2>0. <<>> \in Seq(S)
    OBVIOUS
  <2>1. 0 \in N /\ N \in SUBSET Nat
    BY <1>7, <2>0
  <2>2. ASSUME NEW n \in N PROVE n + 1 \in N
    <3>1. CASE n + 1 <= Len(s)
      <4>1. n + 1 \in 1..Len(s) /\ k[n] \in Seq(S) /\ s[n + 1] \in S
        BY <3>1
      <4>2. k[n + 1] = Grow(n + 1, k[n])
        <5> HIDE DEF Grow
        <5>1. k[n + 1] = Grow(n + 1, k[n + 1 - 1])
          BY <1>7, <4>1
        <5>2. n + 1 - 1 = n
          OBVIOUS
        <5> QED BY <5>1, <5>2
      <4>3. Append(k[n], s[n + 1]) \in Seq(S)
        BY <4>1
      <4>4. k[n + 1] \in Seq(S)
        BY <4>1, <4>2, <4>3
      <4> QED BY <4>4
    <3> QED BY <3>1
  <2>3. N = Nat
    <3> HIDE DEF N
    <3> QED BY <2>1, <2>2, AllNaturals
  <2> QED BY <2>3
<1> QED BY <1>6, <1>7, <1>8

\* Nothing is kept of no entries.
LEMMA KeptEmpty ==
  ASSUME NEW A
  PROVE  Kept(<<>>, A) = <<>>
<1>1. ASSUME NEW s \in Seq({}), Len(s) = 0 PROVE Kept(s, A) = <<>>
  <2>1. PICK k : k[0] = <<>> /\ Kept(s, A) = k[Len(s)]
    BY KeptChain
  <2> QED BY <1>1, <2>1
<1>2. <<>> \in Seq({}) /\ Len(<<>>) = 0
  OBVIOUS
<1> QED BY <1>1, <1>2

\* An entry at the end is kept, or not.
LEMMA KeptAppend ==
  ASSUME NEW S, NEW s \in Seq(S), NEW e \in S, NEW A
  PROVE  Kept(Append(s, e), A) = IF e \in A THEN Append(Kept(s, A), e) ELSE Kept(s, A)
<1> DEFINE t == Append(s, e)
<1>1. /\ t \in Seq(S) /\ Len(s) \in Nat /\ Len(t) = Len(s) + 1
      /\ t[Len(s) + 1] = e /\ \A n \in 1..Len(s) : t[n] = s[n]
  OBVIOUS
<1> HIDE DEF t
<1>2. PICK k : /\ k[0] = <<>>
               /\ \A n \in 1..Len(s) : k[n] = IF s[n] \in A THEN Append(k[n - 1], s[n]) ELSE k[n - 1]
               /\ Kept(s, A) = k[Len(s)]
  BY KeptChain
<1>3. PICK l : /\ l[0] = <<>>
               /\ \A n \in 1..Len(t) : l[n] = IF t[n] \in A THEN Append(l[n - 1], t[n]) ELSE l[n - 1]
               /\ Kept(t, A) = l[Len(t)]
  <2>1. t \in Seq(S)
    BY <1>1
  <2> QED BY <2>1, KeptChain
<1>4. k[Len(s)] = l[Len(s)]
  <2> DEFINE N == {n \in Nat : n <= Len(s) => k[n] = l[n]}
  <2>1. 0 \in N /\ N \in SUBSET Nat
    BY <1>2, <1>3
  <2>2. ASSUME NEW n \in N PROVE n + 1 \in N
    <3>1. CASE n + 1 <= Len(s)
      <4>1. n + 1 \in 1..Len(s) /\ n + 1 \in 1..Len(t) /\ k[n] = l[n] /\ s[n + 1] = t[n + 1]
        BY <1>1, <3>1
      <4>2. /\ k[n + 1] = IF s[n + 1] \in A THEN Append(k[n + 1 - 1], s[n + 1]) ELSE k[n + 1 - 1]
            /\ l[n + 1] = IF t[n + 1] \in A THEN Append(l[n + 1 - 1], t[n + 1]) ELSE l[n + 1 - 1]
        BY <1>2, <1>3, <4>1
      <4>3. n + 1 - 1 = n
        OBVIOUS
      <4> QED BY <4>1, <4>2, <4>3
    <3> QED BY <3>1
  <2>3. N = Nat
    <3> HIDE DEF N
    <3> QED BY <2>1, <2>2, AllNaturals
  <2> QED BY <1>1, <2>3
<1>5. l[Len(s) + 1] = IF e \in A THEN Append(l[Len(s)], e) ELSE l[Len(s)]
  <2>1. Len(s) + 1 \in 1..Len(t) /\ Len(s) + 1 - 1 = Len(s)
    BY <1>1
  <2> QED BY <1>1, <1>3, <2>1
<1> QED BY <1>1, <1>2, <1>3, <1>4, <1>5 DEF t

\* Joining a longer sequence is joining it and then its last entry.
LEMMA ConcatAppend ==
  ASSUME NEW S, NEW a \in Seq(S), NEW b \in Seq(S), NEW d \in S
  PROVE  a \o Append(b, d) = Append(a \o b, d)
OBVIOUS

\* What is kept are entries, of those to keep, and no more than there were.
LEMMA KeptTyped ==
  ASSUME NEW S, NEW s \in Seq(S), NEW A
  PROVE  Kept(s, A) \in Seq(S \cap A) /\ Len(Kept(s, A)) <= Len(s)
<1> DEFINE T == {u \in Seq(S) : Kept(u, A) \in Seq(S \cap A) /\ Len(Kept(u, A)) <= Len(u)}
<1>1. <<>> \in T
  <2>1. Kept(<<>>, A) = <<>> /\ <<>> \in Seq(S) /\ <<>> \in Seq(S \cap A) /\ Len(<<>>) = 0
    BY KeptEmpty
  <2>2. Kept(<<>>, A) \in Seq(S \cap A) /\ Len(Kept(<<>>, A)) <= Len(<<>>)
    <3>1. Len(Kept(<<>>, A)) = 0
      BY <2>1
    <3>2. Kept(<<>>, A) \in Seq(S \cap A)
      BY Zenon, <2>1
    <3>3. Len(<<>>) = 0
      OBVIOUS
    <3> QED BY <3>1, <3>2, <3>3
  <2> QED BY <2>1, <2>2
<1>2. ASSUME NEW u \in T, NEW e \in S PROVE Append(u, e) \in T
  <2>1. Kept(Append(u, e), A) = IF e \in A THEN Append(Kept(u, A), e) ELSE Kept(u, A)
    BY KeptAppend
  <2>2. Append(u, e) \in Seq(S) /\ Len(Append(u, e)) = Len(u) + 1
    OBVIOUS
  <2>3. e \in A => /\ Append(Kept(u, A), e) \in Seq(S \cap A)
                   /\ Len(Append(Kept(u, A), e)) = Len(Kept(u, A)) + 1
    OBVIOUS
  <2>4. Len(Kept(u, A)) \in Nat /\ Len(u) \in Nat /\ Len(Kept(u, A)) <= Len(u)
        /\ Kept(u, A) \in Seq(S \cap A)
    OBVIOUS
  <2>5. /\ Kept(Append(u, e), A) \in Seq(S \cap A)
        /\ Len(Kept(Append(u, e), A)) <= Len(Append(u, e))
    <3>1. CASE e \in A
      <4>1. Len(Kept(Append(u, e), A)) = Len(Kept(u, A)) + 1
        BY <2>1, <2>3, <3>1
      <4> QED BY <2>1, <2>2, <2>3, <2>4, <3>1, <4>1
    <3>2. CASE e \notin A
      <4>1. Kept(Append(u, e), A) = Kept(u, A)
        BY <2>1, <3>2
      <4> QED BY <2>2, <2>4, <4>1
    <3> QED BY <3>1, <3>2
  <2> QED BY <2>2, <2>5
<1>3. T = Seq(S)
  <2>1. T \in SUBSET Seq(S)
    OBVIOUS
  <2> HIDE DEF T
  <2> QED BY <1>1, <1>2, <2>1, AllSequences
<1> QED BY <1>3

\* What is kept of one entry.
LEMMA KeptOne ==
  ASSUME NEW S, NEW e \in S, NEW A
  PROVE  Kept(<<e>>, A) = IF e \in A THEN <<e>> ELSE <<>>
<1>1. <<e>> = Append(<<>>, e) /\ <<>> \in Seq(S)
  OBVIOUS
<1>2. Kept(Append(<<>>, e), A) = IF e \in A THEN Append(Kept(<<>>, A), e) ELSE Kept(<<>>, A)
  BY <1>1, KeptAppend
<1> QED BY <1>1, <1>2, KeptEmpty

\* What is kept of two sequences one after the other.
LEMMA KeptConcat ==
  ASSUME NEW S, NEW s \in Seq(S), NEW t \in Seq(S), NEW A
  PROVE  Kept(s \o t, A) = Kept(s, A) \o Kept(t, A)
<1> DEFINE T == {u \in Seq(S) : Kept(s \o u, A) = Kept(s, A) \o Kept(u, A)}
<1>0. Kept(s, A) \in Seq(S \cap A)
  BY KeptTyped
<1>1. <<>> \in T
  <2>1. Kept(<<>>, A) = <<>> /\ <<>> \in Seq(S) /\ s \o <<>> = s
    BY KeptEmpty
  <2>2. Kept(s, A) \o <<>> = Kept(s, A)
    BY <1>0
  <2> QED BY <2>1, <2>2
<1>2. ASSUME NEW u \in T, NEW e \in S PROVE Append(u, e) \in T
  <2>1. Kept(Append(u, e), A) = IF e \in A THEN Append(Kept(u, A), e) ELSE Kept(u, A)
    BY KeptAppend
  <2>2. Append(u, e) \in Seq(S) /\ s \o Append(u, e) = Append(s \o u, e) /\ s \o u \in Seq(S)
    OBVIOUS
  <2>3. Kept(Append(s \o u, e), A) = IF e \in A THEN Append(Kept(s \o u, A), e) ELSE Kept(s \o u, A)
    <3> DEFINE z == s \o u
    <3>1. z \in Seq(S)
      BY <2>2
    <3> HIDE DEF z
    <3>2. Kept(Append(z, e), A) = IF e \in A THEN Append(Kept(z, A), e) ELSE Kept(z, A)
      BY <3>1, KeptAppend
    <3> QED BY <3>2 DEF z
  <2>4. Kept(u, A) \in Seq(S \cap A)
    BY KeptTyped
  <2>5. e \in A => Append(Kept(s, A) \o Kept(u, A), e) = Kept(s, A) \o Append(Kept(u, A), e)
    <3> DEFINE a == Kept(s, A)   b == Kept(u, A)
    <3>1. a \in Seq(S \cap A) /\ b \in Seq(S \cap A)
      BY <1>0, <2>4
    <3> HIDE DEF a, b
    <3>2. e \in A => a \o Append(b, e) = Append(a \o b, e)
      BY <3>1, ConcatAppend
    <3> QED BY <3>2 DEF a, b
  <2>6. Kept(s \o u, A) = Kept(s, A) \o Kept(u, A)
    OBVIOUS
  <2>7. Kept(s \o Append(u, e), A) = Kept(s, A) \o Kept(Append(u, e), A)
    BY <2>1, <2>2, <2>3, <2>5, <2>6
  <2> QED BY <2>2, <2>7
<1>3. T = Seq(S)
  <2>1. T \in SUBSET Seq(S)
    OBVIOUS
  <2> HIDE DEF T
  <2> QED BY <1>1, <1>2, <2>1, AllSequences
<1> QED BY <1>3

\* Keeping twice is keeping what both keep.
LEMMA KeptKept ==
  ASSUME NEW S, NEW s \in Seq(S), NEW A, NEW B
  PROVE  Kept(Kept(s, A), B) = Kept(s, A \cap B)
<1> DEFINE T == {u \in Seq(S) : Kept(Kept(u, A), B) = Kept(u, A \cap B)}
<1>1. <<>> \in T
  <2>1. Kept(<<>>, A) = <<>> /\ Kept(<<>>, B) = <<>> /\ Kept(<<>>, A \cap B) = <<>> /\ <<>> \in Seq(S)
    BY KeptEmpty
  <2> QED BY <2>1
<1>2. ASSUME NEW u \in T, NEW e \in S PROVE Append(u, e) \in T
  <2>1. /\ Kept(Append(u, e), A) = IF e \in A THEN Append(Kept(u, A), e) ELSE Kept(u, A)
        /\ Kept(Append(u, e), A \cap B) =
             IF e \in A \cap B THEN Append(Kept(u, A \cap B), e) ELSE Kept(u, A \cap B)
    BY KeptAppend
  <2>2. Kept(u, A) \in Seq(S \cap A)
    BY KeptTyped
  <2>3. e \in A => Kept(Append(Kept(u, A), e), B) =
                     IF e \in B THEN Append(Kept(Kept(u, A), B), e) ELSE Kept(Kept(u, A), B)
    <3> DEFINE z == Kept(u, A)
    <3>1. z \in Seq(S \cap A) /\ (e \in A => e \in S \cap A)
      BY <2>2
    <3> HIDE DEF z
    <3>2. ASSUME e \in A
          PROVE  Kept(Append(z, e), B) = IF e \in B THEN Append(Kept(z, B), e) ELSE Kept(z, B)
      <4> DEFINE R == S \cap A
      <4>1. z \in Seq(R) /\ e \in R
        BY <3>1, <3>2
      <4> HIDE DEF R
      <4> QED BY <4>1, KeptAppend
    <3> QED BY <3>2 DEF z
  <2>4. Kept(Kept(u, A), B) = Kept(u, A \cap B) /\ Append(u, e) \in Seq(S)
    OBVIOUS
  <2>5. Kept(Kept(Append(u, e), A), B) = Kept(Append(u, e), A \cap B)
    <3>1. CASE e \in A /\ e \in B
      <4>1. Kept(Kept(Append(u, e), A), B) = Append(Kept(Kept(u, A), B), e)
        BY <2>1, <2>3, <3>1
      <4>2. Kept(Append(u, e), A \cap B) = Append(Kept(u, A \cap B), e)
        BY <2>1, <3>1
      <4> QED BY <2>4, <4>1, <4>2
    <3>2. CASE e \in A /\ e \notin B
      <4>1. Kept(Kept(Append(u, e), A), B) = Kept(Kept(u, A), B)
        BY <2>1, <2>3, <3>2
      <4>2. Kept(Append(u, e), A \cap B) = Kept(u, A \cap B)
        BY <2>1, <3>2
      <4> QED BY <2>4, <4>1, <4>2
    <3>3. CASE e \notin A
      <4>1. Kept(Kept(Append(u, e), A), B) = Kept(Kept(u, A), B)
        BY <2>1, <3>3
      <4>2. Kept(Append(u, e), A \cap B) = Kept(u, A \cap B)
        BY <2>1, <3>3
      <4> QED BY <2>4, <4>1, <4>2
    <3> QED BY <3>1, <3>2, <3>3
  <2> QED BY <2>4, <2>5
<1>3. T = Seq(S)
  <2>1. T \in SUBSET Seq(S)
    OBVIOUS
  <2> HIDE DEF T
  <2> QED BY <1>1, <1>2, <2>1, AllSequences
<1> QED BY <1>3

\* All is kept where all is to be kept.
LEMMA KeptAll ==
  ASSUME NEW S, NEW s \in Seq(S), NEW A, S \subseteq A
  PROVE  Kept(s, A) = s
<1> DEFINE T == {u \in Seq(S) : Kept(u, A) = u}
<1>1. <<>> \in T
  <2>1. Kept(<<>>, A) = <<>> /\ <<>> \in Seq(S)
    BY KeptEmpty
  <2> QED BY <2>1
<1>2. ASSUME NEW u \in T, NEW e \in S PROVE Append(u, e) \in T
  <2>1. Kept(Append(u, e), A) = IF e \in A THEN Append(Kept(u, A), e) ELSE Kept(u, A)
    BY KeptAppend
  <2>2. Append(u, e) \in Seq(S) /\ Kept(u, A) = u /\ e \in A
    OBVIOUS
  <2> QED BY <2>1, <2>2
<1>3. T = Seq(S)
  <2>1. T \in SUBSET Seq(S)
    OBVIOUS
  <2> HIDE DEF T
  <2> QED BY <1>1, <1>2, <2>1, AllSequences
<1> QED BY <1>3

\* Nothing is kept where nothing is to be kept.
LEMMA KeptNone ==
  ASSUME NEW S, NEW s \in Seq(S), NEW A, S \cap A = {}
  PROVE  Kept(s, A) = <<>>
<1>1. Kept(s, A) \in Seq({})
  BY KeptTyped
<1>2. ASSUME NEW u \in Seq({}) PROVE u = <<>>
  <2>1. Len(u) = 0
    <3> SUFFICES ASSUME Len(u) # 0 PROVE FALSE
      OBVIOUS
    <3>1. Len(u) \in Nat /\ 1 \in 1..Len(u)
      OBVIOUS
    <3>2. u[1] \in {}
      BY <3>1
    <3> QED BY <3>2
  <2> QED BY <2>1
<1> QED BY <1>1, <1>2

\* How many entries of two kinds there are.
LEMMA KeptCounts ==
  ASSUME NEW S, NEW s \in Seq(S), NEW A, NEW B, A \cap B = {}
  PROVE  Len(Kept(s, A \cup B)) = Len(Kept(s, A)) + Len(Kept(s, B))
<1> DEFINE T == {u \in Seq(S) : Len(Kept(u, A \cup B)) = Len(Kept(u, A)) + Len(Kept(u, B))}
<1>1. <<>> \in T
  <2>1. /\ Kept(<<>>, A) = <<>> /\ Kept(<<>>, B) = <<>> /\ Kept(<<>>, A \cup B) = <<>>
        /\ <<>> \in Seq(S) /\ Len(<<>>) = 0
    BY KeptEmpty
  <2> QED BY <2>1
<1>2. ASSUME NEW u \in T, NEW e \in S PROVE Append(u, e) \in T
  <2>1. ASSUME NEW D
        PROVE  /\ Len(Kept(Append(u, e), D)) = IF e \in D THEN Len(Kept(u, D)) + 1 ELSE Len(Kept(u, D))
               /\ Len(Kept(u, D)) \in Nat
    <3>1. Kept(Append(u, e), D) = IF e \in D THEN Append(Kept(u, D), e) ELSE Kept(u, D)
      BY KeptAppend
    <3>2. Kept(u, D) \in Seq(S \cap D)
      BY KeptTyped
    <3> QED BY <3>1, <3>2
  <2>2. Append(u, e) \in Seq(S) /\ Len(Kept(u, A \cup B)) = Len(Kept(u, A)) + Len(Kept(u, B))
    OBVIOUS
  <2>3. Len(Kept(Append(u, e), A \cup B)) = Len(Kept(Append(u, e), A)) + Len(Kept(Append(u, e), B))
    <3> DEFINE L(D) == Len(Kept(u, D))   M(D) == Len(Kept(Append(u, e), D))
    <3>1. \A D \in {A, B, A \cup B} : M(D) = (IF e \in D THEN L(D) + 1 ELSE L(D)) /\ L(D) \in Nat
      BY <2>1
    <3>2. L(A \cup B) = L(A) + L(B)
      BY <2>2
    <3>3. ~(e \in A /\ e \in B)
      OBVIOUS
    <3> HIDE DEF L, M
    <3>4. M(A \cup B) = M(A) + M(B)
      BY <3>1, <3>2, <3>3
    <3> QED BY <3>4 DEF M
  <2> QED BY <2>2, <2>3
<1>3. T = Seq(S)
  <2>1. T \in SUBSET Seq(S)
    OBVIOUS
  <2> HIDE DEF T
  <2> QED BY <1>1, <1>2, <2>1, AllSequences
<1> QED BY <1>3

\* What is kept stands in the order it stood in, and every entry of the kind is kept.
LEMMA KeptPlaces ==
  ASSUME NEW S, NEW s \in Seq(S), NEW A
  PROVE  /\ \A i, j \in DOMAIN Kept(s, A) : i < j =>
              \E m, n \in DOMAIN s : m < n /\ Kept(s, A)[i] = s[m] /\ Kept(s, A)[j] = s[n]
         /\ \A i \in DOMAIN Kept(s, A) : Kept(s, A)[i] \in A /\ \E m \in DOMAIN s : Kept(s, A)[i] = s[m]
         /\ \A m \in DOMAIN s : s[m] \in A => \E i \in DOMAIN Kept(s, A) : Kept(s, A)[i] = s[m]
<1> DEFINE Ordered(u, v) ==
             \A i, j \in 1..Len(v) : i < j => \E m, n \in 1..Len(u) : m < n /\ v[i] = u[m] /\ v[j] = u[n]
           Among(u, v) == \A i \in 1..Len(v) : v[i] \in A /\ \E m \in 1..Len(u) : v[i] = u[m]
           Has(u, v) == \A m \in 1..Len(u) : u[m] \in A => \E i \in 1..Len(v) : v[i] = u[m]
           Good(u, v) == Ordered(u, v) /\ Among(u, v) /\ Has(u, v)
           T == {u \in Seq(S) : Good(u, Kept(u, A))}
<1>1. <<>> \in T
  <2>1. Kept(<<>>, A) = <<>> /\ <<>> \in Seq(S) /\ Len(<<>>) = 0
    BY KeptEmpty
  <2>2. Good(<<>>, <<>>)
    BY <2>1
  <2> HIDE DEF Good
  <2> QED BY <2>1, <2>2
<1>2. ASSUME NEW u \in T, NEW e \in S PROVE Append(u, e) \in T
  <2> DEFINE v == Kept(u, A)   w == Append(u, e)
  <2>1. Kept(w, A) = IF e \in A THEN Append(v, e) ELSE v
    BY KeptAppend
  <2>2. w \in Seq(S) /\ Len(w) = Len(u) + 1 /\ w[Len(u) + 1] = e /\ Len(u) \in Nat
        /\ \A i \in 1..Len(u) : w[i] = u[i]
    OBVIOUS
  <2>3. v \in Seq(S)
    <3>1. v \in Seq(S \cap A)
      BY KeptTyped
    <3> HIDE DEF v
    <3> QED BY <3>1
  <2>4. Good(u, v)
    OBVIOUS
  <2> DEFINE x == IF e \in A THEN Append(v, e) ELSE v
  <2>5. /\ e \in A => Len(x) = Len(v) + 1 /\ x[Len(v) + 1] = e /\ \A i \in 1..Len(v) : x[i] = v[i]
        /\ e \notin A => x = v
        /\ Len(v) \in Nat
    <3> HIDE DEF v
    <3> QED BY <2>3
  <2> HIDE DEF w, v, x
  <2>6. Ordered(w, x)
    <3> SUFFICES ASSUME NEW i \in 1..Len(x), NEW j \in 1..Len(x), i < j
                 PROVE  \E m, n \in 1..Len(w) : m < n /\ x[i] = w[m] /\ x[j] = w[n]
      OBVIOUS
    <3>1. CASE j \in 1..Len(v)
      <4>1. i \in 1..Len(v) /\ x[i] = v[i] /\ x[j] = v[j]
        BY <2>5, <3>1
      <4>2. PICK m \in 1..Len(u), n \in 1..Len(u) : m < n /\ v[i] = u[m] /\ v[j] = u[n]
        BY <2>4, <3>1, <4>1
      <4> QED BY <2>2, <4>1, <4>2
    <3>2. CASE j \notin 1..Len(v)
      <4>1. e \in A /\ j = Len(v) + 1 /\ i \in 1..Len(v) /\ x[i] = v[i] /\ x[j] = e
        BY <2>5, <3>2
      <4>2. PICK m \in 1..Len(u) : v[i] = u[m]
        BY <2>4, <4>1
      <4>3. m \in 1..Len(w) /\ Len(u) + 1 \in 1..Len(w) /\ m < Len(u) + 1
        BY <2>2
      <4>4. x[i] = w[m] /\ x[j] = w[Len(u) + 1]
        BY <2>2, <4>1, <4>2
      <4> QED BY <4>3, <4>4
    <3> QED BY <3>1, <3>2
  <2>7. Among(w, x)
    <3> SUFFICES ASSUME NEW i \in 1..Len(x)
                 PROVE  x[i] \in A /\ \E m \in 1..Len(w) : x[i] = w[m]
      OBVIOUS
    <3>1. CASE i \in 1..Len(v)
      <4>1. x[i] = v[i] /\ v[i] \in A
        BY <2>4, <2>5, <3>1
      <4>2. PICK m \in 1..Len(u) : v[i] = u[m]
        BY <2>4, <3>1
      <4> QED BY <2>2, <4>1, <4>2
    <3>2. CASE i \notin 1..Len(v)
      <4>1. e \in A /\ x[i] = e
        BY <2>5, <3>2
      <4>2. Len(u) + 1 \in 1..Len(w)
        BY <2>2
      <4> QED BY <2>2, <4>1, <4>2
    <3> QED BY <3>1, <3>2
  <2>8. Has(w, x)
    <3> SUFFICES ASSUME NEW m \in 1..Len(w), w[m] \in A
                 PROVE  \E i \in 1..Len(x) : x[i] = w[m]
      OBVIOUS
    <3>1. CASE m \in 1..Len(u)
      <4>1. PICK i \in 1..Len(v) : v[i] = u[m]
        BY <2>2, <2>4, <3>1
      <4>2. i \in 1..Len(x) /\ x[i] = v[i]
        BY <2>5
      <4> QED BY <2>2, <3>1, <4>1, <4>2
    <3>2. CASE m \notin 1..Len(u)
      <4>1. w[m] = e /\ e \in A
        BY <2>2, <3>2
      <4>2. Len(v) + 1 \in 1..Len(x) /\ x[Len(v) + 1] = e
        BY <2>5, <4>1
      <4> QED BY <4>1, <4>2
    <3> QED BY <3>1, <3>2
  <2>9. Good(w, Kept(w, A))
    <3>1. Kept(w, A) = x
      BY <2>1 DEF x, w, v
    <3> QED BY <2>6, <2>7, <2>8, <3>1
  <2> HIDE DEF Good
  <2> QED BY <2>2, <2>9 DEF w
<1>3. T = Seq(S)
  <2>1. T \in SUBSET Seq(S)
    OBVIOUS
  <2> HIDE DEF T
  <2> QED BY <1>1, <1>2, <2>1, AllSequences
<1>4. Good(s, Kept(s, A))
  <2> HIDE DEF Good
  <2> QED BY <1>3
<1> DEFINE w == Kept(s, A)
<1>5. DOMAIN s = 1..Len(s) /\ DOMAIN w = 1..Len(w)
  <2>1. w \in Seq(S \cap A)
    BY KeptTyped
  <2> HIDE DEF w
  <2> QED BY <2>1
<1>6. Good(s, w)
  BY <1>4
<1> HIDE DEF w
<1>7. /\ \A i, j \in DOMAIN w : i < j => \E m, n \in DOMAIN s : m < n /\ w[i] = s[m] /\ w[j] = s[n]
      /\ \A i \in DOMAIN w : w[i] \in A /\ \E m \in DOMAIN s : w[i] = s[m]
      /\ \A m \in DOMAIN s : s[m] \in A => \E i \in DOMAIN w : w[i] = s[m]
  <2>1. Ordered(s, w) /\ Among(s, w) /\ Has(s, w)
    BY <1>6
  <2>2. \A i, j \in DOMAIN w : i < j => \E m, n \in DOMAIN s : m < n /\ w[i] = s[m] /\ w[j] = s[n]
    <3> SUFFICES ASSUME NEW i \in DOMAIN w, NEW j \in DOMAIN w, i < j
                 PROVE  \E m, n \in DOMAIN s : m < n /\ w[i] = s[m] /\ w[j] = s[n]
      OBVIOUS
    <3>1. PICK m \in 1..Len(s), n \in 1..Len(s) : m < n /\ w[i] = s[m] /\ w[j] = s[n]
      BY <1>5, <2>1
    <3> QED BY <1>5, <3>1
  <2>3. \A i \in DOMAIN w : w[i] \in A /\ \E m \in DOMAIN s : w[i] = s[m]
    BY <1>5, <2>1
  <2>4. \A m \in DOMAIN s : s[m] \in A => \E i \in DOMAIN w : w[i] = s[m]
    BY <1>5, <2>1
  <2> QED BY <2>2, <2>3, <2>4
<1> QED BY <1>7 DEF w

\* One entry after the others.
LEMMA KeptHead ==
  ASSUME NEW S, NEW s \in Seq(S), s # <<>>, NEW A
  PROVE  Len(Kept(s, A)) = IF Head(s) \in A THEN Len(Kept(Tail(s), A)) + 1 ELSE Len(Kept(Tail(s), A))
<1>1. s = <<Head(s)>> \o Tail(s) /\ Head(s) \in S /\ Tail(s) \in Seq(S) /\ <<Head(s)>> \in Seq(S)
  OBVIOUS
<1>2. Kept(<<Head(s)>> \o Tail(s), A) = Kept(<<Head(s)>>, A) \o Kept(Tail(s), A)
  <2> DEFINE h == <<Head(s)>>   r == Tail(s)
  <2>1. h \in Seq(S) /\ r \in Seq(S)
    BY <1>1
  <2> HIDE DEF h, r
  <2>2. Kept(h \o r, A) = Kept(h, A) \o Kept(r, A)
    BY <2>1, KeptConcat
  <2> QED BY <2>2 DEF h, r
<1>3. Kept(<<Head(s)>>, A) = IF Head(s) \in A THEN <<Head(s)>> ELSE <<>>
  BY <1>1, KeptOne
<1>4. Kept(Tail(s), A) \in Seq(S \cap A)
  BY <1>1, KeptTyped
<1>5. CASE Head(s) \in A
  <2>1. Kept(s, A) = <<Head(s)>> \o Kept(Tail(s), A)
    BY <1>1, <1>2, <1>3, <1>5
  <2>2. <<Head(s)>> \in Seq(S \cap A) /\ Len(<<Head(s)>>) = 1
    BY <1>1, <1>5
  <2> QED BY <1>4, <1>5, <2>1, <2>2
<1>6. CASE Head(s) \notin A
  <2>1. Kept(s, A) = <<>> \o Kept(Tail(s), A)
    BY <1>1, <1>2, <1>3, <1>6
  <2>2. <<>> \o Kept(Tail(s), A) = Kept(Tail(s), A)
    BY <1>4
  <2> QED BY <1>6, <2>1, <2>2
<1> QED BY <1>5, <1>6
-----------------------------------------------------------------------------
(* Types.                                                                   *)

Facts ==
  {Said(t) : t \in Texts} \cup {Opened(n) : n \in 0..MaxTexts} \cup {Audited(c) : c \in Calls}
  \cup {Attempt("model", s) : s \in Steps} \cup {Attempt("summary", s) : s \in Steps}
Reactions ==
  [adds : SUBSET Facts, clears : SUBSET Facts, effect : {"none", "call", "admit", "run"},
   calls : SUBSET Calls, back : Seq(Texts)]
Thens ==
  {"none", "StartModel", "StartCompaction", "SettleModel", "FinishCompaction",
   "PublishCompaction", "CompleteCompactionFailure", "Interrupt", "Shutdown"}
Commits ==
  [written : {"none", "no", "ok", "refused", "unknown"}, reaction : Reactions,
   rejected : Seq(Texts), then : Thens]
Phases == {"idle", "streaming", "working"}
Starts == [step : Steps, cancelled : BOOLEAN]
Outcomes == {"none", "stopped", "calls", "failed", "overflow", "abnormal", "cancelled"}
Models ==
  [step : Steps, settlement : {"none", "running", "ended"}, outcome : Outcomes,
   delivered : BOOLEAN]
Summaries ==
  [phase : {"none", "authorizing", "running", "finishing", "publishing", "failing"},
   continuation : {"none", "model", "requested", "cancelled"},
   trigger : {"none", "soft", "hard", "context"}, step : Steps, complete : BOOLEAN,
   source : Phases \X Steps, requested : BOOLEAN]
Budgets == [turn : 0..MaxTexts, summaries : 0..MaxSummaries, recovered : BOOLEAN]
Preparations == [text : 0..MaxTexts, cancelled : BOOLEAN]

AgentTyped ==
  /\ phase \in Phases /\ step \in Steps
  /\ slot \in [Calls -> {"none", "admission", "running", "finished"}]
  /\ queue \in Seq(Texts)
FileTyped ==
  /\ disk \subseteq Facts /\ journal \in {"open", "refused", "unknown"}
  /\ commit \in Commits /\ ((commit.written = "none") <=> (commit = NoCommit))
  /\ after \in Thens \cup {"FailCompaction"}
InputTyped ==
  /\ pending \in Seq(Inputs) /\ returned \in Seq(Texts)
  /\ preparing \in Preparations /\ (preparing.text = 0 => preparing = NoPreparation)
  /\ nextText \in 1..(MaxTexts + 1)
OwnerTyped ==
  /\ starting \in Starts /\ (starting.step = NoStep => starting = NoStart)
  /\ deferred \in Steps /\ failing \in Steps
  /\ active \in Models /\ ((active.settlement = "none") <=> (active = NoModel))
  /\ compaction \in Summaries /\ ((compaction.phase = "none") <=> (compaction = NoCompaction))
  /\ (compaction.continuation = "none") <=> (compaction = NoCompaction)
  /\ spent \in Budgets
CallTyped ==
  /\ tools \in [Calls -> {"none", "admission", "execution"}]
  /\ shutdown \in {"open", "requested", "settling"}
  /\ call \in {"none", "submit", "update", "compact", "shutdown"}
  /\ error \in {"none", "shutting_down", "queue_full", "journal", "provider"}
  /\ ended \in {"no", "clean", "failed"} /\ unanswered \subseteq Calls \cup Steps

Typed == AgentTyped /\ FileTyped /\ InputTyped /\ OwnerTyped /\ CallTyped

-----------------------------------------------------------------------------
(* The inductive invariant. What holds in every state:                      *)

\* An error belongs to the call that returns it, and a failed journal takes no commit.
CallInv ==
  /\ error # "none" => call # "none" /\ commit = NoCommit
  /\ error = "shutting_down" => shutdown # "open"
  /\ journal # "open" => commit = NoCommit
  /\ shutdown # "open" => call \in {"none", "shutdown"}
  /\ call = "shutdown" => shutdown # "open"
  /\ ended # "no" => call = "none" /\ shutdown = "settling" /\ commit = NoCommit

\* The agent: only a batch has slots and an open call, only an open turn has a queue.
AgentInv ==
  /\ phase # "working" => \A c \in Calls : slot[c] = "none"
  /\ phase = "working" => \E c \in Calls : Unsettled(c)
  /\ phase = "idle" => queue = <<>>
  /\ phase # "idle" => step # NoStep

Copies(e) == Len(Kept(pending, {e}))

\* The pending queue: room for what may be added, turns for the texts in it, a result at most
\* once and never behind an interrupt, and under a shutdown no text that has to be prepared.
QueueInv ==
  /\ Len(pending) <= Capacity + 2
  /\ Len(Kept(pending, ResultInputs)) <= Capacity
  /\ preparing # NoPreparation => Len(pending) <= Capacity + 1
  /\ step[1] + Len(queue) + Len(Kept(pending, TextInputs)) + (IF preparing = NoPreparation THEN 0 ELSE 1)
       < nextText
  /\ \A c \in Calls : Copies(Finished(c)) <= 1
  /\ \A i, j \in DOMAIN pending : i < j /\ pending[i] = Interrupted => pending[j] \notin ResultInputs
  /\ shutdown # "open" =>
       /\ preparing = NoPreparation
       /\ \A i \in DOMAIN pending : pending[i] \notin SkillInputs

\* What is under way is in the file, and no commit takes it back.
DurableInv ==
  /\ active.settlement = "running" =>
       /\ Attempt("model", active.step) \in disk
       /\ \A s \in Steps : Attempt("model", s) \notin commit.reaction.clears
  /\ compaction.phase = "running" =>
       /\ Attempt("summary", compaction.step) \in disk
       /\ \A s \in Steps : Attempt("summary", s) \notin commit.reaction.clears
  /\ \A c \in Calls : tools[c] = "execution" /\ slot[c] = "running" =>
       Audited(c) \in disk /\ Audited(c) \notin commit.reaction.clears

\* With a failed journal, a request that is over waits for the stop that joined it.
SettledInv ==
  journal # "open" /\ active.settlement = "ended" /\ call = "none" => after \in Stops

EndInv ==
  ended = "clean" =>
    /\ phase = "idle" /\ queue = <<>> /\ journal = "open"
    /\ active = NoModel /\ compaction = NoCompaction /\ starting = NoStart /\ ~ToolsBusy
    /\ \A i \in DOMAIN pending : pending[i] \notin TextInputs
    /\ \A n \in Texts : Opened(n) \notin disk
    /\ \A s \in Steps : /\ Attempt("model", s) \in disk => s \in unanswered
                        /\ Attempt("summary", s) \notin disk

Steady ==
  Typed /\ CallInv /\ AgentInv /\ QueueInv /\ DurableInv /\ SettledInv /\ EndInv

-----------------------------------------------------------------------------
(* What holds while the journal takes records and the runtime has not ended: *)

Due(k) == commit.then = k \/ after = k
StopDue == Due("Interrupt") \/ Due("Shutdown")
Stopped == after = "Interrupt" \/ after = "Shutdown"

\* Whatever has begun has its continuation, as what the commit is followed by or as what is next.
DueInv ==
  /\ (starting # NoStart) <=> Due("StartModel")
  /\ (compaction.phase = "authorizing") <=> Due("StartCompaction")
  /\ (compaction.phase = "finishing") <=> Due("FinishCompaction")
  /\ (compaction.phase = "publishing") <=> Due("PublishCompaction")
  /\ compaction.phase = "failing" => Due("CompleteCompactionFailure")
  /\ Due("CompleteCompactionFailure") => compaction.phase \in {"none", "failing"} /\ phase = "idle"
  /\ (failing # NoStep) <=> (after = "FailCompaction")
  /\ StopDue => phase = "idle"
  /\ Due("Shutdown") => shutdown # "open"
  /\ active.settlement = "ended" /\ ~active.delivered => Due("SettleModel") \/ Stopped
  /\ active.delivered => active.settlement = "ended" /\ (after = "SettleModel" \/ Stopped)
  /\ Due("SettleModel") => active.settlement = "ended"
  /\ active.outcome = "cancelled" => Stopped
  /\ active.outcome = "overflow" /\ ~active.delivered =>
       active.settlement = "ended" /\ after # "Interrupt"
  /\ error = "provider" => phase = "idle"

\* What a commit may be followed by, and what it may come before.
CommitInv ==
  commit # NoCommit =>
    /\ after \in {"none", "SettleModel", "Interrupt", "Shutdown"}
    /\ commit.then # "none" => after = "none" \/ (Stopped /\ commit.then = "FinishCompaction")
    /\ after = "SettleModel" => active.delivered
    /\ Stopped => commit.reaction.effect = "none"
    /\ commit.reaction.effect # "none" => commit.then = "none"
    /\ commit.reaction.effect \in {"none", "call"} => commit.reaction.calls = {}
    /\ deferred = NoStep /\ failing = NoStep

\* The runtime does one thing at a time; only a request that is over may still be released
\* while the turn goes on.
SoloInv ==
  /\ starting # NoStart =>
       /\ active = NoModel /\ compaction = NoCompaction /\ deferred = NoStep /\ failing = NoStep
       /\ ~ToolsBusy /\ Streams(starting.step)
  /\ active # NoModel =>
       /\ compaction = NoCompaction /\ failing = NoStep
       /\ ~active.delivered =>
            /\ deferred = NoStep /\ ~ToolsBusy
            /\ Streams(active.step) \/ (phase = "idle" /\ StopDue)
  /\ compaction # NoCompaction => deferred = NoStep /\ failing = NoStep /\ ~ToolsBusy
  /\ deferred # NoStep =>
       /\ failing = NoStep /\ ~ToolsBusy /\ Streams(deferred)
       /\ \/ active.delivered /\ after = "SettleModel"
          \/ active = NoModel /\ after = "none"
  /\ failing # NoStep => ~ToolsBusy /\ Streams(failing)
  /\ phase = "working" => compaction = NoCompaction /\ (active # NoModel => active.delivered)

\* A call that is under way is the one the agent waits for, until a stop joins it; a result that
\* waits is of a call that runs no more.
ToolInv ==
  /\ \A c \in Calls :
       /\ tools[c] = "admission" => StopDue \/ slot[c] = "admission"
       /\ tools[c] = "execution" => StopDue \/ slot[c] = "running"
       /\ Copies(Finished(c)) > 0 =>
            slot[c] = "running" /\ tools[c] = "none" /\ c \notin commit.reaction.calls

\* What the effect of a commit will find.
EffectInv ==
  /\ commit.reaction.effect = "call" =>
       /\ phase = "streaming" /\ starting = NoStart /\ compaction = NoCompaction /\ ~ToolsBusy
       /\ active = NoModel => after = "none"
       /\ active # NoModel => active.delivered
  /\ commit.reaction.effect = "admit" =>
       /\ phase = "working" /\ active.delivered /\ ~ToolsBusy
       /\ \A c \in Calls : slot[c] = IF c \in commit.reaction.calls THEN "admission" ELSE "none"
  /\ commit.reaction.effect = "run" =>
       /\ phase = "working" /\ commit.reaction.clears = {}
       /\ \E c \in Calls : /\ commit.reaction.calls = {c}
                           /\ slot[c] = "running" /\ tools[c] = "none"
                           /\ commit.reaction.adds = {Audited(c)}
                           /\ commit.written = "ok" => Audited(c) \in disk

\* A summary for the step the agent waits for, until a stop joins it, or for a history at rest.
SummaryInv ==
  /\ compaction.continuation = "model" /\ compaction.phase # "failing" =>
       /\ ~compaction.requested
       /\ \/ Streams(compaction.step) /\ compaction.source = <<phase, step>>
          \/ phase = "idle" /\ compaction.phase = "running" /\ StopDue
  /\ compaction.continuation = "requested" =>
       compaction.requested /\ compaction.source = <<phase, step>>
  /\ compaction.requested => phase = "idle" /\ compaction.phase # "failing"
  /\ compaction.phase = "running" /\ phase = "idle" => compaction.requested \/ StopDue
  /\ shutdown # "open" =>
       /\ compaction.continuation # "requested"
       /\ compaction.continuation = "model" =>
            compaction.phase \in {"authorizing", "running", "failing"}
       /\ starting # NoStart => starting.cancelled
       /\ compaction.requested => \A i \in DOMAIN pending : pending[i] \notin TextInputs

\* What the file will say once the commit is written.
NextDisk ==
  IF commit.written = "no" THEN (disk \ commit.reaction.clears) \cup commit.reaction.adds ELSE disk

\* Each open attempt and each open turn of the file has an owner.
AttemptInv ==
  /\ commit.then = "StartModel" => commit.reaction.adds = {Attempt("model", starting.step)}
  /\ commit.then = "StartCompaction" => commit.reaction.adds = {Attempt("summary", compaction.step)}
  /\ commit.written \in {"none", "no", "ok"} =>
       /\ commit.written # "no" /\ Due("StartModel") => Attempt("model", starting.step) \in disk
       /\ commit.written # "no" /\ Due("StartCompaction") =>
            Attempt("summary", compaction.step) \in disk
       /\ \A s \in Steps :
            /\ Attempt("model", s) \in NextDisk =>
                 \/ s \in unanswered
                 \/ starting # NoStart /\ s = starting.step
                 \/ active.settlement = "running" /\ s = active.step
            /\ Attempt("summary", s) \in NextDisk =>
                 compaction.phase \in {"authorizing", "running"} /\ s = compaction.step
       /\ \A n \in 0..MaxTexts : Opened(n) \in NextDisk => phase # "idle" /\ n = step[1]

\* The turn goes on, but for an interrupt that waits.
OwnInv ==
  shutdown = "open" /\ ~InterruptPending =>
    /\ phase = "streaming" =>
         \/ commit.reaction.effect = "call"
         \/ starting # NoStart /\ ~starting.cancelled
         \/ active # NoModel /\ ~active.delivered
         \/ deferred # NoStep \/ failing # NoStep \/ compaction.continuation = "model"
    /\ \A c \in Calls \ unanswered :
         /\ slot[c] = "admission" => tools[c] = "admission" \/ c \in commit.reaction.calls
         /\ slot[c] = "running" =>
              tools[c] = "execution" \/ c \in commit.reaction.calls \/ Copies(Finished(c)) > 0

\* A shutdown that settles has closed the turn.
ClosingInv ==
  shutdown = "settling" =>
    /\ phase = "idle" /\ \A i \in DOMAIN pending : pending[i] \notin TextInputs
    /\ compaction.phase = "running" => StopDue

LiveInv ==
  /\ DueInv /\ CommitInv /\ SoloInv /\ ToolInv /\ EffectInv /\ SummaryInv /\ AttemptInv
  /\ OwnInv /\ ClosingInv

Lives == journal = "open" /\ ended = "no"

Alive == Lives /\ Steady /\ LiveInv

IInv == Steady /\ (Lives => LiveInv)

-----------------------------------------------------------------------------
(* Facts of the file, commits and records.                                  *)

\* The facts of the session file differ by kind and by what they are about.
LEMMA FactsApart ==
  /\ \A n, m : Opened(n) = Opened(m) => n = m
  /\ \A n, m : Said(n) = Said(m) => n = m
  /\ \A n, m : Audited(n) = Audited(m) => n = m
  /\ \A n, m : Attempt("model", n) = Attempt("model", m) => n = m
  /\ \A n, m : Attempt("summary", n) = Attempt("summary", m) => n = m
  /\ \A n, m : /\ Opened(n) # Said(m) /\ Opened(n) # Audited(m) /\ Said(n) # Audited(m)
               /\ Attempt("model", n) # Attempt("summary", m)
               /\ Attempt("model", n) # Opened(m) /\ Attempt("summary", n) # Opened(m)
               /\ Attempt("model", n) # Said(m) /\ Attempt("summary", n) # Said(m)
               /\ Attempt("model", n) # Audited(m) /\ Attempt("summary", n) # Audited(m)
BY DEF Opened, Said, Audited, Attempt

\* What the model writes are facts.
LEMMA FactsTyped ==
  /\ \A t \in Texts : Said(t) \in Facts
  /\ \A n \in 0..MaxTexts : Opened(n) \in Facts
  /\ \A c \in Calls : Audited(c) \in Facts
  /\ \A s \in Steps : Attempt("model", s) \in Facts /\ Attempt("summary", s) \in Facts
BY DEF Facts

\* The bounds are natural numbers.
LEMMA BoundsTyped ==
  MaxTexts \in Nat /\ Capacity \in Nat \ {0} /\ MaxSteps \in Nat \ {0} /\ MaxSummaries \in Nat
BY BoundsAssumption

\* A step is a pair of numbers in their bounds.
LEMMA StepsTyped ==
  /\ NoStep \in Steps
  /\ \A s \in Steps : s[1] \in 0..MaxTexts /\ s[2] \in 0..MaxSteps /\ s = <<s[1], s[2]>>
  /\ \A n \in 0..MaxTexts, m \in 0..MaxSteps : <<n, m>> \in Steps /\ (m # 0 => <<n, m>> # NoStep)
  /\ \A n \in 0..MaxTexts, m \in 0..MaxSteps : <<n, m>>[1] = n /\ <<n, m>>[2] = m
BY BoundsTyped DEF Steps, NoStep

\* The reaction without records is a reaction.
LEMMA NothingTyped ==
  /\ Nothing \in Reactions /\ Nothing.adds = {} /\ Nothing.clears = {} /\ Nothing.effect = "none"
  /\ Nothing.calls = {} /\ Nothing.back = <<>>
<1>1. <<>> \in Seq(Texts)
  OBVIOUS
<1> QED BY <1>1 DEF Nothing, Reactions

\* A reaction that adds facts.
LEMMA AddsTyped ==
  ASSUME NEW A \in SUBSET Facts
  PROVE  /\ Adds(A) \in Reactions /\ Adds(A).adds = A /\ Adds(A).clears = {}
         /\ Adds(A).effect = "none" /\ Adds(A).calls = {} /\ Adds(A).back = <<>>
<1>1. <<>> \in Seq(Texts)
  OBVIOUS
<1> QED BY <1>1 DEF Nothing, Reactions, Adds

\* A reaction that takes facts back.
LEMMA ClearsTyped ==
  ASSUME NEW A \in SUBSET Facts
  PROVE  /\ Clears(A) \in Reactions /\ Clears(A).adds = {} /\ Clears(A).clears = A
         /\ Clears(A).effect = "none" /\ Clears(A).calls = {} /\ Clears(A).back = <<>>
<1>1. <<>> \in Seq(Texts)
  OBVIOUS
<1> QED BY <1>1 DEF Nothing, Reactions, Clears

\* No commit, part by part.
LEMMA NoCommitTyped ==
  /\ NoCommit \in Commits /\ NoCommit.written = "none" /\ NoCommit.then = "none"
  /\ NoCommit.rejected = <<>> /\ NoCommit.reaction = Nothing
<1>1. <<>> \in Seq(Texts)
  OBVIOUS
<1> QED BY <1>1, NothingTyped DEF NoCommit, Commits, Thens

\* A transition that begins is a commit that is not written.
LEMMA BeginTyped ==
  ASSUME NEW r \in Reactions, NEW rejected \in Seq(Texts), NEW then \in Thens,
         Begin(r, rejected, then)
  PROVE  /\ commit' \in Commits /\ commit' # NoCommit /\ commit'.written = "no"
         /\ commit'.reaction = r /\ commit'.rejected = rejected /\ commit'.then = then
BY NoCommitTyped DEF Begin, Commits

\* No start, no request and no preparation, part by part.
LEMMA RestTyped ==
  /\ NoStart \in Starts /\ NoStart.step = NoStep /\ NoStart.cancelled = FALSE
  /\ NoModel \in Models /\ NoModel.step = NoStep /\ NoModel.settlement = "none"
  /\ NoModel.outcome = "none" /\ NoModel.delivered = FALSE
  /\ NoPreparation \in Preparations /\ NoPreparation.text = 0 /\ NoPreparation.cancelled = FALSE
BY StepsTyped, BoundsTyped DEF NoStart, Starts, NoModel, Models, Outcomes, NoPreparation, Preparations

\* No summary, part by part.
LEMMA RestingTyped ==
  /\ NoCompaction \in Summaries /\ NoCompaction.step = NoStep /\ NoCompaction.phase = "none"
  /\ NoCompaction.continuation = "none" /\ NoCompaction.trigger = "none"
  /\ NoCompaction.complete = FALSE /\ NoCompaction.requested = FALSE
BY StepsTyped DEF NoCompaction, Summaries, Phases
-----------------------------------------------------------------------------
(* What may wait, and how many of each kind.                                *)

\* The kinds of pending input differ, and so do results of different calls.
LEMMA InputsApart ==
  /\ \A c \in Calls : /\ Finished(c) \in ResultInputs /\ Finished(c).kind = "finished"
                      /\ Finished(c).call = c
  /\ \A c, d : Finished(c) = Finished(d) => c = d
  /\ \A t \in Texts, skill \in BOOLEAN :
       /\ Text(t, skill) \in TextInputs /\ Text(t, skill).kind = "text"
       /\ Text(t, skill).text = t /\ Text(t, skill).skill = skill
       /\ Text(t, skill) \in SkillInputs <=> skill
  /\ Interrupted \in Inputs /\ Interrupted.kind = "interrupt"
  /\ TextInputs \cap ResultInputs = {} /\ Interrupted \notin TextInputs /\ Interrupted \notin ResultInputs
  /\ TextInputs \subseteq Inputs /\ ResultInputs \subseteq Inputs /\ SkillInputs \subseteq TextInputs
  /\ Inputs = TextInputs \cup ResultInputs \cup {Interrupted}
  /\ \A e \in TextInputs : e.kind = "text" /\ e.text \in Texts /\ e.skill \in BOOLEAN
  /\ \A e \in TextInputs : e.skill <=> e \in SkillInputs
  /\ \A e \in ResultInputs : e.kind = "finished" /\ e.call \in Calls /\ e = Finished(e.call)
<1>1. /\ \A c \in Calls : /\ Finished(c) \in ResultInputs /\ Finished(c).kind = "finished"
                          /\ Finished(c).call = c
      /\ \A c, d : Finished(c) = Finished(d) => c = d
  BY DEF Finished, ResultInputs
<1>2. \A t \in Texts, skill \in BOOLEAN :
       /\ Text(t, skill) \in TextInputs /\ Text(t, skill).kind = "text"
       /\ Text(t, skill).text = t /\ Text(t, skill).skill = skill
  BY DEF Text, TextInputs
<1>3. \A t \in Texts, skill \in BOOLEAN : Text(t, skill) \in SkillInputs <=> skill
  BY <1>2 DEF SkillInputs
<1>4. Interrupted.kind = "interrupt"
  BY DEF Interrupted
<1>5. \A e \in TextInputs : e.kind = "text" /\ e.text \in Texts /\ e.skill \in BOOLEAN
  BY DEF TextInputs
<1>6. \A e \in ResultInputs : e.kind = "finished" /\ e.call \in Calls /\ e = Finished(e.call)
  BY DEF ResultInputs, Finished
<1>7. TextInputs \cap ResultInputs = {} /\ Interrupted \notin TextInputs /\ Interrupted \notin ResultInputs
  BY <1>4, <1>5, <1>6
<1>8. \A e \in TextInputs : e.skill <=> e \in SkillInputs
  BY DEF SkillInputs
<1>9. /\ TextInputs \subseteq Inputs /\ ResultInputs \subseteq Inputs /\ SkillInputs \subseteq TextInputs
      /\ Inputs = TextInputs \cup ResultInputs \cup {Interrupted} /\ Interrupted \in Inputs
  BY DEF Inputs, SkillInputs
<1> QED
  BY <1>1, <1>2, <1>3, <1>4, <1>5, <1>6, <1>7, <1>8, <1>9

\* What is kept of the pending queue is a queue.
LEMMA CountTyped ==
  ASSUME NEW p \in Seq(Inputs)
  PROVE  \A A : Len(Kept(p, A)) \in Nat /\ Len(Kept(p, A)) <= Len(p) /\ Kept(p, A) \in Seq(Inputs)
<1> SUFFICES ASSUME NEW A
             PROVE  Len(Kept(p, A)) \in Nat /\ Len(Kept(p, A)) <= Len(p) /\ Kept(p, A) \in Seq(Inputs)
  OBVIOUS
<1> DEFINE k == Kept(p, A)
<1>1. k \in Seq(Inputs \cap A) /\ Len(k) <= Len(p)
  BY KeptTyped
<1> HIDE DEF k
<1>2. Len(k) \in Nat /\ k \in Seq(Inputs)
  BY <1>1
<1> QED BY <1>1, <1>2 DEF k

\* One more entry counts once where it is kept.
LEMMA CountAppend ==
  ASSUME NEW p \in Seq(Inputs), NEW e \in Inputs
  PROVE  \A A : Len(Kept(Append(p, e), A)) = IF e \in A THEN Len(Kept(p, A)) + 1 ELSE Len(Kept(p, A))
<1> SUFFICES ASSUME NEW A
             PROVE  Len(Kept(Append(p, e), A)) = IF e \in A THEN Len(Kept(p, A)) + 1 ELSE Len(Kept(p, A))
  OBVIOUS
<1> DEFINE k == Kept(p, A)
<1>1. Kept(Append(p, e), A) = IF e \in A THEN Append(k, e) ELSE k
  BY KeptAppend
<1>2. k \in Seq(Inputs)
  BY CountTyped
<1> HIDE DEF k
<1>3. Len(Append(k, e)) = Len(k) + 1
  BY <1>2
<1> QED BY <1>1, <1>3 DEF k

\* The first entry counts once where it is kept.
LEMMA CountTail ==
  ASSUME NEW p \in Seq(Inputs), p # <<>>
  PROVE  \A A : Len(Kept(p, A)) = IF Head(p) \in A THEN Len(Kept(Tail(p), A)) + 1
                                                   ELSE Len(Kept(Tail(p), A))
BY KeptHead

\* A part of a kind is no more than the kind.
LEMMA CountPart ==
  ASSUME NEW p \in Seq(Inputs), NEW A, NEW B, A \subseteq B
  PROVE  Len(Kept(p, A)) <= Len(Kept(p, B))
<1>1. Kept(Kept(p, B), A) = Kept(p, B \cap A) /\ B \cap A = A
  BY KeptKept
<1> DEFINE k == Kept(p, B)
<1>2. k \in Seq(Inputs)
  BY CountTyped
<1> HIDE DEF k
<1>3. Len(Kept(k, A)) <= Len(k)
  BY <1>2, CountTyped
<1> QED BY <1>1, <1>3 DEF k

\* There is one of a kind where one is counted.
LEMMA CountSome ==
  ASSUME NEW p \in Seq(Inputs), NEW A
  PROVE  (\E i \in DOMAIN p : p[i] \in A) <=> Len(Kept(p, A)) > 0
<1> DEFINE k == Kept(p, A)
<1>1. k \in Seq(Inputs)
  BY CountTyped
<1>2. /\ \A i \in DOMAIN k : k[i] \in A /\ \E m \in DOMAIN p : k[i] = p[m]
      /\ \A m \in DOMAIN p : p[m] \in A => \E i \in DOMAIN k : k[i] = p[m]
  BY KeptPlaces
<1> HIDE DEF k
<1>3. Len(k) \in Nat /\ DOMAIN k = 1..Len(k)
  BY <1>1
<1>4. Len(k) > 0 => 1 \in DOMAIN k
  BY <1>3
<1>5. (\E i \in DOMAIN k : TRUE) => Len(k) > 0
  BY <1>3
<1>6. (\E i \in DOMAIN p : p[i] \in A) => Len(k) > 0
  BY <1>2, <1>5
<1>7. Len(k) > 0 => \E i \in DOMAIN p : p[i] \in A
  BY <1>2, <1>4
<1> QED BY <1>6, <1>7 DEF k

\* The texts of the pending queue, as many as its text entries.
LEMMA TextsOfTyped ==
  ASSUME NEW p \in Seq(Inputs)
  PROVE  TextsOf(p) \in Seq(Texts) /\ Len(TextsOf(p)) = Len(Kept(p, TextInputs))
<1> DEFINE k == Kept(p, TextInputs)
<1>1. k \in Seq(Inputs \cap TextInputs)
  BY KeptTyped
<1>2. TextsOf(p) = [i \in DOMAIN k |-> k[i].text]
  BY DEF TextsOf
<1> HIDE DEF k
<1>3. DOMAIN k = 1..Len(k) /\ Len(k) \in Nat /\ \A i \in 1..Len(k) : k[i].text \in Texts
  BY <1>1, InputsApart
<1> DEFINE u == [i \in 1..Len(k) |-> k[i].text]
<1>4. u \in Seq(Texts) /\ Len(u) = Len(k)
  <2>1. u \in [1..Len(k) -> Texts]
    BY <1>3
  <2> HIDE DEF u
  <2> QED BY <1>3, <2>1
<1>5. TextsOf(p) = u
  BY <1>2, <1>3
<1> HIDE DEF u
<1> QED BY <1>4, <1>5 DEF k


\* The fields of what is not there.
LEMMA Nones ==
  /\ NoCommit.written = "none" /\ NoCommit.then = "none" /\ NoCommit.rejected = <<>>
  /\ NoCommit.reaction.adds = {} /\ NoCommit.reaction.clears = {}
  /\ NoCommit.reaction.effect = "none" /\ NoCommit.reaction.calls = {}
  /\ NoCommit.reaction.back = <<>>
  /\ NoStart.step = NoStep /\ NoStart.cancelled = FALSE
  /\ NoModel.step = NoStep /\ NoModel.settlement = "none"
  /\ NoModel.outcome = "none" /\ NoModel.delivered = FALSE
  /\ NoPreparation.text = 0 /\ NoPreparation.cancelled = FALSE
  /\ NoCompaction.step = NoStep /\ NoCompaction.phase = "none"
  /\ NoCompaction.continuation = "none" /\ NoCompaction.trigger = "none"
  /\ NoCompaction.complete = FALSE /\ NoCompaction.requested = FALSE
BY NoCommitTyped, NothingTyped, RestTyped, RestingTyped

\* A commit of these records, handed to the writer.
Begun(adds, clears, effect, calls, back, rejected, then) ==
  /\ commit' \in Commits /\ commit' # NoCommit /\ commit'.written = "no"
  /\ commit'.reaction.adds = adds /\ commit'.reaction.clears = clears
  /\ commit'.reaction.effect = effect /\ commit'.reaction.calls = calls
  /\ commit'.reaction.back = back /\ commit'.rejected = rejected /\ commit'.then = then

\* The commit of a reaction that adds facts.
LEMMA BegunAdds ==
  ASSUME NEW A \in SUBSET Facts, NEW then \in Thens, Begin(Adds(A), <<>>, then)
  PROVE  Begun(A, {}, "none", {}, <<>>, <<>>, then)
<1>1. <<>> \in Seq(Texts)
  OBVIOUS
<1>2. /\ Adds(A) \in Reactions /\ Adds(A).adds = A /\ Adds(A).clears = {}
      /\ Adds(A).effect = "none" /\ Adds(A).calls = {} /\ Adds(A).back = <<>>
  BY AddsTyped
<1>3. /\ commit' \in Commits /\ commit' # NoCommit /\ commit'.written = "no"
      /\ commit'.reaction = Adds(A) /\ commit'.rejected = <<>> /\ commit'.then = then
  BY <1>1, <1>2, BeginTyped
<1> QED BY <1>2, <1>3 DEF Begun

\* The commit of a reaction that takes facts back.
LEMMA BegunClears ==
  ASSUME NEW A \in SUBSET Facts, NEW then \in Thens, Begin(Clears(A), <<>>, then)
  PROVE  Begun({}, A, "none", {}, <<>>, <<>>, then)
<1>1. <<>> \in Seq(Texts)
  OBVIOUS
<1>2. /\ Clears(A) \in Reactions /\ Clears(A).adds = {} /\ Clears(A).clears = A
      /\ Clears(A).effect = "none" /\ Clears(A).calls = {} /\ Clears(A).back = <<>>
  BY ClearsTyped
<1>3. /\ commit' \in Commits /\ commit' # NoCommit /\ commit'.written = "no"
      /\ commit'.reaction = Clears(A) /\ commit'.rejected = <<>> /\ commit'.then = then
  BY <1>1, <1>2, BeginTyped
<1> QED BY <1>2, <1>3 DEF Begun

-----------------------------------------------------------------------------
(* The steps of the driver.                                                 *)

\* A failed journal takes no commit, and all that is left is to return.
Failed == Steady /\ journal # "open" /\ ended = "no"

\* A continuation is taken while the runtime is alive.
LEMMA AfterIs ==
  ASSUME IInv, NEW kind, After(kind)
  PROVE  /\ call # "none" /\ error = "none" /\ commit = NoCommit /\ after = kind
         /\ Alive
BY DEF IInv, Steady, CallInv, Lives, After, Driving, Uncommitted, Alive

\* A start is dispatched, or its attempt is closed if it was cancelled meanwhile.
LEMMA StartModelKeeps ==
  ASSUME Alive, StartModel
  PROVE  Alive'
<1> USE DEF Alive, Lives, Steady, Typed, LiveInv
<1>1. /\ UNCHANGED <<phase, step, slot, queue, disk, journal, pending, preparing, deferred,
                        failing, compaction, spent, tools, shutdown, call, ended, unanswered,
                        returned, nextText>>
      /\ after' = "none" /\ starting' = NoStart /\ error' = error
      /\ starting # NoStart /\ active = NoModel /\ call # "none" /\ error = "none" /\ commit = NoCommit
         /\ after = "StartModel" /\ Streams(starting.step)
      /\ \/ /\ starting.cancelled /\ active' = active
            /\ Begun({}, {Attempt("model", starting.step)}, "none", {}, <<>>, <<>>, "none")
         \/ /\ ~starting.cancelled /\ shutdown = "open" /\ commit' = commit
            /\ active' \in Models /\ active'.step = starting.step /\ active'.settlement = "running"
            /\ active'.outcome = "none" /\ active'.delivered = FALSE /\ active' # NoModel
  <2>1. /\ call # "none" /\ error = "none" /\ commit = NoCommit /\ after = "StartModel"
    BY DEF StartModel, After, Driving, Uncommitted
  <2>2. /\ starting # NoStart /\ active = NoModel /\ ~ToolsBusy /\ starting \in Starts
        /\ Streams(starting.step)
    BY <2>1 DEF OwnerTyped, DueInv, SoloInv, Due
  <2>3. shutdown # "open" => starting.cancelled
    BY <2>2 DEF SummaryInv
  <2>4. CASE starting.cancelled
    <3>1. {Attempt("model", starting.step)} \in SUBSET Facts /\ "none" \in Thens
      BY <2>2, FactsTyped DEF Starts, Thens
    <3>2. Begin(Clears({Attempt("model", starting.step)}), <<>>, "none")
      BY <2>4 DEF StartModel
    <3>3. Begun({}, {Attempt("model", starting.step)}, "none", {}, <<>>, <<>>, "none")
      BY <3>1, <3>2, BegunClears
    <3> QED
      BY <2>1, <2>2, <2>4, <3>3
      DEF StartModel, agentVars, inputVars, userVars, exitVars
  <2>5. CASE ~starting.cancelled
    <3>1. active' = [step |-> starting.step, settlement |-> "running", outcome |-> "none",
                     delivered |-> FALSE]
      BY <2>2, <2>3, <2>5 DEF StartModel
    <3>2. active' \in Models /\ active' # NoModel
      BY <2>2, <3>1, Nones DEF Models, Starts, Outcomes
    <3> QED
      BY <2>1, <2>2, <2>3, <2>5, <3>1, <3>2
      DEF StartModel, agentVars, inputVars, userVars, exitVars
  <2> QED BY <2>4, <2>5
<1>10. AgentTyped' /\ InputTyped' /\ AgentInv'
  BY <1>1 DEF AgentTyped, InputTyped, AgentInv, Unsettled
<1>11. QueueInv'
  BY <1>1 DEF QueueInv, Copies
<1>12. FileTyped'
  BY <1>1, Nones DEF FileTyped, Thens, Begun
<1>13. OwnerTyped'
  BY <1>1, Nones, RestTyped DEF OwnerTyped
<1>14. CallTyped'
  BY <1>1, Nones DEF CallTyped
<1>15. CallInv'
  BY <1>1, Nones DEF CallInv, Begun
<1>16. DurableInv'
  BY <1>1, Nones DEF DurableInv, Begun, AttemptInv, Due, SoloInv, ToolsBusy
<1>17. SettledInv'
  BY <1>1, Nones DEF SettledInv, Begun
<1>18. EndInv'
  BY <1>1, Nones DEF EndInv, ToolsBusy, Begun
<1>19. DueInv'
  BY <1>1, Nones DEF DueInv, Due, StopDue, Stopped, Begun, OwnerTyped
<1>20. CommitInv'
  BY <1>1, Nones DEF CommitInv, Stopped, Begun, SoloInv, Due, StopDue, DueInv
<1>21. SoloInv'
  BY <1>1, Nones DEF SoloInv, Due, StopDue, Streams, ToolsBusy, Begun, DueInv
<1>22. ToolInv'
  BY <1>1, Nones DEF ToolInv, Due, StopDue, Copies, Begun
<1>23. EffectInv'
  BY <1>1, Nones DEF EffectInv, ToolsBusy, Begun
<1>24. SummaryInv'
  BY <1>1, Nones DEF SummaryInv, Due, StopDue, Streams, Begun
<1>25. AttemptInv'
  BY <1>1, Nones, FactsApart DEF AttemptInv, Due, NextDisk, Begun
<1>26. OwnInv'
  BY <1>1, Nones DEF OwnInv, InterruptPending, Copies, Begun, SoloInv, DueInv, Due
<1>27. ClosingInv'
  BY <1>1, Nones DEF ClosingInv, Due, StopDue, Begun
<1> QED
  BY <1>1, <1>10, <1>11, <1>12, <1>13, <1>14, <1>15, <1>16, <1>17, <1>18, <1>19, <1>20, <1>21,
    <1>22, <1>23, <1>24, <1>25, <1>26, <1>27

\* The writer's answer decides what the file says.
LEMMA WriterAppendsKeeps ==
  ASSUME Alive, NEW outcome \in {"ok", "refused", "unknown"}, WriterAppends(outcome)
  PROVE  Alive'
<1> USE DEF Alive, Lives, Steady, Typed, LiveInv
<1>1. /\ UNCHANGED <<phase, step, slot, queue, journal, after, pending, preparing, starting,
                        deferred, failing, active, compaction, spent, tools, shutdown, call,
                        error, ended, unanswered, returned, nextText>>
      /\ commit.written = "no" /\ commit # NoCommit
      /\ commit' \in Commits /\ commit' # NoCommit /\ commit'.written = outcome
      /\ commit'.reaction = commit.reaction /\ commit'.rejected = commit.rejected
         /\ commit'.then = commit.then
      /\ disk' \in {disk, (disk \ commit.reaction.clears) \cup commit.reaction.adds}
      /\ outcome = "ok" => disk' = (disk \ commit.reaction.clears) \cup commit.reaction.adds
  <2>1. commit.written = "no" /\ commit # NoCommit /\ commit \in Commits
    BY Nones DEF WriterAppends, FileTyped
  <2>2. commit' = [commit EXCEPT !.written = outcome]
    BY DEF WriterAppends
  <2>3. /\ commit' \in Commits /\ commit' # NoCommit /\ commit'.written = outcome
        /\ commit'.reaction = commit.reaction /\ commit'.rejected = commit.rejected
        /\ commit'.then = commit.then
    BY <2>1, <2>2, Nones DEF Commits
  <2>4. /\ disk' \in {disk, (disk \ commit.reaction.clears) \cup commit.reaction.adds}
        /\ outcome = "ok" => disk' = (disk \ commit.reaction.clears) \cup commit.reaction.adds
    BY DEF WriterAppends
  <2> QED
    BY <2>1, <2>3, <2>4
    DEF WriterAppends, agentVars, ownerVars, inputVars, userVars, exitVars
<1>10. AgentTyped' /\ InputTyped' /\ OwnerTyped' /\ CallTyped' /\ AgentInv' /\ SettledInv'
  BY <1>1 DEF AgentTyped, InputTyped, OwnerTyped, CallTyped, AgentInv, Unsettled, SettledInv
<1>11. QueueInv'
  BY <1>1 DEF QueueInv, Copies
<1>12. FileTyped'
  BY <1>1, Nones DEF FileTyped, Thens, Commits, Reactions
<1>13. CallInv'
  BY <1>1, Nones DEF CallInv
<1>14. DurableInv'
  BY <1>1, Nones DEF DurableInv, OwnerTyped, Models, Summaries
<1>15. EndInv'
  BY <1>1, Nones DEF EndInv, ToolsBusy
<1>16. DueInv'
  BY <1>1, Nones DEF DueInv, Due, StopDue, Stopped
<1>17. CommitInv'
  BY <1>1, Nones DEF CommitInv, Stopped
<1>18. SoloInv'
  BY <1>1, Nones DEF SoloInv, Due, StopDue, Streams, ToolsBusy
<1>19. ToolInv'
  BY <1>1, Nones DEF ToolInv, Due, StopDue, Copies
<1>20. EffectInv'
  BY <1>1, Nones DEF EffectInv, ToolsBusy
<1>21. SummaryInv'
  BY <1>1, Nones DEF SummaryInv, Due, StopDue, Streams
<1>22. AttemptInv'
  BY <1>1, Nones DEF AttemptInv, Due, NextDisk, CommitInv, Stopped
<1>23. OwnInv'
  BY <1>1, Nones DEF OwnInv, InterruptPending, Copies
<1>24. ClosingInv'
  BY <1>1, Nones DEF ClosingInv, Due, StopDue
<1> QED
  BY <1>1, <1>10, <1>11, <1>12, <1>13, <1>14, <1>15, <1>16, <1>17, <1>18, <1>19, <1>20, <1>21,
    <1>22, <1>23, <1>24

\* A summary is started, or its attempt is closed if its continuation was cancelled.
LEMMA StartCompactionKeeps ==
  ASSUME Alive, StartCompaction
  PROVE  Alive'
<1> USE DEF Alive, Lives, Steady, Typed, LiveInv
<1>1. /\ UNCHANGED <<phase, step, slot, queue, disk, journal, pending, preparing, starting,
                        deferred, failing, active, spent, tools, shutdown, call, ended,
                        unanswered, returned, nextText>>
      /\ call # "none" /\ error = "none" /\ commit = NoCommit /\ after = "StartCompaction"
         /\ compaction.phase = "authorizing" /\ compaction # NoCompaction
      /\ after' = "none" /\ error' = error
      /\ compaction' \in Summaries /\ compaction' # NoCompaction
      /\ compaction'.continuation = compaction.continuation /\ compaction'.trigger = compaction.trigger /\ compaction'.step = compaction.step
         /\ compaction'.complete = compaction.complete /\ compaction'.source = compaction.source /\ compaction'.requested = compaction.requested
      /\ \/ /\ compaction.continuation = "cancelled" /\ compaction'.phase = "finishing"
            /\ Begun({}, {Attempt("summary", compaction.step)}, "none", {}, <<>>, <<>>, "FinishCompaction")
         \/ /\ compaction.continuation # "cancelled" /\ compaction'.phase = "running"
            /\ commit' = commit
  <2>1. /\ call # "none" /\ error = "none" /\ commit = NoCommit /\ after = "StartCompaction"
        /\ compaction.phase = "authorizing" /\ compaction \in Summaries /\ compaction # NoCompaction
    BY Nones DEF StartCompaction, After, Driving, Uncommitted, DueInv, Due, OwnerTyped
  <2>2. CASE compaction.continuation = "cancelled"
    <3>1. {Attempt("summary", compaction.step)} \in SUBSET Facts /\ "FinishCompaction" \in Thens
      BY <2>1, FactsTyped DEF Summaries, Thens
    <3>2. Begin(Clears({Attempt("summary", compaction.step)}), <<>>, "FinishCompaction")
      BY <2>1, <2>2 DEF StartCompaction
    <3>3. Begun({}, {Attempt("summary", compaction.step)}, "none", {}, <<>>, <<>>, "FinishCompaction")
      BY <3>1, <3>2, BegunClears
    <3>4. compaction' = [compaction EXCEPT !.phase = "finishing"]
      BY <2>1, <2>2 DEF StartCompaction
    <3> QED
      BY <2>1, <2>2, <3>3, <3>4, Nones
      DEF StartCompaction, agentVars, inputVars, userVars, exitVars, Summaries
  <2>3. CASE compaction.continuation # "cancelled"
    <3>1. compaction' = [compaction EXCEPT !.phase = "running"]
      BY <2>1, <2>3 DEF StartCompaction
    <3> QED
      BY <2>1, <2>3, <3>1, Nones
      DEF StartCompaction, agentVars, inputVars, userVars, exitVars, Summaries
  <2> QED BY <2>2, <2>3
<1>10. AgentTyped' /\ InputTyped' /\ AgentInv'
  BY <1>1 DEF AgentTyped, InputTyped, AgentInv, Unsettled
<1>11. QueueInv'
  BY <1>1 DEF QueueInv, Copies
<1>12. FileTyped'
  BY <1>1, Nones DEF FileTyped, Thens, Begun
<1>13. OwnerTyped'
  BY <1>1, Nones DEF OwnerTyped, Begun
<1>14. CallTyped'
  BY <1>1, Nones DEF CallTyped, Begun
<1>15. CallInv'
  BY <1>1, Nones DEF CallInv, Begun
<1>16. DurableInv'
  BY <1>1, Nones DEF DurableInv, Begun, AttemptInv, Due, SoloInv, ToolsBusy, OwnerTyped
<1>17. SettledInv'
  BY <1>1, Nones DEF SettledInv, Begun
<1>18. EndInv'
  BY <1>1, Nones DEF EndInv, ToolsBusy, Begun
<1>19. DueInv'
  BY <1>1, Nones DEF DueInv, Due, StopDue, Stopped, Begun, SoloInv, OwnerTyped
<1>20. CommitInv'
  BY <1>1, Nones DEF CommitInv, Stopped, Begun, DueInv, SoloInv, Due
<1>21. SoloInv'
  BY <1>1, Nones DEF SoloInv, Due, StopDue, Streams, ToolsBusy, Begun, DueInv
<1>22. ToolInv'
  BY <1>1, Nones DEF ToolInv, Due, StopDue, Copies, Begun
<1>23. EffectInv'
  BY <1>1, Nones DEF EffectInv, ToolsBusy, Begun
<1>24. SummaryInv'
  BY <1>1, Nones DEF SummaryInv, Due, StopDue, Streams, Begun, DueInv, OwnerTyped, Summaries
<1>25. AttemptInv'
  BY <1>1, Nones, FactsApart DEF AttemptInv, Due, NextDisk, Begun, DueInv, SoloInv, OwnerTyped
<1>26. OwnInv'
  BY <1>1, Nones DEF OwnInv, InterruptPending, Copies, Begun
<1>27. ClosingInv'
  BY <1>1, Nones DEF ClosingInv, Due, StopDue, Begun, SummaryInv, Streams, OwnerTyped, Summaries
<1> QED
  BY <1>1, <1>10, <1>11, <1>12, <1>13, <1>14, <1>15, <1>16, <1>17, <1>18, <1>19, <1>20, <1>21,
    <1>22, <1>23, <1>24, <1>25, <1>26, <1>27

\* A completion that was delivered is released.
LEMMA ReleaseModelKeeps ==
  ASSUME Alive, ReleaseModel
  PROVE  Alive'
<1> USE DEF Alive, Lives, Steady, Typed, LiveInv
<1>1. /\ UNCHANGED <<phase, step, slot, queue, disk, journal, commit, pending, preparing,
                        starting, deferred, failing, compaction, spent, tools, shutdown, call,
                        ended, unanswered, returned, nextText>>
      /\ call # "none" /\ error = "none" /\ commit = NoCommit
      /\ active # NoModel /\ active.settlement = "ended" /\ active.delivered /\ active' = NoModel
      /\ \/ after = "SettleModel" /\ after' = "none" /\ error' = "none"
         \/ Stopped /\ after' = after /\ error' \in {"none", "provider"}
  <2>1. /\ call # "none" /\ error = "none" /\ commit = NoCommit
        /\ active.settlement = "ended" /\ active.delivered /\ active' = NoModel
    BY DEF ReleaseModel
  <2>2. active # NoModel
    BY <2>1, Nones
  <2>3. \/ after = "SettleModel" /\ after' = "none" /\ error' = "none"
        \/ Stopped /\ after' = after /\ error' \in {"none", "provider"}
    BY DEF ReleaseModel, Stops, Stopped
  <2> QED
    BY <2>1, <2>2, <2>3 DEF ReleaseModel, agentVars, inputVars, userVars, exitVars
<1>10. AgentTyped' /\ InputTyped' /\ AgentInv'
  BY <1>1 DEF AgentTyped, InputTyped, AgentInv, Unsettled
<1>11. QueueInv'
  BY <1>1 DEF QueueInv, Copies
<1>12. FileTyped'
  BY <1>1, Nones DEF FileTyped, Thens, Stopped
<1>13. OwnerTyped'
  BY <1>1, Nones, RestTyped DEF OwnerTyped
<1>14. CallTyped'
  BY <1>1, Nones DEF CallTyped
<1>15. CallInv'
  BY <1>1, Nones DEF CallInv
<1>16. DurableInv'
  BY <1>1, Nones DEF DurableInv
<1>17. SettledInv'
  BY <1>1, Nones DEF SettledInv
<1>18. EndInv'
  BY <1>1, Nones DEF EndInv, ToolsBusy
<1>19. DueInv'
  BY <1>1, Nones DEF DueInv, Due, StopDue, Stopped, SoloInv
<1>20. CommitInv'
  BY <1>1, Nones DEF CommitInv, Stopped
<1>21. SoloInv'
  BY <1>1, Nones DEF SoloInv, Due, StopDue, Streams, ToolsBusy, DueInv, Stopped
<1>22. ToolInv'
  BY <1>1, Nones DEF ToolInv, Due, StopDue, Copies, Stopped
<1>23. EffectInv'
  BY <1>1, Nones DEF EffectInv, ToolsBusy
<1>24. SummaryInv'
  BY <1>1, Nones DEF SummaryInv, Due, StopDue, Streams, Stopped
<1>25. AttemptInv'
  BY <1>1, Nones DEF AttemptInv, Due, NextDisk, Stopped
<1>26. OwnInv'
  BY <1>1, Nones DEF OwnInv, InterruptPending, Copies, SoloInv
<1>27. ClosingInv'
  BY <1>1, Nones DEF ClosingInv, Due, StopDue, Stopped
<1> QED
  BY <1>1, <1>10, <1>11, <1>12, <1>13, <1>14, <1>15, <1>16, <1>17, <1>18, <1>19, <1>20, <1>21,
    <1>22, <1>23, <1>24, <1>25, <1>26, <1>27

\* A stop ends with the tools joined.
LEMMA FinishStopKeeps ==
  ASSUME Alive, FinishStop
  PROVE  Alive'
<1> USE DEF Alive, Lives, Steady, Typed, LiveInv
<1>1. /\ UNCHANGED <<phase, step, slot, queue, disk, journal, commit, pending, preparing,
                        starting, deferred, failing, active, compaction, spent, shutdown, call,
                        error, ended, unanswered, returned, nextText>>
      /\ call # "none" /\ commit = NoCommit /\ Stopped /\ active = NoModel
         /\ compaction.phase # "running"
      /\ tools' = [c \in Calls |-> "none"] /\ after' = "none"
  <2>1. active = NoModel
    BY DEF FinishStop, CallTyped
  <2> QED
    BY <2>1 DEF FinishStop, agentVars, inputVars, userVars, exitVars, ownerVars, Uncommitted, Stops,
       Stopped, CompactionRunning
<1>10. AgentTyped' /\ InputTyped' /\ OwnerTyped' /\ CallInv' /\ AgentInv'
  BY <1>1 DEF AgentTyped, InputTyped, OwnerTyped, CallInv, AgentInv, Unsettled
<1>11. QueueInv'
  BY <1>1 DEF QueueInv, Copies
<1>12. FileTyped'
  BY <1>1, Nones DEF FileTyped, Thens
<1>13. CallTyped'
  BY <1>1, Nones DEF CallTyped
<1>14. DurableInv'
  BY <1>1, Nones DEF DurableInv
<1>15. SettledInv'
  BY <1>1, Nones DEF SettledInv
<1>16. EndInv'
  BY <1>1, Nones DEF EndInv, ToolsBusy
<1>17. DueInv'
  BY <1>1, Nones DEF DueInv, Due, StopDue, Stopped, OwnerTyped
<1>18. CommitInv'
  BY <1>1, Nones DEF CommitInv, Stopped
<1>19. SoloInv'
  BY <1>1, Nones DEF SoloInv, Due, StopDue, Streams, ToolsBusy, DueInv, Stopped
<1>20. ToolInv'
  BY <1>1, Nones DEF ToolInv, Due, StopDue, Copies
<1>21. EffectInv'
  BY <1>1, Nones DEF EffectInv, ToolsBusy
<1>22. SummaryInv'
  BY <1>1, Nones DEF SummaryInv, Due, StopDue, Streams, DueInv, Stopped
<1>23. AttemptInv'
  BY <1>1, Nones DEF AttemptInv, Due, NextDisk, Stopped
<1>24. OwnInv'
  BY <1>1, Nones DEF OwnInv, InterruptPending, Copies, ToolInv, DueInv, Due, StopDue, Stopped,
    AgentInv
<1>25. ClosingInv'
  BY <1>1, Nones DEF ClosingInv, Due, StopDue
<1> QED
  BY <1>1, <1>10, <1>11, <1>12, <1>13, <1>14, <1>15, <1>16, <1>17, <1>18, <1>19, <1>20, <1>21,
    <1>22, <1>23, <1>24, <1>25

\* The failure of a summary ends with its turn closed.
LEMMA CompleteCompactionFailureKeeps ==
  ASSUME Alive, CompleteCompactionFailure
  PROVE  Alive'
<1> USE DEF Alive, Lives, Steady, Typed, LiveInv
<1>1. /\ UNCHANGED <<phase, step, slot, queue, disk, journal, commit, pending, preparing,
                        starting, deferred, failing, active, spent, tools, shutdown, call, ended,
                        unanswered, returned, nextText>>
      /\ call # "none" /\ error = "none" /\ commit = NoCommit /\ after = "CompleteCompactionFailure"
      /\ compaction.phase \in {"none", "failing"} /\ compaction' = NoCompaction /\ after' = "none"
         /\ error' = error
  <2>1. /\ call # "none" /\ error = "none" /\ commit = NoCommit
        /\ after = "CompleteCompactionFailure"
    BY DEF CompleteCompactionFailure, After, Driving, Uncommitted
  <2>2. compaction.phase \in {"none", "failing"}
    BY <2>1 DEF DueInv, Due
  <2> QED
    BY <2>1, <2>2 DEF CompleteCompactionFailure, agentVars, inputVars, userVars, exitVars
<1>10. AgentTyped' /\ InputTyped' /\ AgentInv'
  BY <1>1 DEF AgentTyped, InputTyped, AgentInv, Unsettled
<1>11. QueueInv'
  BY <1>1 DEF QueueInv, Copies
<1>12. FileTyped'
  BY <1>1, Nones DEF FileTyped, Thens
<1>13. OwnerTyped'
  BY <1>1, Nones, RestingTyped DEF OwnerTyped
<1>14. CallTyped'
  BY <1>1, Nones DEF CallTyped
<1>15. CallInv'
  BY <1>1, Nones DEF CallInv
<1>16. DurableInv'
  BY <1>1, Nones DEF DurableInv
<1>17. SettledInv'
  BY <1>1, Nones DEF SettledInv
<1>18. EndInv'
  BY <1>1, Nones DEF EndInv, ToolsBusy
<1>19. DueInv'
  BY <1>1, Nones DEF DueInv, Due, StopDue, Stopped, OwnerTyped
<1>20. CommitInv'
  BY <1>1, Nones DEF CommitInv, Stopped
<1>21. SoloInv'
  BY <1>1, Nones DEF SoloInv, Due, StopDue, Streams, ToolsBusy, OwnerTyped
<1>22. ToolInv'
  BY <1>1, Nones DEF ToolInv, Due, StopDue, Copies
<1>23. EffectInv'
  BY <1>1, Nones DEF EffectInv, ToolsBusy
<1>24. SummaryInv'
  BY <1>1, Nones DEF SummaryInv, Due, StopDue, Streams
<1>25. AttemptInv'
  BY <1>1, Nones DEF AttemptInv, Due, NextDisk
<1>26. OwnInv'
  BY <1>1, Nones DEF OwnInv, InterruptPending, Copies, DueInv, Due
<1>27. ClosingInv'
  BY <1>1, Nones DEF ClosingInv, Due, StopDue
<1> QED
  BY <1>1, <1>10, <1>11, <1>12, <1>13, <1>14, <1>15, <1>16, <1>17, <1>18, <1>19, <1>20, <1>21,
    <1>22, <1>23, <1>24, <1>25, <1>26, <1>27

\* The composition root asks for the next update.
LEMMA NextUpdateKeeps ==
  ASSUME Alive, NextUpdate
  PROVE  Alive'
<1> USE DEF Alive, Lives, Steady, Typed, LiveInv
<1>1. /\ UNCHANGED <<phase, step, slot, queue, disk, journal, commit, after, pending, preparing,
                        starting, deferred, failing, active, compaction, spent, tools, shutdown,
                        error, ended, unanswered, returned, nextText>>
      /\ call = "none" /\ shutdown = "open" /\ call' = "update"
  BY DEF NextUpdate, agentVars, ownerVars, inputVars, userVars, exitVars
<1>10. AgentTyped' /\ FileTyped' /\ InputTyped' /\ OwnerTyped' /\ AgentInv'
  BY <1>1 DEF AgentTyped, FileTyped, Thens, InputTyped, OwnerTyped, AgentInv, Unsettled
<1>11. QueueInv'
  BY <1>1 DEF QueueInv, Copies
<1>12. DurableInv' /\ EndInv' /\ DueInv'
  BY <1>1 DEF DurableInv, EndInv, ToolsBusy, DueInv, Due, StopDue, Stopped
<1>13. CommitInv' /\ SoloInv' /\ ToolInv'
  BY <1>1 DEF CommitInv, Stopped, SoloInv, Due, StopDue, Streams, ToolsBusy, ToolInv, Copies
<1>14. EffectInv' /\ SummaryInv' /\ AttemptInv'
  BY <1>1 DEF EffectInv, ToolsBusy, SummaryInv, Due, StopDue, Streams, AttemptInv, NextDisk
<1>15. OwnInv' /\ ClosingInv'
  BY <1>1 DEF OwnInv, InterruptPending, Copies, ClosingInv, Due, StopDue
<1>16. CallTyped'
  BY <1>1, Nones DEF CallTyped
<1>17. CallInv'
  BY <1>1, Nones DEF CallInv
<1>18. SettledInv'
  BY <1>1, Nones DEF SettledInv
<1> QED
  BY <1>1, <1>10, <1>11, <1>12, <1>13, <1>14, <1>15, <1>16, <1>17, <1>18

\* The user asks for a compaction.
LEMMA RequestCompactionKeeps ==
  ASSUME Alive, RequestCompaction
  PROVE  Alive'
<1> USE DEF Alive, Lives, Steady, Typed, LiveInv
<1>1. /\ UNCHANGED <<phase, step, slot, queue, disk, journal, commit, after, pending, preparing,
                        starting, deferred, failing, active, compaction, spent, tools, shutdown,
                        error, ended, unanswered, returned, nextText>>
      /\ call = "none" /\ shutdown = "open" /\ call' = "compact"
  BY DEF RequestCompaction, agentVars, ownerVars, inputVars, userVars, exitVars
<1>10. AgentTyped' /\ FileTyped' /\ InputTyped' /\ OwnerTyped' /\ AgentInv'
  BY <1>1 DEF AgentTyped, FileTyped, Thens, InputTyped, OwnerTyped, AgentInv, Unsettled
<1>11. QueueInv'
  BY <1>1 DEF QueueInv, Copies
<1>12. DurableInv' /\ EndInv' /\ DueInv'
  BY <1>1 DEF DurableInv, EndInv, ToolsBusy, DueInv, Due, StopDue, Stopped
<1>13. CommitInv' /\ SoloInv' /\ ToolInv'
  BY <1>1 DEF CommitInv, Stopped, SoloInv, Due, StopDue, Streams, ToolsBusy, ToolInv, Copies
<1>14. EffectInv' /\ SummaryInv' /\ AttemptInv'
  BY <1>1 DEF EffectInv, ToolsBusy, SummaryInv, Due, StopDue, Streams, AttemptInv, NextDisk
<1>15. OwnInv' /\ ClosingInv'
  BY <1>1 DEF OwnInv, InterruptPending, Copies, ClosingInv, Due, StopDue
<1>16. CallTyped'
  BY <1>1, Nones DEF CallTyped
<1>17. CallInv'
  BY <1>1, Nones DEF CallInv
<1>18. SettledInv'
  BY <1>1, Nones DEF SettledInv
<1> QED
  BY <1>1, <1>10, <1>11, <1>12, <1>13, <1>14, <1>15, <1>16, <1>17, <1>18

\* The future is dropped; what it had begun stays.
LEMMA DropKeeps ==
  ASSUME Alive, Drop
  PROVE  Alive'
<1> USE DEF Alive, Lives, Steady, Typed, LiveInv
<1>1. /\ UNCHANGED <<phase, step, slot, queue, disk, journal, commit, after, pending, preparing,
                        starting, deferred, failing, active, compaction, spent, tools, shutdown,
                        ended, unanswered, returned, nextText>>
      /\ call # "none" /\ call' = "none" /\ error' = "none"
  BY DEF Drop, agentVars, ownerVars, inputVars, userVars, exitVars
<1>10. AgentTyped' /\ FileTyped' /\ InputTyped' /\ OwnerTyped' /\ AgentInv'
  BY <1>1 DEF AgentTyped, FileTyped, Thens, InputTyped, OwnerTyped, AgentInv, Unsettled
<1>11. QueueInv'
  BY <1>1 DEF QueueInv, Copies
<1>12. DurableInv' /\ EndInv' /\ CommitInv'
  BY <1>1 DEF DurableInv, EndInv, ToolsBusy, CommitInv, Stopped
<1>13. SoloInv' /\ ToolInv' /\ EffectInv'
  BY <1>1 DEF SoloInv, Due, StopDue, Streams, ToolsBusy, ToolInv, Copies, EffectInv
<1>14. SummaryInv' /\ AttemptInv' /\ OwnInv'
  BY <1>1 DEF SummaryInv, Due, StopDue, Streams, AttemptInv, NextDisk, OwnInv, InterruptPending,
    Copies
<1>15. ClosingInv'
  BY <1>1 DEF ClosingInv, Due, StopDue
<1>16. CallTyped'
  BY <1>1, Nones DEF CallTyped
<1>17. CallInv'
  BY <1>1, Nones DEF CallInv
<1>18. SettledInv'
  BY <1>1, Nones DEF SettledInv
<1>19. DueInv'
  BY <1>1, Nones DEF DueInv, Due, StopDue, Stopped
<1> QED
  BY <1>1, <1>10, <1>11, <1>12, <1>13, <1>14, <1>15, <1>16, <1>17, <1>18, <1>19

\* The same with a failed journal.
LEMMA NextUpdateFails ==
  ASSUME Failed, NextUpdate
  PROVE  Failed'
<1> USE DEF Failed, Steady, Typed
<1>1. /\ UNCHANGED <<phase, step, slot, queue, disk, journal, commit, after, pending, preparing,
                        starting, deferred, failing, active, compaction, spent, tools, shutdown,
                        error, ended, unanswered, returned, nextText>>
      /\ call = "none" /\ shutdown = "open" /\ call' = "update"
  BY DEF NextUpdate, agentVars, ownerVars, inputVars, userVars, exitVars
<1>10. AgentTyped' /\ FileTyped' /\ InputTyped' /\ OwnerTyped' /\ AgentInv'
  BY <1>1 DEF AgentTyped, FileTyped, Thens, InputTyped, OwnerTyped, AgentInv, Unsettled
<1>11. QueueInv'
  BY <1>1 DEF QueueInv, Copies
<1>12. DurableInv' /\ EndInv'
  BY <1>1 DEF DurableInv, EndInv, ToolsBusy
<1>13. CallTyped'
  BY <1>1, Nones DEF CallTyped
<1>14. CallInv'
  BY <1>1, Nones DEF CallInv
<1>15. SettledInv'
  BY <1>1, Nones DEF SettledInv
<1> QED
  BY <1>1, <1>10, <1>11, <1>12, <1>13, <1>14, <1>15

\* The same with a failed journal.
LEMMA RequestCompactionFails ==
  ASSUME Failed, RequestCompaction
  PROVE  Failed'
<1> USE DEF Failed, Steady, Typed
<1>1. /\ UNCHANGED <<phase, step, slot, queue, disk, journal, commit, after, pending, preparing,
                        starting, deferred, failing, active, compaction, spent, tools, shutdown,
                        error, ended, unanswered, returned, nextText>>
      /\ call = "none" /\ shutdown = "open" /\ call' = "compact"
  BY DEF RequestCompaction, agentVars, ownerVars, inputVars, userVars, exitVars
<1>10. AgentTyped' /\ FileTyped' /\ InputTyped' /\ OwnerTyped' /\ AgentInv'
  BY <1>1 DEF AgentTyped, FileTyped, Thens, InputTyped, OwnerTyped, AgentInv, Unsettled
<1>11. QueueInv'
  BY <1>1 DEF QueueInv, Copies
<1>12. DurableInv' /\ EndInv'
  BY <1>1 DEF DurableInv, EndInv, ToolsBusy
<1>13. CallTyped'
  BY <1>1, Nones DEF CallTyped
<1>14. CallInv'
  BY <1>1, Nones DEF CallInv
<1>15. SettledInv'
  BY <1>1, Nones DEF SettledInv
<1> QED
  BY <1>1, <1>10, <1>11, <1>12, <1>13, <1>14, <1>15

\* The same with a failed journal.
LEMMA DropFails ==
  ASSUME Failed, Drop
  PROVE  Failed'
<1> USE DEF Failed, Steady, Typed
<1>1. /\ UNCHANGED <<phase, step, slot, queue, disk, journal, commit, after, pending, preparing,
                        starting, deferred, failing, active, compaction, spent, tools, shutdown,
                        ended, unanswered, returned, nextText>>
      /\ call # "none" /\ call' = "none" /\ error' = "none"
      /\ after \in Stops
  BY DEF Drop, agentVars, ownerVars, inputVars, userVars, exitVars, CallInv
<1>10. AgentTyped' /\ FileTyped' /\ InputTyped' /\ OwnerTyped' /\ AgentInv'
  BY <1>1 DEF AgentTyped, FileTyped, Thens, InputTyped, OwnerTyped, AgentInv, Unsettled
<1>11. QueueInv'
  BY <1>1 DEF QueueInv, Copies
<1>12. DurableInv' /\ EndInv'
  BY <1>1 DEF DurableInv, EndInv, ToolsBusy
<1>13. CallTyped'
  BY <1>1, Nones DEF CallTyped
<1>14. CallInv'
  BY <1>1, Nones DEF CallInv
<1>15. SettledInv'
  BY <1>1, Nones DEF SettledInv
<1> QED
  BY <1>1, <1>10, <1>11, <1>12, <1>13, <1>14, <1>15

\* A call returns when nothing is left to do before the next answer.
LEMMA ReturnKeeps ==
  ASSUME Alive, Return
  PROVE  Alive'
<1> USE DEF Alive, Lives, Steady, Typed, LiveInv
<1>1. /\ UNCHANGED <<phase, step, slot, queue, disk, journal, commit, after, pending, preparing,
                        starting, deferred, failing, active, compaction, spent, tools, shutdown,
                        error, ended, unanswered, returned, nextText>>
      /\ call # "none" /\ error = "none" /\ call' = "none"
  BY DEF Return, Quiet, Settled, Driving, agentVars, ownerVars, inputVars, userVars, exitVars
<1>10. AgentTyped' /\ FileTyped' /\ InputTyped' /\ OwnerTyped' /\ AgentInv'
  BY <1>1 DEF AgentTyped, FileTyped, Thens, InputTyped, OwnerTyped, AgentInv, Unsettled
<1>11. QueueInv'
  BY <1>1 DEF QueueInv, Copies
<1>12. DurableInv' /\ EndInv' /\ DueInv'
  BY <1>1 DEF DurableInv, EndInv, ToolsBusy, DueInv, Due, StopDue, Stopped
<1>13. CommitInv' /\ SoloInv' /\ ToolInv'
  BY <1>1 DEF CommitInv, Stopped, SoloInv, Due, StopDue, Streams, ToolsBusy, ToolInv, Copies
<1>14. EffectInv' /\ SummaryInv' /\ AttemptInv'
  BY <1>1 DEF EffectInv, ToolsBusy, SummaryInv, Due, StopDue, Streams, AttemptInv, NextDisk
<1>15. OwnInv' /\ ClosingInv'
  BY <1>1 DEF OwnInv, InterruptPending, Copies, ClosingInv, Due, StopDue
<1>16. CallTyped'
  BY <1>1, Nones DEF CallTyped
<1>17. CallInv'
  BY <1>1, Nones DEF CallInv
<1>18. SettledInv'
  BY <1>1, Nones DEF SettledInv
<1> QED
  BY <1>1, <1>10, <1>11, <1>12, <1>13, <1>14, <1>15, <1>16, <1>17, <1>18

\* The user's summary begins for a runtime at rest.
LEMMA BeginRequestedCompactionKeeps ==
  ASSUME Alive, BeginRequestedCompaction
  PROVE  Alive'
<1> USE DEF Alive, Lives, Steady, Typed, LiveInv
<1>1. /\ UNCHANGED <<phase, step, slot, queue, disk, journal, after, pending, preparing,
                        starting, deferred, failing, active, spent, tools, shutdown, error,
                        ended, unanswered, returned, nextText>>
      /\ call # "none" /\ error = "none" /\ commit = NoCommit /\ after = "none" /\ deferred = NoStep
      /\ call = "compact" /\ call' = "submit" /\ shutdown = "open" /\ phase = "idle" /\ pending = <<>>
      /\ starting = NoStart /\ failing = NoStep /\ active = NoModel /\ compaction = NoCompaction /\ ~ToolsBusy
      /\ compaction' \in Summaries /\ compaction' # NoCompaction /\ compaction'.phase = "authorizing"
      /\ compaction'.continuation = "requested" /\ compaction'.step = <<step[1], 0>>
         /\ compaction'.source = <<phase, step>> /\ compaction'.requested = TRUE
      /\ Begun({Attempt("summary", <<step[1], 0>>)}, {}, "none", {}, <<>>, <<>>, "StartCompaction")
      /\ commit'.reaction.adds = {Attempt("summary", compaction'.step)}
  <2>1. /\ call = "compact" /\ error = "none" /\ commit = NoCommit /\ after = "none"
        /\ deferred = NoStep /\ shutdown = "open" /\ phase = "idle" /\ pending = <<>>
        /\ starting = NoStart /\ failing = NoStep /\ active = NoModel
        /\ compaction = NoCompaction /\ ~ToolsBusy
    BY DEF BeginRequestedCompaction, Quiet, Settled, Driving, HasActiveWork
  <2>2. <<step[1], 0>> \in Steps /\ <<phase, step>> \in Phases \X Steps
    BY StepsTyped, BoundsTyped DEF AgentTyped
  <2>3. /\ compaction' = [phase |-> "authorizing", continuation |-> "requested", trigger |-> "none",
                          step |-> <<step[1], 0>>, complete |-> FALSE, source |-> <<phase, step>>,
                          requested |-> TRUE]
        /\ Begin(Adds({Attempt("summary", <<step[1], 0>>)}), <<>>, "StartCompaction")
    BY DEF BeginRequestedCompaction, StartAttempt
  <2>4. /\ compaction' \in Summaries /\ compaction' # NoCompaction
    BY <2>2, <2>3, Nones DEF Summaries
  <2>5. {Attempt("summary", <<step[1], 0>>)} \in SUBSET Facts /\ "StartCompaction" \in Thens
    BY <2>2, FactsTyped DEF Thens
  <2>6. Begun({Attempt("summary", <<step[1], 0>>)}, {}, "none", {}, <<>>, <<>>, "StartCompaction")
    BY <2>3, <2>5, BegunAdds
  <2>7. commit'.reaction.adds = {Attempt("summary", compaction'.step)}
    BY <2>3, <2>6 DEF Begun
  <2> QED
    BY <2>1, <2>3, <2>4, <2>6, <2>7
    DEF BeginRequestedCompaction, agentVars, inputVars, userVars, exitVars
<1>10. AgentTyped' /\ InputTyped' /\ AgentInv'
  BY <1>1 DEF AgentTyped, InputTyped, AgentInv, Unsettled
<1>11. QueueInv'
  BY <1>1 DEF QueueInv, Copies
<1>12. FileTyped'
  BY <1>1, Nones DEF FileTyped, Thens, Begun
<1>13. OwnerTyped'
  BY <1>1, Nones DEF OwnerTyped, Begun
<1>14. CallTyped'
  BY <1>1, Nones DEF CallTyped, Begun
<1>15. CallInv'
  BY <1>1, Nones DEF CallInv, Begun
<1>16. DurableInv'
  BY <1>1, Nones DEF DurableInv, Begun, ToolsBusy
<1>17. SettledInv'
  BY <1>1, Nones DEF SettledInv, Begun
<1>18. EndInv'
  BY <1>1, Nones DEF EndInv, ToolsBusy, Begun
<1>19. DueInv'
  BY <1>1, Nones DEF DueInv, Due, StopDue, Stopped, Begun, OwnerTyped
<1>20. CommitInv'
  BY <1>1, Nones DEF CommitInv, Stopped, Begun
<1>21. SoloInv'
  BY <1>1, Nones DEF SoloInv, Due, StopDue, Streams, ToolsBusy, Begun
<1>22. ToolInv'
  BY <1>1, Nones DEF ToolInv, Due, StopDue, Copies, Begun
<1>23. EffectInv'
  BY <1>1, Nones DEF EffectInv, ToolsBusy, Begun
<1>24. SummaryInv'
  BY <1>1, Nones DEF SummaryInv, Due, StopDue, Streams, Begun
<1>25. AttemptInv'
  <2>1. NextDisk' = disk \cup {Attempt("summary", compaction'.step)}
    BY <1>1 DEF NextDisk, Begun
  <2>2. NextDisk = disk
    BY <1>1, Nones DEF NextDisk
  <2>3. ASSUME NEW s \in Steps PROVE Attempt("summary", s) \notin disk
    BY <1>1, <2>2, Nones DEF AttemptInv
  <2>4. ASSUME NEW s \in Steps, Attempt("summary", s) \in NextDisk' PROVE s = compaction'.step
    BY <2>1, <2>3, <2>4, FactsApart
  <2>5. ASSUME NEW s \in Steps, Attempt("model", s) \in NextDisk' PROVE Attempt("model", s) \in disk
    BY <2>1, <2>5, FactsApart
  <2>6. ASSUME NEW n \in 0..MaxTexts, Opened(n) \in NextDisk' PROVE Opened(n) \in disk
    BY <2>1, <2>6, FactsApart
  <2> QED
    BY <1>1, <2>2, <2>4, <2>5, <2>6, Nones DEF AttemptInv, Due, Begun
<1>26. OwnInv'
  BY <1>1, Nones DEF OwnInv, InterruptPending, Copies, Begun
<1>27. ClosingInv'
  BY <1>1, Nones DEF ClosingInv, Due, StopDue, Begun
<1> QED
  BY <1>1, <1>10, <1>11, <1>12, <1>13, <1>14, <1>15, <1>16, <1>17, <1>18, <1>19, <1>20, <1>21,
    <1>22, <1>23, <1>24, <1>25, <1>26, <1>27

\* A stop joins the summarizer, whose attempt is closed.
LEMMA JoinCompactionKeeps ==
  ASSUME Alive, NEW complete \in BOOLEAN, JoinCompaction(complete)
  PROVE  Alive'
<1> USE DEF Alive, Lives, Steady, Typed, LiveInv
<1>1. /\ UNCHANGED <<phase, step, slot, queue, disk, journal, after, pending, preparing,
                        starting, deferred, failing, active, spent, tools, shutdown, call, error,
                        ended, unanswered, returned, nextText>>
      /\ call # "none" /\ error = "none" /\ commit = NoCommit /\ Stopped /\ active = NoModel
      /\ compaction # NoCompaction /\ compaction.phase = "running"
      /\ compaction' \in Summaries /\ compaction' # NoCompaction /\ compaction'.phase = "finishing"
      /\ compaction'.trigger = compaction.trigger /\ compaction'.step = compaction.step
         /\ compaction'.source = compaction.source /\ compaction'.requested = compaction.requested
      /\ compaction'.continuation = "cancelled"
      /\ Begun({}, {Attempt("summary", compaction.step)}, "none", {}, <<>>, <<>>, "FinishCompaction")
  <2>1. /\ call # "none" /\ error = "none" /\ commit = NoCommit /\ Stopped /\ active = NoModel
        /\ compaction.phase = "running" /\ compaction \in Summaries /\ compaction # NoCompaction
    BY Nones DEF JoinCompaction, Stopping, Stops, Stopped, After, Driving, Uncommitted, CompactionRunning, OwnerTyped
  <2>2. /\ compaction' = [compaction EXCEPT !.phase = "finishing", !.complete = complete,
                                           !.continuation = "cancelled"]
        /\ Begin(Clears({Attempt("summary", compaction.step)}), <<>>, "FinishCompaction")
    BY DEF JoinCompaction, CompactionOver
  <2>3. {Attempt("summary", compaction.step)} \in SUBSET Facts /\ "FinishCompaction" \in Thens
    BY <2>1, FactsTyped DEF Summaries, Thens
  <2>4. Begun({}, {Attempt("summary", compaction.step)}, "none", {}, <<>>, <<>>, "FinishCompaction")
    BY <2>2, <2>3, BegunClears
  <2>5. compaction' \in Summaries /\ compaction' # NoCompaction
    BY <2>1, <2>2, Nones DEF Summaries
  <2> QED
    BY <2>1, <2>2, <2>4, <2>5
    DEF JoinCompaction, agentVars, inputVars, userVars, exitVars, Summaries
<1>10. AgentTyped' /\ InputTyped' /\ CallTyped' /\ AgentInv' /\ SettledInv'
  BY <1>1 DEF AgentTyped, InputTyped, CallTyped, AgentInv, Unsettled, SettledInv
<1>11. QueueInv'
  BY <1>1 DEF QueueInv, Copies
<1>12. FileTyped'
  BY <1>1, Nones DEF FileTyped, Thens, Begun, Stopped
<1>13. OwnerTyped'
  BY <1>1, Nones DEF OwnerTyped, Begun, Stopped, Summaries
<1>14. CallInv'
  BY <1>1, Nones DEF CallInv, Begun, Stopped
<1>15. DurableInv'
  BY <1>1, Nones DEF DurableInv, Begun, Stopped, SoloInv, ToolsBusy
<1>16. EndInv'
  BY <1>1, Nones DEF EndInv, ToolsBusy, Begun, Stopped
<1>17. DueInv'
  BY <1>1, Nones DEF DueInv, Due, StopDue, Stopped, Begun, OwnerTyped, SoloInv
<1>18. CommitInv'
  BY <1>1, Nones DEF CommitInv, Stopped, Begun, SoloInv
<1>19. SoloInv'
  BY <1>1, Nones DEF SoloInv, Due, StopDue, Streams, ToolsBusy, Begun, Stopped, DueInv
<1>20. ToolInv'
  BY <1>1, Nones DEF ToolInv, Due, StopDue, Copies, Begun, Stopped, SoloInv, ToolsBusy
<1>21. EffectInv'
  BY <1>1, Nones DEF EffectInv, ToolsBusy, Begun, Stopped
<1>22. SummaryInv'
  BY <1>1, Nones DEF SummaryInv, Due, StopDue, Streams, Begun, Stopped
<1>23. AttemptInv'
  BY <1>1, Nones, FactsApart DEF AttemptInv, Due, NextDisk, Begun, Stopped, DueInv, SoloInv,
    OwnerTyped
<1>24. OwnInv'
  BY <1>1, Nones DEF OwnInv, InterruptPending, Copies, Begun, Stopped, DueInv, Due, StopDue
<1>25. ClosingInv'
  BY <1>1, Nones DEF ClosingInv, Due, StopDue, Begun, Stopped
<1> QED
  BY <1>1, <1>10, <1>11, <1>12, <1>13, <1>14, <1>15, <1>16, <1>17, <1>18, <1>19, <1>20, <1>21,
    <1>22, <1>23, <1>24, <1>25

\* The summarizer ends on its own.
LEMMA CompactionEndsKeeps ==
  ASSUME Alive, NEW complete \in BOOLEAN, CompactionEnds(complete)
  PROVE  Alive'
<1> USE DEF Alive, Lives, Steady, Typed, LiveInv
<1>1. /\ UNCHANGED <<phase, step, slot, queue, disk, journal, after, pending, preparing,
                        starting, deferred, failing, active, spent, tools, shutdown, call, error,
                        ended, unanswered, returned, nextText>>
      /\ call # "none" /\ error = "none" /\ commit = NoCommit /\ after = "none" /\ deferred = NoStep /\ call = "update"
      /\ compaction # NoCompaction /\ compaction.phase = "running"
      /\ compaction' \in Summaries /\ compaction' # NoCompaction /\ compaction'.phase = "finishing"
      /\ compaction'.trigger = compaction.trigger /\ compaction'.step = compaction.step
         /\ compaction'.source = compaction.source /\ compaction'.requested = compaction.requested
      /\ compaction'.continuation = compaction.continuation
      /\ Begun({}, {Attempt("summary", compaction.step)}, "none", {}, <<>>, <<>>, "FinishCompaction")
  <2>1. /\ call # "none" /\ error = "none" /\ commit = NoCommit /\ after = "none" /\ deferred = NoStep /\ call = "update"
        /\ compaction.phase = "running" /\ compaction \in Summaries /\ compaction # NoCompaction
    BY Nones DEF CompactionEnds, Waiting, Quiet, Settled, Driving, CompactionRunning, OwnerTyped
  <2>2. /\ compaction' = [compaction EXCEPT !.phase = "finishing", !.complete = complete,
                                           !.continuation = compaction.continuation]
        /\ Begin(Clears({Attempt("summary", compaction.step)}), <<>>, "FinishCompaction")
    BY DEF CompactionEnds, CompactionOver
  <2>3. {Attempt("summary", compaction.step)} \in SUBSET Facts /\ "FinishCompaction" \in Thens
    BY <2>1, FactsTyped DEF Summaries, Thens
  <2>4. Begun({}, {Attempt("summary", compaction.step)}, "none", {}, <<>>, <<>>, "FinishCompaction")
    BY <2>2, <2>3, BegunClears
  <2>5. compaction' \in Summaries /\ compaction' # NoCompaction
    BY <2>1, <2>2, Nones DEF Summaries
  <2> QED
    BY <2>1, <2>2, <2>4, <2>5
    DEF CompactionEnds, agentVars, inputVars, userVars, exitVars, Summaries
<1>10. AgentTyped' /\ InputTyped' /\ CallTyped' /\ AgentInv' /\ SettledInv'
  BY <1>1 DEF AgentTyped, InputTyped, CallTyped, AgentInv, Unsettled, SettledInv
<1>11. QueueInv'
  BY <1>1 DEF QueueInv, Copies
<1>12. FileTyped'
  BY <1>1, Nones DEF FileTyped, Thens, Begun, Stopped
<1>13. OwnerTyped'
  BY <1>1, Nones DEF OwnerTyped, Begun, Stopped, Summaries
<1>14. CallInv'
  BY <1>1, Nones DEF CallInv, Begun, Stopped
<1>15. DurableInv'
  BY <1>1, Nones DEF DurableInv, Begun, Stopped, SoloInv, ToolsBusy
<1>16. EndInv'
  BY <1>1, Nones DEF EndInv, ToolsBusy, Begun, Stopped
<1>17. DueInv'
  BY <1>1, Nones DEF DueInv, Due, StopDue, Stopped, Begun, OwnerTyped, SoloInv
<1>18. CommitInv'
  BY <1>1, Nones DEF CommitInv, Stopped, Begun, SoloInv
<1>19. SoloInv'
  BY <1>1, Nones DEF SoloInv, Due, StopDue, Streams, ToolsBusy, Begun, Stopped, DueInv
<1>20. ToolInv'
  BY <1>1, Nones DEF ToolInv, Due, StopDue, Copies, Begun, Stopped, SoloInv, ToolsBusy
<1>21. EffectInv'
  BY <1>1, Nones DEF EffectInv, ToolsBusy, Begun, Stopped
<1>22. SummaryInv'
  BY <1>1, Nones DEF SummaryInv, Due, StopDue, Streams, Begun, Stopped, SoloInv, CallInv
<1>23. AttemptInv'
  BY <1>1, Nones, FactsApart DEF AttemptInv, Due, NextDisk, Begun, Stopped, DueInv, SoloInv,
    OwnerTyped
<1>24. OwnInv'
  BY <1>1, Nones DEF OwnInv, InterruptPending, Copies, Begun, Stopped, SoloInv, DueInv, OwnerTyped
<1>25. ClosingInv'
  BY <1>1, Nones DEF ClosingInv, Due, StopDue, Begun, Stopped
<1> QED
  BY <1>1, <1>10, <1>11, <1>12, <1>13, <1>14, <1>15, <1>16, <1>17, <1>18, <1>19, <1>20, <1>21,
    <1>22, <1>23, <1>24, <1>25

\* A stop joins the request, whose attempt is closed unless its future panicked.
LEMMA JoinModelKeeps ==
  ASSUME Alive, NEW outcome \in {"stopped", "failed", "overflow", "abnormal", "cancelled"},
         "late_overflow" \notin Races, JoinModel(outcome)
  PROVE  Alive'
<1> USE DEF Alive, Lives, Steady, Typed, LiveInv
<1>1. /\ UNCHANGED <<phase, step, slot, queue, disk, journal, pending, preparing, starting,
                        deferred, failing, compaction, spent, tools, shutdown, call, error,
                        ended, returned, nextText>>
      /\ call # "none" /\ error = "none" /\ commit = NoCommit /\ Stopped
      /\ outcome = "overflow" => after = "Shutdown"
      /\ active # NoModel /\ active.delivered = FALSE /\ active.settlement = "running"
      /\ active' \in Models /\ active' # NoModel /\ active'.settlement = "ended"
         /\ active'.step = active.step /\ active'.delivered = FALSE /\ active'.outcome = outcome
      /\ \/ /\ outcome = "abnormal" /\ unanswered' = unanswered \cup {active.step}
            /\ after' = after /\ commit' = commit
         \/ /\ outcome # "abnormal" /\ unanswered' = unanswered /\ after' = after
            /\ Begun({}, {Attempt("model", active.step)}, "none", {}, <<>>, <<>>, "none")
  <2>1. /\ call # "none" /\ error = "none" /\ commit = NoCommit /\ Stopped
        /\ (outcome = "overflow" => after = "Shutdown")
        /\ active.settlement = "running" /\ active \in Models /\ active # NoModel
        /\ active.delivered = FALSE
    BY Nones DEF JoinModel, Stopping, Stops, Stopped, After, Driving, Uncommitted, ModelRunning, OwnerTyped, DueInv, Models
  <2>2. RetainResult(outcome, after)
    BY DEF JoinModel
  <2>3. active' = [active EXCEPT !.settlement = "ended", !.outcome = outcome]
    BY <2>2 DEF RetainResult
  <2>4. /\ active' \in Models /\ active' # NoModel /\ active'.settlement = "ended"
        /\ active'.step = active.step /\ active'.delivered = FALSE /\ active'.outcome = outcome
    BY <2>1, <2>3, Nones DEF Models, Outcomes
  <2>5. outcome # "abnormal" =>
          Begun({}, {Attempt("model", active.step)}, "none", {}, <<>>, <<>>, "none")
    <3>1. {Attempt("model", active.step)} \in SUBSET Facts /\ "none" \in Thens
      BY <2>1, FactsTyped DEF Models, Thens
    <3>2. outcome # "abnormal" => Begin(Clears({Attempt("model", active.step)}), <<>>, "none")
      BY <2>1, <2>2 DEF RetainResult, Stops, Stopped
    <3> QED BY <3>1, <3>2, BegunClears
  <2>6. /\ unanswered' = IF outcome = "abnormal" THEN unanswered \cup {active.step} ELSE unanswered
        /\ outcome = "abnormal" => after' = after /\ commit' = commit
        /\ outcome # "abnormal" => after' = after
    BY <2>2 DEF RetainResult
  <2> QED
    BY <2>1, <2>4, <2>5, <2>6
    DEF JoinModel, agentVars, inputVars, userVars
<1>10. AgentTyped' /\ InputTyped' /\ AgentInv'
  BY <1>1 DEF AgentTyped, InputTyped, AgentInv, Unsettled
<1>11. QueueInv'
  BY <1>1 DEF QueueInv, Copies
<1>12. FileTyped'
  BY <1>1, Nones DEF FileTyped, Thens, Begun, Stopped
<1>13. OwnerTyped'
  BY <1>1, Nones DEF OwnerTyped, Begun, Stopped
<1>14. CallTyped'
  BY <1>1, Nones DEF CallTyped, Begun, Stopped, OwnerTyped, Models
<1>15. CallInv'
  BY <1>1, Nones DEF CallInv, Begun, Stopped
<1>16. DurableInv'
  BY <1>1, Nones DEF DurableInv, Begun, Stopped, SoloInv, ToolsBusy, OwnerTyped
<1>17. SettledInv'
  BY <1>1, Nones DEF SettledInv, Begun, Stopped
<1>18. EndInv'
  BY <1>1, Nones DEF EndInv, ToolsBusy, Begun, Stopped
<1>19. DueInv'
  BY <1>1, Nones DEF DueInv, Due, StopDue, Stopped, Begun, SoloInv, OwnerTyped
<1>20. CommitInv'
  BY <1>1, Nones DEF CommitInv, Stopped, Begun, SoloInv
<1>21. SoloInv'
  BY <1>1, Nones DEF SoloInv, Due, StopDue, Streams, ToolsBusy, Begun, Stopped, DueInv
<1>22. ToolInv'
  BY <1>1, Nones DEF ToolInv, Due, StopDue, Copies, Begun, Stopped, SoloInv, ToolsBusy
<1>23. EffectInv'
  BY <1>1, Nones DEF EffectInv, ToolsBusy, Begun, Stopped
<1>24. SummaryInv'
  BY <1>1, Nones DEF SummaryInv, Due, StopDue, Streams, Begun, Stopped, SoloInv
<1>25. AttemptInv'
  BY <1>1, Nones, FactsApart DEF AttemptInv, Due, NextDisk, Begun, Stopped, SoloInv, DueInv,
    OwnerTyped
<1>26. OwnInv'
  BY <1>1, Nones DEF OwnInv, InterruptPending, Copies, Begun, Stopped, SoloInv, DueInv
<1>27. ClosingInv'
  BY <1>1, Nones DEF ClosingInv, Due, StopDue, Begun, Stopped
<1> QED
  BY <1>1, <1>10, <1>11, <1>12, <1>13, <1>14, <1>15, <1>16, <1>17, <1>18, <1>19, <1>20, <1>21,
    <1>22, <1>23, <1>24, <1>25, <1>26, <1>27

\* The provider's response ends on its own.
LEMMA ModelEndsKeeps ==
  ASSUME Alive, NEW outcome \in {"stopped", "calls", "failed", "overflow", "abnormal"}, ModelEnds(outcome)
  PROVE  Alive'
<1> USE DEF Alive, Lives, Steady, Typed, LiveInv
<1>1. /\ UNCHANGED <<phase, step, slot, queue, disk, journal, pending, preparing, starting,
                        deferred, failing, compaction, spent, tools, shutdown, call, error,
                        ended, returned, nextText>>
      /\ call # "none" /\ error = "none" /\ commit = NoCommit /\ after = "none" /\ deferred = NoStep
      /\ active # NoModel /\ active.delivered = FALSE /\ active.settlement = "running"
      /\ active' \in Models /\ active' # NoModel /\ active'.settlement = "ended"
         /\ active'.step = active.step /\ active'.delivered = FALSE /\ active'.outcome = outcome
      /\ \/ /\ outcome = "abnormal" /\ unanswered' = unanswered \cup {active.step}
            /\ after' = "SettleModel" /\ commit' = commit
         \/ /\ outcome # "abnormal" /\ unanswered' = unanswered /\ after' = after
            /\ Begun({}, {Attempt("model", active.step)}, "none", {}, <<>>, <<>>, "SettleModel")
  <2>1. /\ call # "none" /\ error = "none" /\ commit = NoCommit /\ after = "none" /\ deferred = NoStep
        /\ active.settlement = "running" /\ active \in Models /\ active # NoModel
        /\ active.delivered = FALSE
    BY Nones DEF ModelEnds, Waiting, Quiet, Settled, Driving, ModelRunning, OwnerTyped, DueInv, Models
  <2>2. RetainResult(outcome, "SettleModel")
    BY DEF ModelEnds
  <2>3. active' = [active EXCEPT !.settlement = "ended", !.outcome = outcome]
    BY <2>2 DEF RetainResult
  <2>4. /\ active' \in Models /\ active' # NoModel /\ active'.settlement = "ended"
        /\ active'.step = active.step /\ active'.delivered = FALSE /\ active'.outcome = outcome
    BY <2>1, <2>3, Nones DEF Models, Outcomes
  <2>5. outcome # "abnormal" =>
          Begun({}, {Attempt("model", active.step)}, "none", {}, <<>>, <<>>, "SettleModel")
    <3>1. {Attempt("model", active.step)} \in SUBSET Facts /\ "SettleModel" \in Thens
      BY <2>1, FactsTyped DEF Models, Thens
    <3>2. outcome # "abnormal" => Begin(Clears({Attempt("model", active.step)}), <<>>, "SettleModel")
      BY <2>1, <2>2 DEF RetainResult, Stops, Stopped
    <3> QED BY <3>1, <3>2, BegunClears
  <2>6. /\ unanswered' = IF outcome = "abnormal" THEN unanswered \cup {active.step} ELSE unanswered
        /\ outcome = "abnormal" => after' = "SettleModel" /\ commit' = commit
        /\ outcome # "abnormal" => after' = after
    BY <2>2 DEF RetainResult
  <2> QED
    BY <2>1, <2>4, <2>5, <2>6
    DEF ModelEnds, agentVars, inputVars, userVars
<1>10. AgentTyped' /\ InputTyped' /\ AgentInv'
  BY <1>1 DEF AgentTyped, InputTyped, AgentInv, Unsettled
<1>11. QueueInv'
  BY <1>1 DEF QueueInv, Copies
<1>12. FileTyped'
  BY <1>1, Nones DEF FileTyped, Thens, Begun, Stopped
<1>13. OwnerTyped'
  BY <1>1, Nones DEF OwnerTyped, Begun, Stopped
<1>14. CallTyped'
  BY <1>1, Nones DEF CallTyped, Begun, Stopped, OwnerTyped, Models
<1>15. CallInv'
  BY <1>1, Nones DEF CallInv, Begun, Stopped
<1>16. DurableInv'
  BY <1>1, Nones DEF DurableInv, Begun, Stopped, SoloInv, ToolsBusy, OwnerTyped
<1>17. SettledInv'
  BY <1>1, Nones DEF SettledInv, Begun, Stopped
<1>18. EndInv'
  BY <1>1, Nones DEF EndInv, ToolsBusy, Begun, Stopped
<1>19. DueInv'
  BY <1>1, Nones DEF DueInv, Due, StopDue, Stopped, Begun, SoloInv, OwnerTyped
<1>20. CommitInv'
  BY <1>1, Nones DEF CommitInv, Stopped, Begun, SoloInv
<1>21. SoloInv'
  BY <1>1, Nones DEF SoloInv, Due, StopDue, Streams, ToolsBusy, Begun, Stopped, DueInv
<1>22. ToolInv'
  BY <1>1, Nones DEF ToolInv, Due, StopDue, Copies, Begun, Stopped, SoloInv, ToolsBusy
<1>23. EffectInv'
  BY <1>1, Nones DEF EffectInv, ToolsBusy, Begun, Stopped
<1>24. SummaryInv'
  BY <1>1, Nones DEF SummaryInv, Due, StopDue, Streams, Begun, Stopped, SoloInv
<1>25. AttemptInv'
  BY <1>1, Nones, FactsApart DEF AttemptInv, Due, NextDisk, Begun, Stopped, SoloInv, DueInv,
    OwnerTyped
<1>26. OwnInv'
  BY <1>1, Nones DEF OwnInv, InterruptPending, Copies, Begun, Stopped, SoloInv, DueInv
<1>27. ClosingInv'
  BY <1>1, Nones DEF ClosingInv, Due, StopDue, Begun, Stopped
<1> QED
  BY <1>1, <1>10, <1>11, <1>12, <1>13, <1>14, <1>15, <1>16, <1>17, <1>18, <1>19, <1>20, <1>21,
    <1>22, <1>23, <1>24, <1>25, <1>26, <1>27

-----------------------------------------------------------------------------
(* What the starts leave behind.                                            *)

\* The budget of a turn is a budget.
LEMMA SpentTyped ==
  ASSUME spent \in Budgets, NEW s \in Steps
  PROVE  SpentIn(s[1]) \in Budgets
BY StepsTyped, BoundsTyped DEF SpentIn, Budgets

Refused ==
  /\ shutdown # "open" /\ error' = "shutting_down"
  /\ starting' = starting /\ deferred' = NoStep /\ commit' = NoCommit
Held(s) ==
  /\ shutdown = "open" /\ active # NoModel /\ error' = error
  /\ starting' = starting /\ deferred' = s /\ commit' = NoCommit
Authorized(s) ==
  /\ shutdown = "open" /\ active = NoModel /\ error' = error
  /\ starting' \in Starts /\ starting' # NoStart /\ starting'.step = s /\ starting'.cancelled = FALSE
  /\ deferred' = NoStep
  /\ Begun({Attempt("model", s)}, {}, "none", {}, <<>>, <<>>, "StartModel")

\* A step is refused under a shutdown, held behind a completion, or recorded.
LEMMA AuthorizeIs ==
  ASSUME NEW s \in Steps, s # NoStep, starting = NoStart, ~ToolsBusy,
         active = NoModel \/ active.delivered, Authorize(s, NoStep)
  PROVE  Refused \/ Held(s) \/ Authorized(s)
<1>1. CASE shutdown # "open"
  BY <1>1 DEF Authorize, Refused
<1>2. CASE shutdown = "open" /\ active # NoModel
  BY <1>2 DEF Authorize, Held
<1>3. CASE shutdown = "open" /\ active = NoModel
  <2>1. /\ starting' = [step |-> s, cancelled |-> FALSE] /\ deferred' = NoStep /\ error' = error
        /\ Begin(Adds({Attempt("model", s)}), <<>>, "StartModel")
    BY <1>3 DEF Authorize
  <2>2. {Attempt("model", s)} \in SUBSET Facts /\ "StartModel" \in Thens
    BY FactsTyped DEF Thens
  <2>3. Begun({Attempt("model", s)}, {}, "none", {}, <<>>, <<>>, "StartModel")
    BY <2>1, <2>2, BegunAdds
  <2>4. starting' \in Starts /\ starting' # NoStart
    BY <2>1, Nones DEF Starts
  <2> QED BY <1>3, <2>1, <2>3, <2>4 DEF Authorized
<1> QED BY <1>1, <1>2, <1>3

Summarized(s) ==
  /\ compaction' \in Summaries /\ compaction' # NoCompaction
  /\ compaction'.phase = "authorizing" /\ compaction'.continuation = "model"
  /\ compaction'.step = s /\ compaction'.source = <<phase, step>>
  /\ compaction'.requested = FALSE
  /\ Begun({Attempt("summary", s)}, {}, "none", {}, <<>>, <<>>, "StartCompaction")
  /\ UNCHANGED <<starting, failing, error>> /\ deferred' = NoStep
FailsFor(s) ==
  /\ failing' = s /\ after' = "FailCompaction" /\ commit' = NoCommit /\ deferred' = NoStep
  /\ UNCHANGED <<starting, compaction, error>>

\* A compaction begins, is passed over for the step, or fails it.
LEMMA BeginCompactionIs ==
  ASSUME phase \in Phases, step \in Steps, NEW s \in Steps, NEW base, NEW budget \in Budgets,
         NEW trigger \in {"soft", "hard", "context"}, BeginCompaction(s, trigger, base, budget, NoStep)
  PROVE  /\ spent' \in Budgets
         /\ \/ Summarized(s) /\ after' = base
            \/ /\ trigger = "soft" /\ Authorize(s, NoStep) /\ after' = base
               /\ UNCHANGED <<failing, compaction>>
            \/ trigger # "soft" /\ FailsFor(s)
<1>1. PICK planned \in BOOLEAN :
        IF planned /\ HasSummaryAttempt(budget)
        THEN /\ spent' = [budget EXCEPT !.summaries = @ + 1]
             /\ StartAttempt(s, "model", trigger)
             /\ after' = base /\ deferred' = NoStep
             /\ UNCHANGED <<starting, failing, error>>
        ELSE /\ spent' = budget
             /\ UNCHANGED compaction
             /\ IF trigger = "soft"
                THEN /\ Authorize(s, NoStep)
                     /\ after' = base
                     /\ UNCHANGED failing
                ELSE /\ failing' = s /\ after' = "FailCompaction"
                     /\ commit' = NoCommit /\ deferred' = NoStep
                     /\ UNCHANGED <<starting, error>>
  BY DEF BeginCompaction
<1>2. CASE planned /\ HasSummaryAttempt(budget)
  <2>1. spent' = [budget EXCEPT !.summaries = @ + 1] /\ budget.summaries < MaxSummaries
    BY <1>1, <1>2 DEF HasSummaryAttempt
  <2>2. spent' \in Budgets
    BY <2>1, BoundsTyped DEF Budgets
  <2>3. /\ compaction' = [phase |-> "authorizing", continuation |-> "model", trigger |-> trigger,
                          step |-> s, complete |-> FALSE, source |-> <<phase, step>>,
                          requested |-> FALSE]
        /\ Begin(Adds({Attempt("summary", s)}), <<>>, "StartCompaction")
    BY <1>1, <1>2 DEF StartAttempt
  <2>4. {Attempt("summary", s)} \in SUBSET Facts /\ "StartCompaction" \in Thens
    BY FactsTyped DEF Thens
  <2>5. Begun({Attempt("summary", s)}, {}, "none", {}, <<>>, <<>>, "StartCompaction")
    BY <2>3, <2>4, BegunAdds
  <2>6. compaction' \in Summaries /\ compaction' # NoCompaction
    BY <2>3, Nones DEF Summaries
  <2>7. Summarized(s)
    BY <1>1, <1>2, <2>3, <2>5, <2>6 DEF Summarized
  <2> QED BY <1>1, <1>2, <2>2, <2>7
<1>3. CASE ~ (planned /\ HasSummaryAttempt(budget))
  BY <1>1, <1>3 DEF FailsFor
<1> QED BY <1>2, <1>3

\* route_model_call, where nothing else is under way but a completion to release.
Routed(s) ==
  /\ spent' \in Budgets /\ active' = active
  /\ \/ (Refused \/ Held(s) \/ Authorized(s)) /\ UNCHANGED <<failing, compaction, after>>
     \/ active = NoModel /\ Summarized(s) /\ UNCHANGED after
     \/ active = NoModel /\ FailsFor(s)

\* What becomes of a step the agent asks for.
LEMMA RouteIs ==
  ASSUME phase \in Phases, step \in Steps, spent \in Budgets, NEW s \in Steps, s # NoStep,
         starting = NoStart, ~ToolsBusy, compaction = NoCompaction,
         active = NoModel \/ active.delivered, RouteModelCall(s, NoStep)
  PROVE  Routed(s)
<1>1. Authorize(s, NoStep) => Refused \/ Held(s) \/ Authorized(s)
  BY AuthorizeIs
<1>2. active' = active
  BY DEF RouteModelCall
<1>3. PICK pressure \in {"fits", "soft", "hard"} :
        IF active # NoModel \/ pressure = "fits" \/ (pressure = "soft" /\ s[2] # 1)
        THEN /\ Authorize(s, NoStep)
             /\ UNCHANGED <<failing, compaction, spent, after>>
        ELSE BeginCompaction(s, pressure, after, SpentIn(s[1]), NoStep)
  BY DEF RouteModelCall
<1>4. CASE active # NoModel \/ pressure = "fits" \/ (pressure = "soft" /\ s[2] # 1)
  <2>1. Authorize(s, NoStep) /\ UNCHANGED <<failing, compaction, spent, after>>
    BY <1>3, <1>4
  <2> QED BY <1>1, <1>2, <2>1 DEF Routed
<1>5. CASE ~ (active # NoModel \/ pressure = "fits" \/ (pressure = "soft" /\ s[2] # 1))
  <2>1. BeginCompaction(s, pressure, after, SpentIn(s[1]), NoStep)
        /\ pressure \in {"soft", "hard", "context"} /\ active = NoModel
    BY <1>3, <1>5
  <2>2. SpentIn(s[1]) \in Budgets
    BY SpentTyped
  <2>3. /\ spent' \in Budgets
        /\ \/ Summarized(s) /\ after' = after
           \/ /\ Authorize(s, NoStep) /\ after' = after
              /\ UNCHANGED <<failing, compaction>>
           \/ FailsFor(s)
    BY <2>1, <2>2, BeginCompactionIs
  <2> QED BY <1>1, <1>2, <2>1, <2>3 DEF Routed
<1> QED BY <1>4, <1>5

\* abort_turn. The agent is left idle, with nothing of the turn.
Closed ==
  /\ phase' = "idle" /\ slot' = [c \in Calls |-> "none"] /\ step' = step

\* What the end of a turn takes back are facts.
LEMMA CloseTurnTyped ==
  ASSUME step \in Steps
  PROVE  CloseTurn \in SUBSET Facts
BY StepsTyped, FactsTyped DEF CloseTurn

\* An aborted turn is closed and its queue comes back.
LEMMA AbortIs ==
  ASSUME step \in Steps, queue \in Seq(Texts), NEW then \in Thens, NEW keepsTexts \in BOOLEAN,
         AbortTurn(then, keepsTexts)
  PROVE  /\ Closed /\ queue' = <<>>
         /\ Begun({}, CloseTurn, "none", {}, queue, IF keepsTexts THEN queue ELSE <<>>, then)
<1> DEFINE r == [Clears(CloseTurn) EXCEPT !.back = queue]
           rejected == IF keepsTexts THEN queue ELSE <<>>
<1>1. CloseTurn \in SUBSET Facts /\ rejected \in Seq(Texts)
  <2>1. <<>> \in Seq(Texts)
    OBVIOUS
  <2> QED BY <2>1, CloseTurnTyped
<1>2. /\ Clears(CloseTurn) \in Reactions /\ Clears(CloseTurn).adds = {}
      /\ Clears(CloseTurn).clears = CloseTurn /\ Clears(CloseTurn).effect = "none"
      /\ Clears(CloseTurn).calls = {}
  BY <1>1, ClearsTyped
<1>3. /\ r \in Reactions /\ r.adds = {} /\ r.clears = CloseTurn /\ r.effect = "none"
      /\ r.calls = {} /\ r.back = queue
  BY <1>2 DEF Reactions
<1>4. Begin(r, rejected, then) /\ Closed /\ queue' = <<>>
  BY DEF AbortTurn, Closed
<1> HIDE DEF r, rejected
<1>5. /\ commit' \in Commits /\ commit' # NoCommit /\ commit'.written = "no"
      /\ commit'.reaction = r /\ commit'.rejected = rejected /\ commit'.then = then
  BY <1>1, <1>3, <1>4, BeginTyped
<1>6. Begun({}, CloseTurn, "none", {}, queue, rejected, then)
  BY <1>3, <1>5 DEF Begun
<1> QED BY <1>4, <1>6 DEF rejected

\* The request that waited for a completion to be released is started, summarized for or failed.
LEMMA RouteDeferredKeeps ==
  ASSUME Alive, RouteDeferred
  PROVE  Alive'
<1> USE DEF Alive, Lives, Steady, Typed, LiveInv
<1>1. /\ UNCHANGED <<phase, step, slot, queue, disk, journal, pending, preparing, active, tools,
                        shutdown, call, ended, unanswered, returned, nextText>>
      /\ call # "none" /\ error = "none" /\ commit = NoCommit /\ after = "none"
      /\ deferred \in Steps /\ deferred # NoStep /\ Streams(deferred) /\ active = NoModel
      /\ starting = NoStart /\ failing = NoStep /\ compaction = NoCompaction /\ ~ToolsBusy
      /\ Routed(deferred) /\ active' = active
  <2>1. /\ call # "none" /\ error = "none" /\ commit = NoCommit /\ after = "none"
        /\ deferred # NoStep /\ RouteModelCall(deferred, NoStep)
    BY DEF RouteDeferred, After, Driving, Uncommitted
  <2>2. /\ starting = NoStart /\ failing = NoStep /\ compaction = NoCompaction /\ ~ToolsBusy
        /\ Streams(deferred) /\ active = NoModel
    BY <2>1 DEF SoloInv
  <2>3. deferred \in Steps /\ phase \in Phases /\ step \in Steps /\ spent \in Budgets
    BY DEF OwnerTyped, AgentTyped
  <2>4. Routed(deferred)
    BY <2>1, <2>2, <2>3, RouteIs
  <2> QED
    BY <2>1, <2>2, <2>3, <2>4
    DEF RouteDeferred, agentVars, inputVars, userVars, exitVars, Routed
<1>10. AgentTyped' /\ InputTyped' /\ AgentInv'
  BY <1>1 DEF AgentTyped, InputTyped, AgentInv, Unsettled
<1>11. QueueInv'
  BY <1>1 DEF QueueInv, Copies
<1>12. FileTyped'
  BY <1>1, Nones DEF FileTyped, Thens, Routed, Refused, Held, Authorized, Summarized, FailsFor,
    Begun
<1>13. OwnerTyped'
  BY <1>1, Nones, StepsTyped DEF OwnerTyped, Routed, Refused, Held, Authorized, Summarized,
    FailsFor, Begun
<1>14. CallTyped'
  BY <1>1, Nones DEF CallTyped, Routed, Refused, Held, Authorized, Summarized, FailsFor, Begun
<1>15. CallInv'
  BY <1>1, Nones DEF CallInv, Routed, Refused, Held, Authorized, Summarized, FailsFor, Begun
<1>16. DurableInv'
  BY <1>1, Nones, FactsApart DEF DurableInv, Routed, Refused, Held, Authorized, Summarized,
    FailsFor, Begun, ToolsBusy
<1>17. SettledInv'
  BY <1>1, Nones DEF SettledInv, Routed, Refused, Held, Authorized, Summarized, FailsFor, Begun
<1>18. EndInv'
  BY <1>1, Nones DEF EndInv, ToolsBusy, Routed, Refused, Held, Authorized, Summarized, FailsFor,
    Begun
<1>19. DueInv'
  BY <1>1, Nones DEF DueInv, Due, StopDue, Stopped, Routed, Refused, Held, Authorized, Summarized,
    FailsFor, Begun, OwnerTyped
<1>20. CommitInv'
  BY <1>1, Nones DEF CommitInv, Stopped, Routed, Refused, Held, Authorized, Summarized, FailsFor,
    Begun
<1>21. SoloInv'
  BY <1>1, Nones DEF SoloInv, Due, StopDue, Streams, ToolsBusy, Routed, Refused, Held, Authorized,
    Summarized, FailsFor, Begun
<1>22. ToolInv'
  BY <1>1, Nones DEF ToolInv, Due, StopDue, Copies, Routed, Refused, Held, Authorized, Summarized,
    FailsFor, Begun
<1>23. EffectInv'
  BY <1>1, Nones DEF EffectInv, ToolsBusy, Routed, Refused, Held, Authorized, Summarized, FailsFor,
    Begun
<1>24. SummaryInv'
  BY <1>1, Nones DEF SummaryInv, Due, StopDue, Streams, Routed, Refused, Held, Authorized,
    Summarized, FailsFor, Begun, DueInv, AgentInv
<1>25. AttemptInv'
  <2>1. NextDisk = disk /\ commit.written = "none" /\ ~Due("StartModel") /\ ~Due("StartCompaction")
    BY <1>1, Nones DEF NextDisk, Due
  <2>2. \A s \in Steps : Attempt("summary", s) \notin disk
    BY <1>1, <2>1, Nones DEF AttemptInv
  <2>3. \A s \in Steps : Attempt("model", s) \in disk => s \in unanswered
    BY <1>1, <2>1, Nones DEF AttemptInv
  <2>4. CASE commit' = NoCommit
    <3>1. NextDisk' = disk
      BY <1>1, <2>4, Nones DEF NextDisk
    <3>2. ~Due("StartModel")' /\ ~Due("StartCompaction")'
      BY <1>1, <2>4, Nones DEF Due, Routed, Refused, Held, FailsFor
    <3> QED
      BY <1>1, <2>1, <2>2, <2>3, <2>4, <3>1, <3>2, Nones DEF AttemptInv
  <2>5. CASE Authorized(deferred)
    <3>1. NextDisk' = disk \cup {Attempt("model", deferred)}
      BY <1>1, <2>5 DEF NextDisk, Authorized, Begun
    <3>2. \A s \in Steps : /\ Attempt("model", s) \in NextDisk' => Attempt("model", s) \in disk \/ s = deferred
                           /\ Attempt("summary", s) \in NextDisk' => Attempt("summary", s) \in disk
      BY <3>1, FactsApart
    <3>3. \A n \in 0..MaxTexts : Opened(n) \in NextDisk' => Opened(n) \in disk
      BY <3>1, FactsApart
    <3> QED
      BY <1>1, <2>1, <2>2, <2>3, <2>5, <3>2, <3>3, Nones DEF AttemptInv, Due, Authorized, Begun
  <2>6. CASE Summarized(deferred)
    <3>1. NextDisk' = disk \cup {Attempt("summary", deferred)}
      BY <1>1, <2>6 DEF NextDisk, Summarized, Begun
    <3>2. \A s \in Steps : /\ Attempt("summary", s) \in NextDisk' => Attempt("summary", s) \in disk \/ s = deferred
                           /\ Attempt("model", s) \in NextDisk' => Attempt("model", s) \in disk
      BY <3>1, FactsApart
    <3>3. \A n \in 0..MaxTexts : Opened(n) \in NextDisk' => Opened(n) \in disk
      BY <3>1, FactsApart
    <3> QED
      BY <1>1, <2>1, <2>2, <2>3, <2>6, <3>2, <3>3, Nones DEF AttemptInv, Due, Summarized, Begun
  <2> QED
    BY <1>1, <2>4, <2>5, <2>6 DEF Routed, Refused, Held, FailsFor
<1>26. OwnInv'
  BY <1>1, Nones DEF OwnInv, InterruptPending, Copies, Routed, Refused, Held, Authorized,
    Summarized, FailsFor, Begun, AgentInv
<1>27. ClosingInv'
  BY <1>1, Nones DEF ClosingInv, Due, StopDue, Routed, Refused, Held, Authorized, Summarized,
    FailsFor, Begun
<1> QED
  BY <1>1, <1>10, <1>11, <1>12, <1>13, <1>14, <1>15, <1>16, <1>17, <1>18, <1>19, <1>20, <1>21,
    <1>22, <1>23, <1>24, <1>25, <1>26, <1>27

-----------------------------------------------------------------------------
(* The end of a commit.                                                     *)

\* What the commit is followed by is next.
LEMMA FinishPlainKeeps ==
  ASSUME Alive, FinishCommit, commit.written = "ok", commit.reaction.effect = "none"
  PROVE  Alive'
<1> USE DEF Alive, Lives, Steady, Typed, LiveInv
<1>1. /\ UNCHANGED <<phase, step, slot, queue, disk, journal, pending, preparing, starting,
                        deferred, failing, active, compaction, spent, tools, shutdown, call,
                        error, ended, unanswered, nextText>>
      /\ call # "none" /\ error = "none" /\ commit # NoCommit /\ commit.written = "ok"
      /\ commit' = NoCommit /\ returned' \in Seq(Texts)
      /\ \/ commit.then = "none" /\ after' = after
         \/ commit.then # "none" /\ after' = commit.then
  <2>1. /\ call # "none" /\ commit # NoCommit /\ commit \in Commits /\ error = "none"
    BY Nones DEF FinishCommit, FileTyped, CallInv
  <2>2. returned' \in Seq(Texts)
    <3>1. returned' = returned \o commit.reaction.back
      BY DEF FinishCommit, ApplyReaction
    <3>2. returned \in Seq(Texts) /\ commit.reaction.back \in Seq(Texts)
      BY <2>1 DEF InputTyped, Commits, Reactions
    <3> QED BY <3>1, <3>2
  <2> QED
    BY <2>1, <2>2
    DEF FinishCommit, ApplyReaction, agentVars, ownerVars
<1>10. AgentTyped' /\ OwnerTyped' /\ CallTyped' /\ AgentInv'
  BY <1>1 DEF AgentTyped, OwnerTyped, CallTyped, AgentInv, Unsettled
<1>11. QueueInv'
  BY <1>1 DEF QueueInv, Copies
<1>12. EndInv'
  BY <1>1 DEF EndInv, ToolsBusy
<1>13. FileTyped'
  BY <1>1, Nones, NoCommitTyped DEF FileTyped, Thens, Commits
<1>14. InputTyped'
  BY <1>1, Nones DEF InputTyped
<1>15. CallInv'
  BY <1>1, Nones DEF CallInv
<1>16. DurableInv'
  BY <1>1, Nones DEF DurableInv
<1>17. SettledInv'
  BY <1>1, Nones DEF SettledInv
<1>18. DueInv'
  <2>1. /\ failing = NoStep /\ commit.then \in Thens
        /\ after \in {"none", "SettleModel", "Interrupt", "Shutdown"}
        /\ commit.then # "none" => after = "none" \/ (Stopped /\ commit.then = "FinishCompaction")
    BY <1>1 DEF CommitInv, FileTyped, Commits
  <2>2. CASE commit.then = "none" \/ after = "none"
    <3>1. \A k \in Thens \ {"none"} : Due(k)' <=> Due(k)
      BY <1>1, <2>1, <2>2, Nones DEF Due
    <3>2. (Stopped => Stopped') /\ (StopDue' <=> StopDue) /\ after' # "FailCompaction"
      BY <1>1, <2>1, <2>2, Nones DEF StopDue, Stopped, Due, Thens
    <3>3. after = "SettleModel" => after' = "SettleModel"
      BY <1>1, <2>2
    <3>4. active.outcome = "overflow" /\ ~active.delivered => after' # "Interrupt"
      <4>1. CASE commit.then = "none"
        BY <1>1, <4>1 DEF DueInv
      <4>2. CASE after = "none"
        BY <1>1, <2>1, <2>2, <4>2 DEF DueInv, Due, Stopped
      <4> QED BY <2>2, <4>1, <4>2
    <3>5. active.outcome = "cancelled" => Stopped'
      BY <3>2 DEF DueInv
    <3> QED
      BY <1>1, <2>1, <3>1, <3>2, <3>3, <3>4, <3>5 DEF DueInv, Thens
  <2>3. CASE Stopped /\ commit.then = "FinishCompaction"
    <3>1. compaction # NoCompaction /\ active = NoModel /\ starting = NoStart
      BY <2>3, Nones DEF DueInv, SoloInv, Due
    <3> QED
      BY <1>1, <2>1, <2>3, <3>1, Nones DEF DueInv, Due, StopDue, Stopped, SoloInv
  <2> QED BY <2>1, <2>2, <2>3
<1>19. CommitInv'
  BY <1>1, Nones DEF CommitInv, Stopped
<1>20. SoloInv'
  BY <1>1, Nones DEF SoloInv, Due, StopDue, Streams, ToolsBusy, CommitInv, DueInv, Stopped
<1>21. ToolInv'
  BY <1>1, Nones DEF ToolInv, Due, StopDue, Copies, CommitInv, DueInv, Stopped, SoloInv, OwnerTyped,
    ToolsBusy
<1>22. EffectInv'
  BY <1>1, Nones DEF EffectInv, ToolsBusy
<1>23. SummaryInv'
  BY <1>1, Nones DEF SummaryInv, Due, StopDue, Streams, CommitInv, DueInv, Stopped, SoloInv
<1>24. AttemptInv'
  BY <1>1, Nones DEF AttemptInv, Due, NextDisk, CommitInv, DueInv
<1>25. OwnInv'
  BY <1>1, Nones DEF OwnInv, InterruptPending, Copies, CommitInv
<1>26. ClosingInv'
  BY <1>1, Nones DEF ClosingInv, Due, StopDue, CommitInv, Stopped, DueInv
<1> QED
  BY <1>1, <1>10, <1>11, <1>12, <1>13, <1>14, <1>15, <1>16, <1>17, <1>18, <1>19, <1>20, <1>21,
    <1>22, <1>23, <1>24, <1>25, <1>26

\* The request that the records open is started, summarized for, failed or held.
LEMMA FinishCallKeeps ==
  ASSUME Alive, FinishCommit, commit.written = "ok", commit.reaction.effect = "call"
  PROVE  Alive'
<1> USE DEF Alive, Lives, Steady, Typed, LiveInv
<1>1. /\ UNCHANGED <<phase, step, slot, queue, disk, journal, pending, preparing, active, tools,
                        shutdown, call, ended, unanswered, nextText>>
      /\ call # "none" /\ error = "none" /\ commit # NoCommit /\ commit.written = "ok" /\ commit.then = "none"
      /\ returned' \in Seq(Texts)
      /\ phase = "streaming" /\ step # NoStep /\ deferred = NoStep /\ failing = NoStep
         /\ starting = NoStart /\ compaction = NoCompaction /\ ~ToolsBusy /\ ~Stopped
      /\ (active = NoModel => after = "none") /\ (active # NoModel => after = "SettleModel" /\ active.delivered)
      /\ Routed(step)
  <2>1. /\ call # "none" /\ commit # NoCommit /\ commit \in Commits /\ error = "none"
    BY Nones DEF FinishCommit, FileTyped, CallInv
  <2>2. returned' \in Seq(Texts)
    <3>1. returned' = returned \o commit.reaction.back
      BY DEF FinishCommit, ApplyReaction
    <3>2. returned \in Seq(Texts) /\ commit.reaction.back \in Seq(Texts)
      BY <2>1 DEF InputTyped, Commits, Reactions
    <3> QED BY <3>1, <3>2
  <2>3. /\ commit.then = "none" /\ phase = "streaming" /\ deferred = NoStep /\ failing = NoStep
        /\ starting = NoStart /\ compaction = NoCompaction /\ ~ToolsBusy /\ ~Stopped
        /\ active = NoModel => after = "none"
        /\ active # NoModel => after = "SettleModel" /\ active.delivered
    BY <2>1 DEF CommitInv, EffectInv, DueInv, Due, Stopped
  <2>4. step # NoStep
    BY <2>3 DEF AgentInv
  <2>5. RouteModelCall(step, NoStep)
    BY <2>3 DEF FinishCommit, ApplyReaction
  <2>6. phase \in Phases /\ step \in Steps /\ spent \in Budgets
    BY DEF OwnerTyped, AgentTyped
  <2>7. Routed(step)
    BY <2>3, <2>4, <2>5, <2>6, RouteIs
  <2> QED
    BY <2>1, <2>2, <2>3, <2>4, <2>7
    DEF FinishCommit, ApplyReaction, agentVars, Routed
<1>10. AgentTyped' /\ AgentInv'
  BY <1>1 DEF AgentTyped, AgentInv, Unsettled
<1>11. QueueInv'
  BY <1>1 DEF QueueInv, Copies
<1>12. FileTyped'
  BY <1>1, Nones, NoCommitTyped DEF FileTyped, Thens, Routed, Refused, Held, Authorized, Summarized,
    FailsFor, Begun
<1>13. InputTyped'
  BY <1>1, Nones DEF InputTyped, Routed, Refused, Held, Authorized, Summarized, FailsFor, Begun
<1>14. OwnerTyped'
  BY <1>1, Nones, StepsTyped DEF OwnerTyped, Routed, Refused, Held, Authorized, Summarized,
    FailsFor, Begun, AgentTyped
<1>15. CallTyped'
  BY <1>1, Nones DEF CallTyped, Routed, Refused, Held, Authorized, Summarized, FailsFor, Begun
<1>16. CallInv'
  BY <1>1, Nones DEF CallInv, Routed, Refused, Held, Authorized, Summarized, FailsFor, Begun
<1>17. DurableInv'
  BY <1>1, Nones, FactsApart DEF DurableInv, Routed, Refused, Held, Authorized, Summarized,
    FailsFor, Begun, ToolsBusy
<1>18. SettledInv'
  BY <1>1, Nones DEF SettledInv, Routed, Refused, Held, Authorized, Summarized, FailsFor, Begun
<1>19. EndInv'
  BY <1>1, Nones DEF EndInv, ToolsBusy, Routed, Refused, Held, Authorized, Summarized, FailsFor,
    Begun
<1>20. DueInv'
  BY <1>1, Nones DEF DueInv, Due, StopDue, Stopped, Routed, Refused, Held, Authorized, Summarized,
    FailsFor, Begun, OwnerTyped, FileTyped, Commits, AgentTyped
<1>21. CommitInv'
  BY <1>1, Nones DEF CommitInv, Stopped, Routed, Refused, Held, Authorized, Summarized, FailsFor,
    Begun, DueInv
<1>22. SoloInv'
  BY <1>1, Nones DEF SoloInv, Due, StopDue, Streams, ToolsBusy, Routed, Refused, Held, Authorized,
    Summarized, FailsFor, Begun, DueInv, AgentTyped
<1>23. ToolInv'
  BY <1>1, Nones DEF ToolInv, Due, StopDue, Copies, Routed, Refused, Held, Authorized, Summarized,
    FailsFor, Begun
<1>24. EffectInv'
  BY <1>1, Nones DEF EffectInv, ToolsBusy, Routed, Refused, Held, Authorized, Summarized, FailsFor,
    Begun
<1>25. SummaryInv'
  BY <1>1, Nones DEF SummaryInv, Due, StopDue, Streams, Routed, Refused, Held, Authorized,
    Summarized, FailsFor, Begun, DueInv, AgentInv
<1>26. AttemptInv'
  <2>0. after \notin {"StartModel", "StartCompaction"}
    BY <1>1
  <2>1. NextDisk = disk /\ commit.written = "ok" /\ ~Due("StartModel") /\ ~Due("StartCompaction")
    BY <1>1, <2>0, Nones DEF NextDisk, Due
  <2>2. \A s \in Steps : Attempt("summary", s) \notin disk
    BY <1>1, <2>1, Nones DEF AttemptInv
  <2>3. \A s \in Steps : Attempt("model", s) \in disk => s \in unanswered
    BY <1>1, <2>1, Nones DEF AttemptInv, DueInv
  <2>4. CASE commit' = NoCommit
    <3>1. NextDisk' = disk
      BY <1>1, <2>4, Nones DEF NextDisk
    <3>2. ~Due("StartModel")' /\ ~Due("StartCompaction")'
      BY <1>1, <2>4, Nones DEF Due, Routed, Refused, Held, FailsFor
    <3> QED
      BY <1>1, <2>1, <2>2, <2>3, <2>4, <3>1, <3>2, Nones DEF AttemptInv
  <2>5. CASE Authorized(step)
    <3>1. NextDisk' = disk \cup {Attempt("model", step)}
      BY <1>1, <2>5 DEF NextDisk, Authorized, Begun
    <3>2. \A s \in Steps : /\ Attempt("model", s) \in NextDisk' => Attempt("model", s) \in disk \/ s = step
                           /\ Attempt("summary", s) \in NextDisk' => Attempt("summary", s) \in disk
      BY <3>1, FactsApart
    <3>3. \A n \in 0..MaxTexts : Opened(n) \in NextDisk' => Opened(n) \in disk
      BY <3>1, FactsApart
    <3> QED
      BY <1>1, <2>1, <2>2, <2>3, <2>5, <3>2, <3>3, Nones DEF AttemptInv, Due, Authorized, Begun
  <2>6. CASE Summarized(step)
    <3>1. NextDisk' = disk \cup {Attempt("summary", step)}
      BY <1>1, <2>6 DEF NextDisk, Summarized, Begun
    <3>2. \A s \in Steps : /\ Attempt("summary", s) \in NextDisk' => Attempt("summary", s) \in disk \/ s = step
                           /\ Attempt("model", s) \in NextDisk' => Attempt("model", s) \in disk
      BY <3>1, FactsApart
    <3>3. \A n \in 0..MaxTexts : Opened(n) \in NextDisk' => Opened(n) \in disk
      BY <3>1, FactsApart
    <3> QED
      BY <1>1, <2>1, <2>2, <2>3, <2>6, <3>2, <3>3, Nones DEF AttemptInv, Due, Summarized, Begun
  <2> QED
    BY <1>1, <2>4, <2>5, <2>6 DEF Routed, Refused, Held, FailsFor
<1>27. OwnInv'
  BY <1>1, Nones DEF OwnInv, InterruptPending, Copies, Routed, Refused, Held, Authorized,
    Summarized, FailsFor, Begun, AgentInv
<1>28. ClosingInv'
  BY <1>1, Nones DEF ClosingInv, Due, StopDue, Routed, Refused, Held, Authorized, Summarized,
    FailsFor, Begun
<1> QED
  BY <1>1, <1>10, <1>11, <1>12, <1>13, <1>14, <1>15, <1>16, <1>17, <1>18, <1>19, <1>20, <1>21,
    <1>22, <1>23, <1>24, <1>25, <1>26, <1>27, <1>28

\* The calls of the batch are handed to admission.
LEMMA FinishAdmitKeeps ==
  ASSUME Alive, FinishCommit, commit.written = "ok", commit.reaction.effect = "admit"
  PROVE  Alive'
<1> USE DEF Alive, Lives, Steady, Typed, LiveInv
<1>1. /\ UNCHANGED <<phase, step, slot, queue, disk, journal, after, pending, preparing,
                        starting, deferred, failing, active, compaction, spent, shutdown, call,
                        error, ended, unanswered, nextText>>
      /\ call # "none" /\ error = "none" /\ commit # NoCommit /\ commit.written = "ok" /\ commit.then = "none"
      /\ commit' = NoCommit /\ returned' \in Seq(Texts)
      /\ commit.reaction.calls \subseteq Calls /\ phase = "working" /\ active.delivered /\ ~ToolsBusy
      /\ \A c \in Calls : slot[c] = IF c \in commit.reaction.calls THEN "admission" ELSE "none"
      /\ tools' = [c \in Calls |-> IF c \in commit.reaction.calls THEN "admission" ELSE tools[c]]
  <2>1. /\ call # "none" /\ commit # NoCommit /\ commit \in Commits /\ error = "none"
    BY Nones DEF FinishCommit, FileTyped, CallInv
  <2>2. returned' \in Seq(Texts)
    <3>1. returned' = returned \o commit.reaction.back
      BY DEF FinishCommit, ApplyReaction
    <3>2. returned \in Seq(Texts) /\ commit.reaction.back \in Seq(Texts)
      BY <2>1 DEF InputTyped, Commits, Reactions
    <3> QED BY <3>1, <3>2
  <2>3. /\ commit.then = "none" /\ phase = "working" /\ active.delivered /\ ~ToolsBusy
        /\ \A c \in Calls : slot[c] = IF c \in commit.reaction.calls THEN "admission" ELSE "none"
    BY <2>1 DEF CommitInv, EffectInv
  <2>4. commit.reaction.calls \subseteq Calls
    BY <2>1 DEF Commits, Reactions
  <2>5. error' = error
    BY <2>3, <2>4 DEF FinishCommit, ApplyReaction, ToolsBusy
  <2> QED
    BY <2>1, <2>2, <2>3, <2>4, <2>5
    DEF FinishCommit, ApplyReaction, agentVars, ownerVars
<1>10. AgentTyped' /\ OwnerTyped' /\ AgentInv' /\ SettledInv'
  BY <1>1 DEF AgentTyped, OwnerTyped, AgentInv, Unsettled, SettledInv
<1>11. QueueInv'
  BY <1>1 DEF QueueInv, Copies
<1>12. FileTyped'
  BY <1>1, Nones, NoCommitTyped DEF FileTyped, Thens
<1>13. InputTyped'
  BY <1>1, Nones DEF InputTyped
<1>14. CallTyped'
  BY <1>1, Nones DEF CallTyped
<1>15. CallInv'
  BY <1>1, Nones DEF CallInv
<1>16. DurableInv'
  BY <1>1, Nones DEF DurableInv, ToolsBusy
<1>17. EndInv'
  BY <1>1, Nones DEF EndInv, ToolsBusy
<1>18. DueInv'
  BY <1>1, Nones DEF DueInv, Due, StopDue, Stopped
<1>19. CommitInv'
  BY <1>1, Nones DEF CommitInv, Stopped
<1>20. SoloInv'
  BY <1>1, Nones DEF SoloInv, Due, StopDue, Streams, ToolsBusy, Unsettled, AgentInv, DueInv,
    Stopped, OwnerTyped, CommitInv
<1>21. ToolInv'
  BY <1>1, Nones DEF ToolInv, Due, StopDue, Copies, ToolsBusy, CallTyped
<1>22. EffectInv'
  BY <1>1, Nones DEF EffectInv, ToolsBusy
<1>23. SummaryInv'
  BY <1>1, Nones DEF SummaryInv, Due, StopDue, Streams
<1>24. AttemptInv'
  BY <1>1, Nones DEF AttemptInv, Due, NextDisk, CommitInv
<1>25. OwnInv'
  BY <1>1, Nones DEF OwnInv, InterruptPending, Copies, ToolsBusy
<1>26. ClosingInv'
  BY <1>1, Nones DEF ClosingInv, Due, StopDue
<1> QED
  BY <1>1, <1>10, <1>11, <1>12, <1>13, <1>14, <1>15, <1>16, <1>17, <1>18, <1>19, <1>20, <1>21,
    <1>22, <1>23, <1>24, <1>25, <1>26

\* A tool whose call is stopped meanwhile is not dispatched.
LEMMA FinishHeldBackKeeps ==
  ASSUME Alive, NEW c \in commit.reaction.calls, FinishCommit, commit.written = "ok",
         commit.reaction.effect = "run", ApplyReaction, StartAuthorizedTool(c),
         UNCHANGED <<ownerVars, after, journal>>,
         ~Permitted
  PROVE  Alive'
<1> USE DEF Alive, Lives, Steady, Typed, LiveInv
<1>1. /\ UNCHANGED <<phase, step, slot, queue, disk, journal, after, pending, preparing,
                        starting, deferred, failing, active, compaction, spent, tools, shutdown,
                        call, error, ended, unanswered, nextText>>
      /\ call # "none" /\ error = "none" /\ commit # NoCommit /\ commit.written = "ok" /\ commit.then = "none"
      /\ commit' = NoCommit /\ returned' \in Seq(Texts)
      /\ phase = "working" /\ c \in Calls /\ commit.reaction.calls = {c}
         /\ slot[c] = "running" /\ tools[c] = "none" /\ Audited(c) \in disk
      /\ ~Permitted
  <2>1. /\ call # "none" /\ commit # NoCommit /\ commit \in Commits /\ error = "none"
    BY Nones DEF FinishCommit, FileTyped, CallInv
  <2>2. returned' \in Seq(Texts)
    <3>1. returned' = returned \o commit.reaction.back
      BY DEF FinishCommit, ApplyReaction
    <3>2. returned \in Seq(Texts) /\ commit.reaction.back \in Seq(Texts)
      BY <2>1 DEF InputTyped, Commits, Reactions
    <3> QED BY <3>1, <3>2
  <2>3. /\ commit.then = "none" /\ phase = "working" /\ commit.reaction.calls = {c}
        /\ slot[c] = "running" /\ tools[c] = "none" /\ Audited(c) \in disk
        /\ StartAuthorizedTool(c)
    <3>1. PICK d \in Calls : /\ commit.reaction.calls = {d} /\ slot[d] = "running"
                             /\ tools[d] = "none" /\ Audited(d) \in disk
      BY DEF EffectInv
    <3>2. d = c
      BY <3>1
    <3> QED BY <2>1, <3>1, <3>2 DEF CommitInv, EffectInv
  <2>4. c \in Calls
    BY <2>1 DEF Commits, Reactions
  <2> QED
    BY <2>1, <2>2, <2>3, <2>4
    DEF FinishCommit, agentVars, ownerVars, StartAuthorizedTool
<1>10. AgentTyped' /\ OwnerTyped' /\ CallTyped' /\ AgentInv' /\ SettledInv'
  BY <1>1 DEF AgentTyped, OwnerTyped, CallTyped, AgentInv, Unsettled, SettledInv
<1>11. QueueInv'
  BY <1>1 DEF QueueInv, Copies
<1>12. EndInv'
  BY <1>1 DEF EndInv, ToolsBusy
<1>13. FileTyped'
  BY <1>1, Nones, NoCommitTyped DEF FileTyped, Thens
<1>14. InputTyped'
  BY <1>1, Nones DEF InputTyped
<1>15. CallInv'
  BY <1>1, Nones DEF CallInv
<1>16. DurableInv'
  BY <1>1, Nones DEF DurableInv
<1>17. DueInv'
  BY <1>1, Nones DEF DueInv, Due, StopDue, Stopped
<1>18. CommitInv'
  BY <1>1, Nones DEF CommitInv, Stopped
<1>19. SoloInv'
  BY <1>1, Nones DEF SoloInv, Due, StopDue, Streams, ToolsBusy
<1>20. ToolInv'
  BY <1>1, Nones DEF ToolInv, Due, StopDue, Copies
<1>21. EffectInv'
  BY <1>1, Nones DEF EffectInv, ToolsBusy
<1>22. SummaryInv'
  BY <1>1, Nones DEF SummaryInv, Due, StopDue, Streams
<1>23. AttemptInv'
  BY <1>1, Nones DEF AttemptInv, Due, NextDisk, CommitInv
<1>24. OwnInv'
  BY <1>1, Nones DEF OwnInv, InterruptPending, Copies, Permitted
<1>25. ClosingInv'
  BY <1>1, Nones DEF ClosingInv, Due, StopDue
<1> QED
  BY <1>1, <1>10, <1>11, <1>12, <1>13, <1>14, <1>15, <1>16, <1>17, <1>18, <1>19, <1>20, <1>21,
    <1>22, <1>23, <1>24, <1>25

\* A tool whose call is recorded is dispatched.
LEMMA FinishRunKeeps ==
  ASSUME Alive, NEW c \in commit.reaction.calls, FinishCommit, commit.written = "ok",
         commit.reaction.effect = "run", ApplyReaction, StartAuthorizedTool(c),
         UNCHANGED <<ownerVars, after, journal>>,
         tools' = [tools EXCEPT ![c] = "execution"], UNCHANGED <<pending, unanswered>>,
         error' = IF tools[c] = "none" THEN error ELSE "confused", Permitted
  PROVE  Alive'
<1> USE DEF Alive, Lives, Steady, Typed, LiveInv
<1>1. /\ UNCHANGED <<phase, step, slot, queue, disk, journal, after, pending, preparing,
                        starting, deferred, failing, active, compaction, spent, shutdown, call,
                        error, ended, unanswered, nextText>>
      /\ call # "none" /\ error = "none" /\ commit # NoCommit /\ commit.written = "ok" /\ commit.then = "none"
      /\ commit' = NoCommit /\ returned' \in Seq(Texts)
      /\ phase = "working" /\ c \in Calls /\ commit.reaction.calls = {c}
         /\ slot[c] = "running" /\ tools[c] = "none" /\ Audited(c) \in disk
      /\ shutdown = "open" /\ tools' = [tools EXCEPT ![c] = "execution"]
  <2>1. /\ call # "none" /\ commit # NoCommit /\ commit \in Commits /\ error = "none"
    BY Nones DEF FinishCommit, FileTyped, CallInv
  <2>2. returned' \in Seq(Texts)
    <3>1. returned' = returned \o commit.reaction.back
      BY DEF FinishCommit, ApplyReaction
    <3>2. returned \in Seq(Texts) /\ commit.reaction.back \in Seq(Texts)
      BY <2>1 DEF InputTyped, Commits, Reactions
    <3> QED BY <3>1, <3>2
  <2>3. /\ commit.then = "none" /\ phase = "working" /\ commit.reaction.calls = {c}
        /\ slot[c] = "running" /\ tools[c] = "none" /\ Audited(c) \in disk
        /\ StartAuthorizedTool(c)
    <3>1. PICK d \in Calls : /\ commit.reaction.calls = {d} /\ slot[d] = "running"
                             /\ tools[d] = "none" /\ Audited(d) \in disk
      BY DEF EffectInv
    <3>2. d = c
      BY <3>1
    <3> QED BY <2>1, <3>1, <3>2 DEF CommitInv, EffectInv
  <2>4. c \in Calls
    BY <2>1 DEF Commits, Reactions
  <2> QED
    BY <2>1, <2>2, <2>3, <2>4
    DEF FinishCommit, agentVars, ownerVars, StartAuthorizedTool, Permitted
<1>10. AgentTyped' /\ OwnerTyped' /\ AgentInv' /\ SettledInv'
  BY <1>1 DEF AgentTyped, OwnerTyped, AgentInv, Unsettled, SettledInv
<1>11. QueueInv'
  BY <1>1 DEF QueueInv, Copies
<1>12. FileTyped'
  BY <1>1, Nones, NoCommitTyped DEF FileTyped, Thens
<1>13. InputTyped'
  BY <1>1, Nones DEF InputTyped
<1>14. CallTyped'
  BY <1>1, Nones DEF CallTyped
<1>15. CallInv'
  BY <1>1, Nones DEF CallInv
<1>16. DurableInv'
  BY <1>1, Nones DEF DurableInv, CallTyped
<1>17. EndInv'
  BY <1>1, Nones DEF EndInv, ToolsBusy
<1>18. DueInv'
  BY <1>1, Nones DEF DueInv, Due, StopDue, Stopped
<1>19. CommitInv'
  BY <1>1, Nones DEF CommitInv, Stopped
<1>20. SoloInv'
  BY <1>1, Nones DEF SoloInv, Due, StopDue, Streams, ToolsBusy, AgentInv, DueInv, Unsettled,
    OwnerTyped
<1>21. ToolInv'
  <2>1. \A d \in Calls : Copies(Finished(d))' = Copies(Finished(d))
    BY <1>1 DEF Copies
  <2>2. \A d \in Calls : tools'[d] = IF d = c THEN "execution" ELSE tools[d]
    BY <1>1 DEF CallTyped
  <2>3. ~ (Copies(Finished(c)) > 0)
    BY <1>1 DEF ToolInv
  <2> QED
    BY <1>1, <2>1, <2>2, <2>3, Nones DEF ToolInv, Due, StopDue
<1>22. EffectInv'
  BY <1>1, Nones DEF EffectInv, ToolsBusy
<1>23. SummaryInv'
  BY <1>1, Nones DEF SummaryInv, Due, StopDue, Streams
<1>24. AttemptInv'
  BY <1>1, Nones DEF AttemptInv, Due, NextDisk, CommitInv
<1>25. OwnInv'
  BY <1>1, Nones DEF OwnInv, InterruptPending, Copies, CallTyped
<1>26. ClosingInv'
  BY <1>1, Nones DEF ClosingInv, Due, StopDue
<1> QED
  BY <1>1, <1>10, <1>11, <1>12, <1>13, <1>14, <1>15, <1>16, <1>17, <1>18, <1>19, <1>20, <1>21,
    <1>22, <1>23, <1>24, <1>25, <1>26

\* A call refused at its dispatch is told through the queue of pending inputs.
LEMMA FinishRefusedKeeps ==
  ASSUME Alive, NEW c \in commit.reaction.calls, FinishCommit, commit.written = "ok",
         commit.reaction.effect = "run", ApplyReaction, StartAuthorizedTool(c),
         UNCHANGED <<ownerVars, after, journal>>,
         Len(pending) < Capacity, pending' = Append(pending, Finished(c)),
         UNCHANGED <<tools, error, unanswered>>, Permitted
  PROVE  Alive'
<1> USE DEF Alive, Lives, Steady, Typed, LiveInv
<1>1. /\ UNCHANGED <<phase, step, slot, queue, disk, journal, after, preparing, starting,
                        deferred, failing, active, compaction, spent, tools, shutdown, call,
                        error, ended, unanswered, nextText>>
      /\ call # "none" /\ error = "none" /\ commit # NoCommit /\ commit.written = "ok" /\ commit.then = "none"
      /\ commit' = NoCommit /\ returned' \in Seq(Texts)
      /\ phase = "working" /\ c \in Calls /\ commit.reaction.calls = {c}
         /\ slot[c] = "running" /\ tools[c] = "none" /\ Audited(c) \in disk
      /\ shutdown = "open" /\ ~InterruptPending /\ c \notin {d \in Calls : Copies(Finished(d)) > 0}
      /\ pending \in Seq(Inputs) /\ Finished(c) \in ResultInputs /\ Finished(c) \in Inputs
      /\ Len(pending) \in Nat /\ Len(pending) < Capacity /\ pending' = Append(pending, Finished(c))
      /\ pending' \in Seq(Inputs) /\ Len(pending') = Len(pending) + 1 /\ DOMAIN pending' = 1..(Len(pending) + 1)
         /\ DOMAIN pending = 1..Len(pending)
      /\ pending'[Len(pending) + 1] = Finished(c) /\ \A i \in 1..Len(pending) : pending'[i] = pending[i]
  <2>1. /\ call # "none" /\ commit # NoCommit /\ commit \in Commits /\ error = "none"
    BY Nones DEF FinishCommit, FileTyped, CallInv
  <2>2. returned' \in Seq(Texts)
    <3>1. returned' = returned \o commit.reaction.back
      BY DEF FinishCommit, ApplyReaction
    <3>2. returned \in Seq(Texts) /\ commit.reaction.back \in Seq(Texts)
      BY <2>1 DEF InputTyped, Commits, Reactions
    <3> QED BY <3>1, <3>2
  <2>3. /\ commit.then = "none" /\ phase = "working" /\ commit.reaction.calls = {c}
        /\ slot[c] = "running" /\ tools[c] = "none" /\ Audited(c) \in disk
        /\ StartAuthorizedTool(c)
    <3>1. PICK d \in Calls : /\ commit.reaction.calls = {d} /\ slot[d] = "running"
                             /\ tools[d] = "none" /\ Audited(d) \in disk
      BY DEF EffectInv
    <3>2. d = c
      BY <3>1
    <3> QED BY <2>1, <3>1, <3>2 DEF CommitInv, EffectInv
  <2>4. c \in Calls
    BY <2>1 DEF Commits, Reactions
  <2>5. Finished(c) \in ResultInputs /\ Finished(c) \in Inputs /\ pending \in Seq(Inputs)
    BY <2>4, InputsApart DEF InputTyped
  <2>6. /\ Len(pending) \in Nat /\ pending' \in Seq(Inputs) /\ Len(pending') = Len(pending) + 1
        /\ DOMAIN pending' = 1..(Len(pending) + 1) /\ DOMAIN pending = 1..Len(pending)
        /\ pending'[Len(pending) + 1] = Finished(c)
        /\ \A i \in 1..Len(pending) : pending'[i] = pending[i]
    BY <2>5
  <2>7. ~ (Copies(Finished(c)) > 0)
    BY <2>3, <2>4 DEF ToolInv
  <2> QED
    BY <2>1, <2>2, <2>3, <2>4, <2>5, <2>6, <2>7
    DEF FinishCommit, agentVars, ownerVars, StartAuthorizedTool, Permitted
<1>2. \A A : Len(Kept(pending', A)) = IF Finished(c) \in A THEN Len(Kept(pending, A)) + 1
                                                          ELSE Len(Kept(pending, A))
  BY <1>1, CountAppend
<1>3. \A A : Len(Kept(pending, A)) \in Nat /\ Len(Kept(pending', A)) <= Len(pending')
  BY <1>1, CountTyped
<1>4. \A d \in Calls : /\ Copies(Finished(d))' = IF d = c THEN Copies(Finished(d)) + 1 ELSE Copies(Finished(d))
                       /\ Copies(Finished(d)) \in Nat
  BY <1>1, <1>2, <1>3, InputsApart DEF Copies
<1>10. AgentTyped' /\ OwnerTyped' /\ CallTyped' /\ AgentInv' /\ SettledInv'
  BY <1>1 DEF AgentTyped, OwnerTyped, CallTyped, AgentInv, Unsettled, SettledInv
<1>11. FileTyped'
  BY <1>1, Nones, NoCommitTyped DEF FileTyped, Thens
<1>12. InputTyped'
  BY <1>1, Nones DEF InputTyped
<1>13. CallInv'
  BY <1>1, Nones DEF CallInv
<1>14. QueueInv'
  <2>1. Len(Kept(pending', ResultInputs)) <= Capacity /\ Len(pending') <= Capacity
    BY <1>1, <1>3, BoundsTyped
  <2>2. Len(Kept(pending', TextInputs)) = Len(Kept(pending, TextInputs))
    BY <1>1, <1>2, InputsApart
  <2>3. \A d \in Calls : Copies(Finished(d))' <= 1
    BY <1>1, <1>4 DEF QueueInv
  <2>4. \A i \in DOMAIN pending : pending[i] # Interrupted
    BY <1>1, InputsApart DEF InterruptPending
  <2>5. \A i, j \in DOMAIN pending' : i < j /\ pending'[i] = Interrupted => pending'[j] \notin ResultInputs
    BY <1>1, <2>4, InputsApart
  <2> QED
    BY <1>1, <2>1, <2>2, <2>3, <2>5, BoundsTyped DEF QueueInv
<1>15. DurableInv'
  BY <1>1, Nones DEF DurableInv
<1>16. EndInv'
  BY <1>1, Nones DEF EndInv, ToolsBusy
<1>17. DueInv'
  BY <1>1, Nones DEF DueInv, Due, StopDue, Stopped
<1>18. CommitInv'
  BY <1>1, Nones DEF CommitInv, Stopped
<1>19. SoloInv'
  BY <1>1, Nones DEF SoloInv, Due, StopDue, Streams, ToolsBusy
<1>20. ToolInv'
  <2>1. StopDue => StopDue'
    BY <1>1, Nones DEF StopDue, Due
  <2>2. UNCHANGED <<tools, slot>> /\ commit'.reaction.calls = {}
    BY <1>1, Nones
  <2> SUFFICES ASSUME NEW d \in Calls
               PROVE  /\ tools[d] = "admission" => StopDue' \/ slot[d] = "admission"
                      /\ tools[d] = "execution" => StopDue' \/ slot[d] = "running"
                      /\ Copies(Finished(d))' > 0 => slot[d] = "running" /\ tools[d] = "none"
    BY <2>2 DEF ToolInv
  <2>3. Copies(Finished(d))' > 0 => d = c \/ Copies(Finished(d)) > 0
    BY <1>4
  <2>4. slot[c] = "running" /\ tools[c] = "none"
    BY <1>1
  <2> QED BY <2>1, <2>3, <2>4 DEF ToolInv
<1>21. EffectInv'
  BY <1>1, Nones DEF EffectInv, ToolsBusy
<1>22. SummaryInv'
  BY <1>1, Nones DEF SummaryInv, Due, StopDue, Streams
<1>23. AttemptInv'
  BY <1>1, Nones DEF AttemptInv, Due, NextDisk, CommitInv
<1>24. OwnInv'
  <2>1. InterruptPending' => InterruptPending
    BY <1>1, InputsApart DEF InterruptPending
  <2>2. \A d \in Calls : (d = c \/ Copies(Finished(d)) > 0) => Copies(Finished(d))' > 0
    BY <1>4
  <2> QED
    BY <1>1, <2>1, <2>2, Nones DEF OwnInv
<1>25. ClosingInv'
  BY <1>1, Nones DEF ClosingInv, Due, StopDue
<1> QED
  BY <1>1, <1>10, <1>11, <1>12, <1>13, <1>14, <1>15, <1>16, <1>17, <1>18, <1>19, <1>20, <1>21,
    <1>22, <1>23, <1>24, <1>25

\* A refusal that finds the queue full leaves the call without a result.
LEMMA FinishFullKeeps ==
  ASSUME Alive, NEW c \in commit.reaction.calls, FinishCommit, commit.written = "ok",
         commit.reaction.effect = "run", ApplyReaction, StartAuthorizedTool(c),
         UNCHANGED <<ownerVars, after, journal>>,
         error' = "queue_full", unanswered' = unanswered \cup {c}, UNCHANGED <<tools, pending>>
  PROVE  Alive'
<1> USE DEF Alive, Lives, Steady, Typed, LiveInv
<1>1. /\ UNCHANGED <<phase, step, slot, queue, disk, journal, after, pending, preparing,
                        starting, deferred, failing, active, compaction, spent, tools, shutdown,
                        call, ended, nextText>>
      /\ call # "none" /\ error = "none" /\ commit # NoCommit /\ commit.written = "ok" /\ commit.then = "none"
      /\ commit' = NoCommit /\ returned' \in Seq(Texts)
      /\ phase = "working" /\ c \in Calls /\ commit.reaction.calls = {c}
         /\ slot[c] = "running" /\ tools[c] = "none" /\ Audited(c) \in disk
      /\ error' = "queue_full" /\ unanswered' = unanswered \cup {c}
  <2>1. /\ call # "none" /\ commit # NoCommit /\ commit \in Commits /\ error = "none"
    BY Nones DEF FinishCommit, FileTyped, CallInv
  <2>2. returned' \in Seq(Texts)
    <3>1. returned' = returned \o commit.reaction.back
      BY DEF FinishCommit, ApplyReaction
    <3>2. returned \in Seq(Texts) /\ commit.reaction.back \in Seq(Texts)
      BY <2>1 DEF InputTyped, Commits, Reactions
    <3> QED BY <3>1, <3>2
  <2>3. /\ commit.then = "none" /\ phase = "working" /\ commit.reaction.calls = {c}
        /\ slot[c] = "running" /\ tools[c] = "none" /\ Audited(c) \in disk
        /\ StartAuthorizedTool(c)
    <3>1. PICK d \in Calls : /\ commit.reaction.calls = {d} /\ slot[d] = "running"
                             /\ tools[d] = "none" /\ Audited(d) \in disk
      BY DEF EffectInv
    <3>2. d = c
      BY <3>1
    <3> QED BY <2>1, <3>1, <3>2 DEF CommitInv, EffectInv
  <2>4. c \in Calls
    BY <2>1 DEF Commits, Reactions
  <2> QED
    BY <2>1, <2>2, <2>3, <2>4
    DEF FinishCommit, agentVars, ownerVars, StartAuthorizedTool
<1>10. AgentTyped' /\ OwnerTyped' /\ AgentInv' /\ SettledInv'
  BY <1>1 DEF AgentTyped, OwnerTyped, AgentInv, Unsettled, SettledInv
<1>11. QueueInv'
  BY <1>1 DEF QueueInv, Copies
<1>12. FileTyped'
  BY <1>1, Nones, NoCommitTyped DEF FileTyped, Thens
<1>13. InputTyped'
  BY <1>1, Nones DEF InputTyped
<1>14. CallTyped'
  BY <1>1, Nones DEF CallTyped
<1>15. CallInv'
  BY <1>1, Nones DEF CallInv
<1>16. DurableInv'
  BY <1>1, Nones DEF DurableInv
<1>17. EndInv'
  BY <1>1, Nones DEF EndInv, ToolsBusy
<1>18. DueInv'
  BY <1>1, Nones DEF DueInv, Due, StopDue, Stopped
<1>19. CommitInv'
  BY <1>1, Nones DEF CommitInv, Stopped
<1>20. SoloInv'
  BY <1>1, Nones DEF SoloInv, Due, StopDue, Streams, ToolsBusy
<1>21. ToolInv'
  BY <1>1, Nones DEF ToolInv, Due, StopDue, Copies
<1>22. EffectInv'
  BY <1>1, Nones DEF EffectInv, ToolsBusy
<1>23. SummaryInv'
  BY <1>1, Nones DEF SummaryInv, Due, StopDue, Streams
<1>24. AttemptInv'
  BY <1>1, Nones DEF AttemptInv, Due, NextDisk, CommitInv
<1>25. OwnInv'
  BY <1>1, Nones DEF OwnInv, InterruptPending, Copies
<1>26. ClosingInv'
  BY <1>1, Nones DEF ClosingInv, Due, StopDue
<1> QED
  BY <1>1, <1>10, <1>11, <1>12, <1>13, <1>14, <1>15, <1>16, <1>17, <1>18, <1>19, <1>20, <1>21,
    <1>22, <1>23, <1>24, <1>25, <1>26

\* A write that failed ends with the journal failed; what it brought back is returned.
LEMMA FinishFailedFails ==
  ASSUME Alive, FinishCommit, commit.written # "ok"
  PROVE  Failed'
<1> USE DEF Failed, Alive, Lives, Steady, Typed, LiveInv
<1>1. /\ UNCHANGED <<phase, step, slot, queue, disk, after, pending, preparing, starting,
                        deferred, failing, active, compaction, spent, tools, shutdown, call,
                        ended, unanswered, nextText>>
      /\ call # "none" /\ commit' = NoCommit /\ returned' \in Seq(Texts)
      /\ journal' = commit.written /\ journal' \in {"refused", "unknown"}
      /\ error' \in {"none", "journal"}
  <2>1. /\ call # "none" /\ commit # NoCommit /\ commit \in Commits /\ error = "none"
        /\ commit.written \in {"refused", "unknown"}
    BY Nones DEF FinishCommit, FileTyped, CallInv, Commits
  <2>2. returned' \in Seq(Texts)
    <3>1. returned' = returned \o commit.rejected
      BY DEF FinishCommit
    <3>2. returned \in Seq(Texts) /\ commit.rejected \in Seq(Texts)
      BY <2>1 DEF InputTyped, Commits
    <3> QED BY <3>1, <3>2
  <2> QED
    BY <2>1, <2>2 DEF FinishCommit, agentVars, ownerVars
<1>10. AgentTyped' /\ OwnerTyped' /\ AgentInv'
  BY <1>1 DEF AgentTyped, OwnerTyped, AgentInv, Unsettled
<1>11. QueueInv'
  BY <1>1 DEF QueueInv, Copies
<1>12. FileTyped'
  BY <1>1, Nones, NoCommitTyped DEF FileTyped, Thens
<1>13. InputTyped'
  BY <1>1, Nones DEF InputTyped
<1>14. CallTyped'
  BY <1>1, Nones DEF CallTyped
<1>15. CallInv'
  BY <1>1, Nones DEF CallInv
<1>16. DurableInv'
  BY <1>1, Nones DEF DurableInv
<1>17. SettledInv'
  BY <1>1, Nones DEF SettledInv
<1>18. EndInv'
  BY <1>1, Nones DEF EndInv, ToolsBusy
<1> QED
  BY <1>1, <1>10, <1>11, <1>12, <1>13, <1>14, <1>15, <1>16, <1>17, <1>18

\* The end of a commit, whatever became of its write.
LEMMA FinishCommitKeeps ==
  ASSUME Alive, FinishCommit
  PROVE  Alive' \/ Failed'
<1>1. CASE commit.written # "ok"
  BY <1>1, FinishFailedFails
<1>2. CASE commit.written = "ok" /\ commit.reaction.effect = "none"
  BY <1>2, FinishPlainKeeps
<1>3. CASE commit.written = "ok" /\ commit.reaction.effect = "call"
  BY <1>3, FinishCallKeeps
<1>4. CASE commit.written = "ok" /\ commit.reaction.effect = "admit"
  BY <1>4, FinishAdmitKeeps
<1>5. CASE commit.written = "ok" /\ commit.reaction.effect = "run"
  <2>1. ApplyReaction
    BY <1>5 DEF FinishCommit
  <2>2. PICK c \in commit.reaction.calls : StartAuthorizedTool(c)
    BY <1>5, <2>1 DEF ApplyReaction
  <2>3. UNCHANGED <<ownerVars, after, journal>>
    BY <1>5, <2>1 DEF ApplyReaction
  <2>4. CASE ~Permitted
    BY <1>5, <2>1, <2>2, <2>3, <2>4, FinishHeldBackKeeps
  <2>5. CASE Permitted
    <3>1. \/ /\ tools' = [tools EXCEPT ![c] = "execution"]
             /\ error' = IF tools[c] = "none" THEN error ELSE "confused"
             /\ UNCHANGED <<pending, unanswered>>
          \/ /\ Len(pending) < Capacity
             /\ pending' = Append(pending, Finished(c))
             /\ UNCHANGED <<tools, error, unanswered>>
          \/ /\ Len(pending) >= Capacity
             /\ error' = "queue_full"
             /\ unanswered' = unanswered \cup {c}
             /\ UNCHANGED <<tools, pending>>
      BY <2>2, <2>5 DEF StartAuthorizedTool
    <3> QED
      BY <1>5, <2>1, <2>2, <2>3, <2>5, <3>1, FinishRunKeeps, FinishRefusedKeeps, FinishFullKeeps
  <2> QED BY <2>4, <2>5
<1>6. commit.reaction.effect \in {"none", "call", "admit", "run"}
  BY DEF Alive, Steady, Typed, FileTyped, Commits, Reactions
<1> QED BY <1>1, <1>2, <1>3, <1>4, <1>5, <1>6

-----------------------------------------------------------------------------
(* The steps of the driver, compaction and the ends of a turn.              *)

\* A request the provider refused for its context leads to a summary, or to the failure of the turn.
LEMMA RecoverContextKeeps ==
  ASSUME Alive, RecoverContext
  PROVE  Alive'
<1> USE DEF Alive, Lives, Steady, Typed, LiveInv
<1>1. /\ UNCHANGED <<phase, step, slot, queue, disk, journal, pending, preparing, tools,
                        shutdown, call, ended, unanswered, returned, nextText>>
      /\ call # "none" /\ error = "none" /\ commit = NoCommit /\ after = "SettleModel"
      /\ active # NoModel /\ active.settlement = "ended" /\ ~active.delivered /\ active.step \in Steps
         /\ active.step # NoStep /\ Streams(active.step)
      /\ starting = NoStart /\ failing = NoStep /\ compaction = NoCompaction /\ ~ToolsBusy /\ deferred = NoStep
      /\ active' = NoModel /\ spent' \in Budgets
      /\ \/ Summarized(active.step) /\ after' = "none"
         \/ FailsFor(active.step)
  <2>1. /\ call # "none" /\ error = "none" /\ commit = NoCommit /\ after \in {"SettleModel"} \cup Stops
        /\ active.settlement = "ended" /\ active.outcome = "overflow" /\ ~active.delivered
        /\ shutdown = "open"
    BY DEF RecoverContext, Settling, After, Driving, Uncommitted, RecoversContext
  <2>2. after = "SettleModel"
    BY <2>1 DEF Stops, DueInv, Due
  <2>3. /\ active # NoModel /\ active \in Models /\ Streams(active.step) /\ deferred = NoStep
        /\ starting = NoStart /\ failing = NoStep /\ compaction = NoCompaction /\ ~ToolsBusy
    BY <2>1, <2>2, Nones DEF SoloInv, OwnerTyped, StopDue, Due
  <2>4. /\ active.step \in Steps /\ active.step # NoStep
        /\ phase \in Phases /\ step \in Steps /\ spent \in Budgets
    BY <2>3 DEF Models, Streams, AgentInv, AgentTyped, OwnerTyped
  <2> DEFINE budget == [SpentIn(active.step[1]) EXCEPT !.recovered = TRUE]
  <2>5. budget \in Budgets
    <3>1. SpentIn(active.step[1]) \in Budgets
      BY <2>4, SpentTyped
    <3> QED BY <3>1 DEF Budgets
  <2>6. active' = NoModel /\ BeginCompaction(active.step, "context", "none", budget, NoStep)
    BY <2>3 DEF RecoverContext
  <2>7. /\ spent' \in Budgets
        /\ \/ Summarized(active.step) /\ after' = "none"
           \/ FailsFor(active.step)
    <3> HIDE DEF budget
    <3> QED BY <2>4, <2>5, <2>6, BeginCompactionIs
  <2>8. UNCHANGED <<agentVars, inputVars, userVars, exitVars, disk, journal, tools, call>>
    BY DEF RecoverContext
  <2>9. UNCHANGED starting /\ UNCHANGED error
    BY <2>7 DEF Summarized, FailsFor
  <2> QED
    BY <2>1, <2>2, <2>3, <2>4, <2>6, <2>7, <2>8, <2>9
    DEF agentVars, inputVars, userVars, exitVars
<1>10. AgentTyped' /\ InputTyped' /\ AgentInv'
  BY <1>1 DEF AgentTyped, InputTyped, AgentInv, Unsettled
<1>11. QueueInv'
  BY <1>1 DEF QueueInv, Copies
<1>12. FileTyped'
  BY <1>1, Nones DEF FileTyped, Thens, Routed, Refused, Held, Authorized, Summarized, FailsFor,
    Begun
<1>13. OwnerTyped'
  BY <1>1, Nones, StepsTyped, RestTyped DEF OwnerTyped, Routed, Refused, Held, Authorized,
    Summarized, FailsFor, Begun
<1>14. CallTyped'
  BY <1>1, Nones DEF CallTyped, Routed, Refused, Held, Authorized, Summarized, FailsFor, Begun
<1>15. CallInv'
  BY <1>1, Nones DEF CallInv, Routed, Refused, Held, Authorized, Summarized, FailsFor, Begun
<1>16. DurableInv'
  BY <1>1, Nones DEF DurableInv, Routed, Refused, Held, Authorized, Summarized, FailsFor, Begun,
    ToolsBusy
<1>17. SettledInv'
  BY <1>1, Nones DEF SettledInv, Routed, Refused, Held, Authorized, Summarized, FailsFor, Begun
<1>18. EndInv'
  BY <1>1, Nones DEF EndInv, ToolsBusy, Routed, Refused, Held, Authorized, Summarized, FailsFor,
    Begun
<1>19. DueInv'
  BY <1>1, Nones DEF DueInv, Due, StopDue, Stopped, Routed, Refused, Held, Authorized, Summarized,
    FailsFor, Begun, OwnerTyped
<1>20. CommitInv'
  BY <1>1, Nones DEF CommitInv, Stopped, Routed, Refused, Held, Authorized, Summarized, FailsFor,
    Begun
<1>21. SoloInv'
  BY <1>1, Nones DEF SoloInv, Due, StopDue, Streams, ToolsBusy, Routed, Refused, Held, Authorized,
    Summarized, FailsFor, Begun, AgentInv
<1>22. ToolInv'
  BY <1>1, Nones DEF ToolInv, Due, StopDue, Copies, Routed, Refused, Held, Authorized, Summarized,
    FailsFor, Begun
<1>23. EffectInv'
  BY <1>1, Nones DEF EffectInv, ToolsBusy, Routed, Refused, Held, Authorized, Summarized, FailsFor,
    Begun
<1>24. SummaryInv'
  BY <1>1, Nones DEF SummaryInv, Due, StopDue, Streams, Routed, Refused, Held, Authorized,
    Summarized, FailsFor, Begun
<1>25. AttemptInv'
  <2>1. NextDisk = disk /\ commit.written = "none" /\ ~Due("StartModel") /\ ~Due("StartCompaction")
    BY <1>1, Nones DEF NextDisk, Due
  <2>2. \A s \in Steps : Attempt("summary", s) \notin disk
    BY <1>1, <2>1, Nones DEF AttemptInv
  <2>3. \A s \in Steps : Attempt("model", s) \in disk => s \in unanswered
    BY <1>1, <2>1, Nones DEF AttemptInv, DueInv
  <2>4. CASE commit' = NoCommit
    <3>1. NextDisk' = disk
      BY <1>1, <2>4, Nones DEF NextDisk
    <3>2. ~Due("StartModel")' /\ ~Due("StartCompaction")'
      BY <1>1, <2>4, Nones DEF Due, Routed, Refused, Held, FailsFor
    <3> QED
      BY <1>1, <2>1, <2>2, <2>3, <2>4, <3>1, <3>2, Nones DEF AttemptInv
  <2>5. CASE Summarized(active.step)
    <3>1. NextDisk' = disk \cup {Attempt("summary", active.step)}
      BY <1>1, <2>5 DEF NextDisk, Summarized, Begun
    <3>2. \A s \in Steps : /\ Attempt("summary", s) \in NextDisk' => Attempt("summary", s) \in disk \/ s = active.step
                           /\ Attempt("model", s) \in NextDisk' => Attempt("model", s) \in disk
      BY <3>1, FactsApart
    <3>3. \A n \in 0..MaxTexts : Opened(n) \in NextDisk' => Opened(n) \in disk
      BY <3>1, FactsApart
    <3> QED
      BY <1>1, <2>1, <2>2, <2>3, <2>5, <3>2, <3>3, Nones DEF AttemptInv, Due, Summarized, Begun
  <2> QED
    BY <1>1, <2>4, <2>5 DEF Routed, Refused, Held, FailsFor
<1>26. OwnInv'
  BY <1>1, Nones DEF OwnInv, InterruptPending, Copies, Routed, Refused, Held, Authorized,
    Summarized, FailsFor, Begun, AgentInv
<1>27. ClosingInv'
  BY <1>1, Nones DEF ClosingInv, Due, StopDue, Routed, Refused, Held, Authorized, Summarized,
    FailsFor, Begun
<1> QED
  BY <1>1, <1>10, <1>11, <1>12, <1>13, <1>14, <1>15, <1>16, <1>17, <1>18, <1>19, <1>20, <1>21,
    <1>22, <1>23, <1>24, <1>25, <1>26, <1>27

\* With the checkpoint published, the step that waited for it is started.
LEMMA PublishCompactionKeeps ==
  ASSUME Alive, PublishCompaction
  PROVE  Alive'
<1> USE DEF Alive, Lives, Steady, Typed, LiveInv
<1>1. /\ UNCHANGED <<phase, step, slot, queue, disk, journal, pending, preparing, failing,
                        active, spent, tools, shutdown, call, ended, unanswered, returned,
                        nextText>>
      /\ call # "none" /\ error = "none" /\ commit = NoCommit /\ after = "PublishCompaction"
      /\ compaction # NoCompaction /\ compaction.phase = "publishing" /\ compaction.step \in Steps
      /\ active = NoModel /\ starting = NoStart /\ failing = NoStep /\ deferred = NoStep /\ ~ToolsBusy
      /\ after' = "none" /\ compaction' = NoCompaction
      /\ \/ /\ compaction.continuation # "model" /\ commit' = NoCommit
            /\ UNCHANGED <<starting, deferred, error>>
         \/ /\ compaction.continuation = "model" /\ Streams(compaction.step) /\ compaction.step # NoStep
            /\ (Refused \/ Authorized(compaction.step))
  <2>1. /\ call # "none" /\ error = "none" /\ commit = NoCommit /\ after = "PublishCompaction"
    BY DEF PublishCompaction, After, Driving, Uncommitted
  <2>2. /\ compaction.phase = "publishing" /\ compaction # NoCompaction /\ compaction.step \in Steps
        /\ active = NoModel /\ starting = NoStart /\ failing = NoStep /\ deferred = NoStep
        /\ ~ToolsBusy
    BY <2>1, Nones DEF DueInv, Due, SoloInv, OwnerTyped, Summaries
  <2>3. compaction.continuation = "model" => Streams(compaction.step) /\ compaction.step # NoStep
    BY <2>2 DEF SummaryInv, Streams, AgentInv
  <2>4. CASE compaction.continuation = "model"
    <3>1. Authorize(compaction.step, NoStep)
      BY <2>2, <2>3, <2>4 DEF PublishCompaction
    <3>2. Refused \/ Authorized(compaction.step)
      BY <2>2, <2>3, <2>4, <3>1, AuthorizeIs DEF Held
    <3> QED
      BY <2>1, <2>2, <2>3, <2>4, <3>2
      DEF PublishCompaction, agentVars, inputVars, userVars, exitVars
  <2>5. CASE compaction.continuation # "model"
    BY <2>1, <2>2, <2>5 DEF PublishCompaction, agentVars, inputVars, userVars, exitVars
  <2> QED BY <2>4, <2>5
<1>10. AgentTyped' /\ InputTyped' /\ AgentInv'
  BY <1>1 DEF AgentTyped, InputTyped, AgentInv, Unsettled
<1>11. QueueInv'
  BY <1>1 DEF QueueInv, Copies
<1>12. FileTyped'
  BY <1>1, Nones, NoCommitTyped DEF FileTyped, Thens, Refused, Authorized, Begun
<1>13. OwnerTyped'
  BY <1>1, Nones, RestingTyped, StepsTyped DEF OwnerTyped, Refused, Authorized, Begun
<1>14. CallTyped'
  BY <1>1, Nones DEF CallTyped, Refused, Authorized, Begun
<1>15. CallInv'
  BY <1>1, Nones DEF CallInv, Refused, Authorized, Begun
<1>16. DurableInv'
  BY <1>1, Nones DEF DurableInv, Refused, Authorized, Begun, ToolsBusy
<1>17. SettledInv'
  BY <1>1, Nones DEF SettledInv, Refused, Authorized, Begun
<1>18. EndInv'
  BY <1>1, Nones DEF EndInv, ToolsBusy, Refused, Authorized, Begun
<1>19. DueInv'
  BY <1>1, Nones DEF DueInv, Due, StopDue, Stopped, Refused, Authorized, Begun
<1>20. CommitInv'
  BY <1>1, Nones DEF CommitInv, Stopped, Refused, Authorized, Begun
<1>21. SoloInv'
  BY <1>1, Nones DEF SoloInv, Due, StopDue, Streams, ToolsBusy, Refused, Authorized, Begun
<1>22. ToolInv'
  BY <1>1, Nones DEF ToolInv, Due, StopDue, Copies, Refused, Authorized, Begun
<1>23. EffectInv'
  BY <1>1, Nones DEF EffectInv, ToolsBusy, Refused, Authorized, Begun
<1>24. SummaryInv'
  BY <1>1, Nones DEF SummaryInv, Due, StopDue, Streams, Refused, Authorized, Begun
<1>25. AttemptInv'
  <2>1. NextDisk = disk /\ commit.written = "none" /\ ~Due("StartModel") /\ ~Due("StartCompaction")
    BY <1>1, Nones DEF NextDisk, Due
  <2>2. \A s \in Steps : Attempt("summary", s) \notin disk
    BY <1>1, <2>1, Nones DEF AttemptInv
  <2>3. \A s \in Steps : Attempt("model", s) \in disk => s \in unanswered
    BY <1>1, <2>1, Nones DEF AttemptInv, DueInv
  <2>4. CASE commit' = NoCommit
    <3>1. NextDisk' = disk
      BY <1>1, <2>4, Nones DEF NextDisk
    <3>2. ~Due("StartModel")' /\ ~Due("StartCompaction")'
      BY <1>1, <2>4, Nones DEF Due, Routed, Refused, Held, FailsFor
    <3> QED
      BY <1>1, <2>1, <2>2, <2>3, <2>4, <3>1, <3>2, Nones DEF AttemptInv
  <2>5. CASE Authorized(compaction.step)
    <3>1. NextDisk' = disk \cup {Attempt("model", compaction.step)}
      BY <1>1, <2>5 DEF NextDisk, Authorized, Begun
    <3>2. \A s \in Steps : /\ Attempt("model", s) \in NextDisk' => Attempt("model", s) \in disk \/ s = compaction.step
                           /\ Attempt("summary", s) \in NextDisk' => Attempt("summary", s) \in disk
      BY <3>1, FactsApart
    <3>3. \A n \in 0..MaxTexts : Opened(n) \in NextDisk' => Opened(n) \in disk
      BY <3>1, FactsApart
    <3> QED
      BY <1>1, <2>1, <2>2, <2>3, <2>5, <3>2, <3>3, Nones DEF AttemptInv, Due, Authorized, Begun
  <2> QED
    BY <1>1, <2>4, <2>5 DEF Routed, Refused, Held, FailsFor
<1>26. OwnInv'
  BY <1>1, Nones DEF OwnInv, InterruptPending, Copies, Refused, Authorized, Begun, AgentInv
<1>27. ClosingInv'
  BY <1>1, Nones DEF ClosingInv, Due, StopDue, Refused, Authorized, Begun
<1> QED
  BY <1>1, <1>10, <1>11, <1>12, <1>13, <1>14, <1>15, <1>16, <1>17, <1>18, <1>19, <1>20, <1>21,
    <1>22, <1>23, <1>24, <1>25, <1>26, <1>27

\* A summary that is cancelled, or that the user asked for and that is incomplete, is dropped.
LEMMA FinishDroppedKeeps ==
  ASSUME Alive, FinishCompaction,
         compaction.continuation = "cancelled" \/ (~compaction.complete /\ compaction.requested)
  PROVE  Alive'
<1> USE DEF Alive, Lives, Steady, Typed, LiveInv
<1>1. /\ UNCHANGED <<phase, step, slot, queue, disk, journal, commit, pending, preparing,
                        starting, deferred, failing, active, spent, tools, shutdown, call, error,
                        ended, unanswered, returned, nextText>>
      /\ call # "none" /\ error = "none" /\ commit = NoCommit /\ after = "FinishCompaction"
      /\ compaction # NoCompaction /\ compaction.phase = "finishing" /\ compaction \in Summaries
      /\ active = NoModel /\ starting = NoStart /\ failing = NoStep /\ deferred = NoStep /\ ~ToolsBusy
      /\ after' = "none" /\ compaction' = NoCompaction
      /\ compaction.continuation = "cancelled" \/ compaction.requested
  <2>1. /\ call # "none" /\ error = "none" /\ commit = NoCommit /\ after = "FinishCompaction"
    BY DEF FinishCompaction, After, Driving, Uncommitted
  <2>2. /\ compaction.phase = "finishing" /\ compaction # NoCompaction /\ compaction \in Summaries
        /\ active = NoModel /\ starting = NoStart /\ failing = NoStep /\ deferred = NoStep
        /\ ~ToolsBusy
    BY <2>1, Nones DEF DueInv, Due, SoloInv, OwnerTyped
  <2> QED
    BY <2>1, <2>2 DEF FinishCompaction, agentVars, inputVars, userVars, exitVars
<1>10. AgentTyped' /\ InputTyped' /\ CallTyped' /\ CallInv' /\ AgentInv'
  BY <1>1 DEF AgentTyped, InputTyped, CallTyped, CallInv, AgentInv, Unsettled
<1>11. QueueInv'
  BY <1>1 DEF QueueInv, Copies
<1>12. FileTyped'
  BY <1>1, Nones DEF FileTyped, Thens
<1>13. OwnerTyped'
  BY <1>1, Nones, RestingTyped DEF OwnerTyped
<1>14. DurableInv'
  BY <1>1, Nones DEF DurableInv
<1>15. SettledInv'
  BY <1>1, Nones DEF SettledInv
<1>16. EndInv'
  BY <1>1, Nones DEF EndInv, ToolsBusy
<1>17. DueInv'
  BY <1>1, Nones DEF DueInv, Due, StopDue, Stopped
<1>18. CommitInv'
  BY <1>1, Nones DEF CommitInv, Stopped
<1>19. SoloInv'
  BY <1>1, Nones DEF SoloInv, Due, StopDue, Streams, ToolsBusy
<1>20. ToolInv'
  BY <1>1, Nones DEF ToolInv, Due, StopDue, Copies
<1>21. EffectInv'
  BY <1>1, Nones DEF EffectInv, ToolsBusy
<1>22. SummaryInv'
  BY <1>1, Nones DEF SummaryInv, Due, StopDue, Streams
<1>23. AttemptInv'
  BY <1>1, Nones DEF AttemptInv, Due, NextDisk
<1>24. OwnInv'
  BY <1>1, Nones DEF OwnInv, InterruptPending, Copies, SummaryInv
<1>25. ClosingInv'
  BY <1>1, Nones DEF ClosingInv, Due, StopDue
<1> QED
  BY <1>1, <1>10, <1>11, <1>12, <1>13, <1>14, <1>15, <1>16, <1>17, <1>18, <1>19, <1>20, <1>21,
    <1>22, <1>23, <1>24, <1>25

\* A complete summary of the head that still stands is published.
LEMMA FinishPublishesKeeps ==
  ASSUME Alive, FinishCompaction, compaction.continuation # "cancelled", compaction.complete
  PROVE  Alive'
<1> USE DEF Alive, Lives, Steady, Typed, LiveInv
<1>1. /\ UNCHANGED <<phase, step, slot, queue, disk, journal, pending, preparing, starting,
                        deferred, failing, active, spent, tools, shutdown, call, error, ended,
                        unanswered, returned, nextText>>
      /\ call # "none" /\ error = "none" /\ commit = NoCommit /\ after = "FinishCompaction"
      /\ compaction # NoCompaction /\ compaction.phase = "finishing" /\ compaction \in Summaries
      /\ active = NoModel /\ starting = NoStart /\ failing = NoStep /\ deferred = NoStep /\ ~ToolsBusy
      /\ after' = "none" /\ compaction' \in Summaries /\ compaction' # NoCompaction /\ compaction'.phase = "publishing"
      /\ compaction'.continuation = compaction.continuation /\ compaction'.trigger = compaction.trigger /\ compaction'.step = compaction.step
         /\ compaction'.complete = compaction.complete /\ compaction'.source = compaction.source /\ compaction'.requested = compaction.requested
      /\ compaction.continuation # "cancelled" /\ compaction.source = <<phase, step>>
      /\ Begun({}, {}, "none", {}, <<>>, <<>>, "PublishCompaction")
  <2>1. /\ call # "none" /\ error = "none" /\ commit = NoCommit /\ after = "FinishCompaction"
    BY DEF FinishCompaction, After, Driving, Uncommitted
  <2>2. /\ compaction.phase = "finishing" /\ compaction # NoCompaction /\ compaction \in Summaries
        /\ active = NoModel /\ starting = NoStart /\ failing = NoStep /\ deferred = NoStep
        /\ ~ToolsBusy
    BY <2>1, Nones DEF DueInv, Due, SoloInv, OwnerTyped
  <2>3. compaction.source = <<phase, step>>
    BY <2>2, Nones DEF SummaryInv, OwnerTyped, Summaries
  <2>4. /\ compaction' = [compaction EXCEPT !.phase = "publishing"]
        /\ Begin(Nothing, <<>>, "PublishCompaction")
    BY <2>2, <2>3 DEF FinishCompaction
  <2>5. Begun({}, {}, "none", {}, <<>>, <<>>, "PublishCompaction")
    <3>1. <<>> \in Seq(Texts) /\ "PublishCompaction" \in Thens
      BY DEF Thens
    <3>2. /\ commit' \in Commits /\ commit' # NoCommit /\ commit'.written = "no"
          /\ commit'.reaction = Nothing /\ commit'.rejected = <<>>
          /\ commit'.then = "PublishCompaction"
      BY <2>4, <3>1, NothingTyped, BeginTyped
    <3> QED BY <3>2, NothingTyped DEF Begun
  <2>6. compaction' \in Summaries /\ compaction' # NoCompaction
    BY <2>2, <2>4, Nones DEF Summaries
  <2> QED
    BY <2>1, <2>2, <2>3, <2>4, <2>5, <2>6
    DEF FinishCompaction, agentVars, inputVars, userVars, exitVars, Summaries
<1>10. AgentTyped' /\ InputTyped' /\ CallTyped' /\ AgentInv'
  BY <1>1 DEF AgentTyped, InputTyped, CallTyped, AgentInv, Unsettled
<1>11. QueueInv'
  BY <1>1 DEF QueueInv, Copies
<1>12. FileTyped'
  BY <1>1, Nones DEF FileTyped, Thens, Begun
<1>13. OwnerTyped'
  BY <1>1, Nones DEF OwnerTyped, Begun, Summaries
<1>14. CallInv'
  BY <1>1, Nones DEF CallInv, Begun
<1>15. DurableInv'
  BY <1>1, Nones DEF DurableInv, Begun, ToolsBusy
<1>16. SettledInv'
  BY <1>1, Nones DEF SettledInv, Begun
<1>17. EndInv'
  BY <1>1, Nones DEF EndInv, ToolsBusy, Begun
<1>18. DueInv'
  BY <1>1, Nones DEF DueInv, Due, StopDue, Stopped, Begun, SoloInv
<1>19. CommitInv'
  BY <1>1, Nones DEF CommitInv, Stopped, Begun
<1>20. SoloInv'
  BY <1>1, Nones DEF SoloInv, Due, StopDue, Streams, ToolsBusy, Begun, DueInv
<1>21. ToolInv'
  BY <1>1, Nones DEF ToolInv, Due, StopDue, Copies, Begun, ToolsBusy
<1>22. EffectInv'
  BY <1>1, Nones DEF EffectInv, ToolsBusy, Begun
<1>23. SummaryInv'
  BY <1>1, Nones DEF SummaryInv, Due, StopDue, Streams, Begun, OwnerTyped, Summaries
<1>24. AttemptInv'
  BY <1>1, Nones, FactsApart DEF AttemptInv, Due, NextDisk, Begun, DueInv, SoloInv
<1>25. OwnInv'
  BY <1>1, Nones DEF OwnInv, InterruptPending, Copies, Begun
<1>26. ClosingInv'
  BY <1>1, Nones DEF ClosingInv, Due, StopDue, Begun
<1> QED
  BY <1>1, <1>10, <1>11, <1>12, <1>13, <1>14, <1>15, <1>16, <1>17, <1>18, <1>19, <1>20, <1>21,
    <1>22, <1>23, <1>24, <1>25, <1>26

\* A soft trigger goes on without its summary.
LEMMA FinishSoftKeeps ==
  ASSUME Alive, FinishCompaction, compaction.continuation # "cancelled", ~compaction.complete,
         ~compaction.requested, compaction.trigger = "soft"
  PROVE  Alive'
<1> USE DEF Alive, Lives, Steady, Typed, LiveInv
<1>1. /\ UNCHANGED <<phase, step, slot, queue, disk, journal, pending, preparing, failing,
                        active, spent, tools, shutdown, call, ended, unanswered, returned,
                        nextText>>
      /\ call # "none" /\ error = "none" /\ commit = NoCommit /\ after = "FinishCompaction"
      /\ compaction # NoCompaction /\ compaction.phase = "finishing" /\ compaction \in Summaries
      /\ active = NoModel /\ starting = NoStart /\ failing = NoStep /\ deferred = NoStep /\ ~ToolsBusy
      /\ after' = "none" /\ compaction' = NoCompaction
      /\ Streams(compaction.step) /\ compaction.step \in Steps /\ compaction.step # NoStep
      /\ Refused \/ Authorized(compaction.step)
  <2>1. /\ call # "none" /\ error = "none" /\ commit = NoCommit /\ after = "FinishCompaction"
    BY DEF FinishCompaction, After, Driving, Uncommitted
  <2>2. /\ compaction.phase = "finishing" /\ compaction # NoCompaction /\ compaction \in Summaries
        /\ active = NoModel /\ starting = NoStart /\ failing = NoStep /\ deferred = NoStep
        /\ ~ToolsBusy
    BY <2>1, Nones DEF DueInv, Due, SoloInv, OwnerTyped
  <2>3. Streams(compaction.step) /\ compaction.step \in Steps /\ compaction.step # NoStep
    BY <2>2, Nones DEF SummaryInv, OwnerTyped, Summaries, Streams, AgentInv
  <2>4. after' = "none" /\ compaction' = NoCompaction /\ Authorize(compaction.step, NoStep)
    BY <2>2 DEF FinishCompaction
  <2>5. Refused \/ Authorized(compaction.step)
    BY <2>2, <2>3, <2>4, AuthorizeIs DEF Held
  <2> QED
    BY <2>1, <2>2, <2>3, <2>4, <2>5
    DEF FinishCompaction, agentVars, inputVars, userVars, exitVars
<1>10. AgentTyped' /\ InputTyped' /\ AgentInv'
  BY <1>1 DEF AgentTyped, InputTyped, AgentInv, Unsettled
<1>11. QueueInv'
  BY <1>1 DEF QueueInv, Copies
<1>12. FileTyped'
  BY <1>1, Nones, NoCommitTyped DEF FileTyped, Thens, Refused, Authorized, Begun
<1>13. OwnerTyped'
  BY <1>1, Nones, RestingTyped, StepsTyped DEF OwnerTyped, Refused, Authorized, Begun
<1>14. CallTyped'
  BY <1>1, Nones DEF CallTyped, Refused, Authorized, Begun
<1>15. CallInv'
  BY <1>1, Nones DEF CallInv, Refused, Authorized, Begun
<1>16. DurableInv'
  BY <1>1, Nones DEF DurableInv, Refused, Authorized, Begun, ToolsBusy
<1>17. SettledInv'
  BY <1>1, Nones DEF SettledInv, Refused, Authorized, Begun
<1>18. EndInv'
  BY <1>1, Nones DEF EndInv, ToolsBusy, Refused, Authorized, Begun
<1>19. DueInv'
  BY <1>1, Nones DEF DueInv, Due, StopDue, Stopped, Refused, Authorized, Begun
<1>20. CommitInv'
  BY <1>1, Nones DEF CommitInv, Stopped, Refused, Authorized, Begun
<1>21. SoloInv'
  BY <1>1, Nones DEF SoloInv, Due, StopDue, Streams, ToolsBusy, Refused, Authorized, Begun
<1>22. ToolInv'
  BY <1>1, Nones DEF ToolInv, Due, StopDue, Copies, Refused, Authorized, Begun
<1>23. EffectInv'
  BY <1>1, Nones DEF EffectInv, ToolsBusy, Refused, Authorized, Begun
<1>24. SummaryInv'
  BY <1>1, Nones DEF SummaryInv, Due, StopDue, Streams, Refused, Authorized, Begun
<1>25. AttemptInv'
  <2>1. NextDisk = disk /\ commit.written = "none" /\ ~Due("StartModel") /\ ~Due("StartCompaction")
    BY <1>1, Nones DEF NextDisk, Due
  <2>2. \A s \in Steps : Attempt("summary", s) \notin disk
    BY <1>1, <2>1, Nones DEF AttemptInv
  <2>3. \A s \in Steps : Attempt("model", s) \in disk => s \in unanswered
    BY <1>1, <2>1, Nones DEF AttemptInv, DueInv
  <2>4. CASE commit' = NoCommit
    <3>1. NextDisk' = disk
      BY <1>1, <2>4, Nones DEF NextDisk
    <3>2. ~Due("StartModel")' /\ ~Due("StartCompaction")'
      BY <1>1, <2>4, Nones DEF Due, Routed, Refused, Held, FailsFor
    <3> QED
      BY <1>1, <2>1, <2>2, <2>3, <2>4, <3>1, <3>2, Nones DEF AttemptInv
  <2>5. CASE Authorized(compaction.step)
    <3>1. NextDisk' = disk \cup {Attempt("model", compaction.step)}
      BY <1>1, <2>5 DEF NextDisk, Authorized, Begun
    <3>2. \A s \in Steps : /\ Attempt("model", s) \in NextDisk' => Attempt("model", s) \in disk \/ s = compaction.step
                           /\ Attempt("summary", s) \in NextDisk' => Attempt("summary", s) \in disk
      BY <3>1, FactsApart
    <3>3. \A n \in 0..MaxTexts : Opened(n) \in NextDisk' => Opened(n) \in disk
      BY <3>1, FactsApart
    <3> QED
      BY <1>1, <2>1, <2>2, <2>3, <2>5, <3>2, <3>3, Nones DEF AttemptInv, Due, Authorized, Begun
  <2> QED
    BY <1>1, <2>4, <2>5 DEF Routed, Refused, Held, FailsFor
<1>26. OwnInv'
  BY <1>1, Nones DEF OwnInv, InterruptPending, Copies, Refused, Authorized, Begun, AgentInv
<1>27. ClosingInv'
  BY <1>1, Nones DEF ClosingInv, Due, StopDue, Refused, Authorized, Begun
<1> QED
  BY <1>1, <1>10, <1>11, <1>12, <1>13, <1>14, <1>15, <1>16, <1>17, <1>18, <1>19, <1>20, <1>21,
    <1>22, <1>23, <1>24, <1>25, <1>26, <1>27

\* What the end of a turn takes back: the turn and its calls.
LEMMA CloseTurnHas ==
  /\ \A s : Attempt("model", s) \notin CloseTurn /\ Attempt("summary", s) \notin CloseTurn
  /\ \A n : Opened(n) \in CloseTurn <=> n = step[1]
BY FactsApart DEF CloseTurn

\* An incomplete summary that the step needs fails it, and the turn with it.
LEMMA FinishFailsStepKeeps ==
  ASSUME Alive, FinishCompaction, compaction.continuation # "cancelled", ~compaction.complete,
         ~compaction.requested, compaction.trigger # "soft"
  PROVE  Alive'
<1> USE DEF Alive, Lives, Steady, Typed, LiveInv
<1>1. /\ UNCHANGED <<step, disk, journal, pending, preparing, starting, deferred, failing,
                        active, spent, tools, shutdown, call, error, ended, unanswered, returned,
                        nextText>>
      /\ call # "none" /\ error = "none" /\ commit = NoCommit /\ after = "FinishCompaction"
      /\ compaction # NoCompaction /\ compaction.phase = "finishing" /\ compaction \in Summaries
      /\ active = NoModel /\ starting = NoStart /\ failing = NoStep /\ deferred = NoStep /\ ~ToolsBusy
      /\ after' = "none" /\ compaction' \in Summaries /\ compaction' # NoCompaction /\ compaction'.phase = "failing"
      /\ compaction'.continuation = compaction.continuation /\ compaction'.trigger = compaction.trigger /\ compaction'.step = compaction.step
         /\ compaction'.complete = compaction.complete /\ compaction'.source = compaction.source /\ compaction'.requested = compaction.requested
      /\ ~compaction.requested /\ Streams(compaction.step)
      /\ Closed /\ queue' = <<>> /\ Len(queue') = 0
      /\ Begun({}, CloseTurn, "none", {}, queue, <<>>, "CompleteCompactionFailure")
  <2>1. /\ call # "none" /\ error = "none" /\ commit = NoCommit /\ after = "FinishCompaction"
    BY DEF FinishCompaction, After, Driving, Uncommitted
  <2>2. /\ compaction.phase = "finishing" /\ compaction # NoCompaction /\ compaction \in Summaries
        /\ active = NoModel /\ starting = NoStart /\ failing = NoStep /\ deferred = NoStep
        /\ ~ToolsBusy
    BY <2>1, Nones DEF DueInv, Due, SoloInv, OwnerTyped
  <2>3. Streams(compaction.step)
    BY <2>2, Nones DEF SummaryInv, OwnerTyped, Summaries
  <2>4. compaction' = [compaction EXCEPT !.phase = "failing"] /\ after' = "none"
    BY <2>2 DEF FinishCompaction
  <2>5. compaction' \in Summaries /\ compaction' # NoCompaction
    BY <2>2, <2>4, Nones DEF Summaries
  <2>6. /\ Closed /\ queue' = <<>> /\ Len(queue') = 0
        /\ Begun({}, CloseTurn, "none", {}, queue, <<>>, "CompleteCompactionFailure")
    <3>1. step \in Steps /\ queue \in Seq(Texts) /\ "CompleteCompactionFailure" \in Thens /\ Len(<<>>) = 0
      BY DEF AgentTyped, Thens
    <3>2. AbortTurn("CompleteCompactionFailure", FALSE)
      BY <2>2, <2>3 DEF FinishCompaction
    <3> QED BY <3>1, <3>2, AbortIs
  <2> QED
    BY <2>1, <2>2, <2>3, <2>4, <2>5, <2>6
    DEF FinishCompaction, Closed, inputVars, userVars, exitVars, Summaries
<1>10. InputTyped' /\ CallTyped'
  BY <1>1 DEF InputTyped, CallTyped
<1>11. AgentTyped'
  <2>1. <<>> \in Seq(Texts)
    OBVIOUS
  <2> QED BY <1>1, <2>1 DEF AgentTyped, Closed, Phases
<1>12. FileTyped'
  BY <1>1, Nones DEF FileTyped, Thens, Closed, Begun
<1>13. OwnerTyped'
  BY <1>1, Nones DEF OwnerTyped, Closed, Begun, Summaries
<1>14. CallInv'
  BY <1>1, Nones DEF CallInv, Closed, Begun
<1>15. AgentInv'
  BY <1>1, Nones DEF AgentInv, Unsettled, Closed, Begun
<1>16. QueueInv'
  <2>1. step[1] \in Nat /\ Len(queue) \in Nat /\ nextText \in Nat
    BY StepsTyped, BoundsTyped DEF AgentTyped, InputTyped
  <2>2. Len(Kept(pending, TextInputs)) \in Nat
    BY CountTyped DEF InputTyped
  <2>3. step[1] + Len(queue') + Len(Kept(pending, TextInputs))
          + (IF preparing = NoPreparation THEN 0 ELSE 1) < nextText
    <3>1. step[1] + Len(queue) + Len(Kept(pending, TextInputs))
            + (IF preparing = NoPreparation THEN 0 ELSE 1) < nextText
      BY DEF QueueInv
    <3> QED BY <1>1, <2>1, <2>2, <3>1
  <2> QED
    BY <1>1, <2>3 DEF QueueInv, Copies, Closed
<1>17. DurableInv'
  BY <1>1, Nones, CloseTurnHas DEF DurableInv, Closed, Begun, SoloInv, ToolsBusy, CallTyped,
    AgentTyped, OwnerTyped
<1>18. SettledInv'
  BY <1>1, Nones DEF SettledInv, Closed, Begun
<1>19. EndInv'
  BY <1>1, Nones DEF EndInv, ToolsBusy, Closed, Begun
<1>20. DueInv'
  BY <1>1, Nones DEF DueInv, Due, StopDue, Stopped, Closed, Begun
<1>21. CommitInv'
  BY <1>1, Nones DEF CommitInv, Stopped, Closed, Begun
<1>22. SoloInv'
  BY <1>1, Nones DEF SoloInv, Due, StopDue, Streams, ToolsBusy, Closed, Begun
<1>23. ToolInv'
  BY <1>1, Nones DEF ToolInv, Due, StopDue, Copies, Closed, Begun, AgentInv, Streams
<1>24. EffectInv'
  BY <1>1, Nones DEF EffectInv, ToolsBusy, Closed, Begun
<1>25. SummaryInv'
  BY <1>1, Nones DEF SummaryInv, Due, StopDue, Streams, Closed, Begun
<1>26. AttemptInv'
  <2>1. NextDisk = disk /\ NextDisk' = disk \ CloseTurn
    BY <1>1, Nones DEF NextDisk, Begun
  <2>2. \A s \in Steps : /\ Attempt("model", s) \in NextDisk' => Attempt("model", s) \in NextDisk
                         /\ Attempt("summary", s) \in NextDisk' => Attempt("summary", s) \in NextDisk
    BY <2>1
  <2>3. \A n \in 0..MaxTexts : Opened(n) \notin NextDisk'
    BY <1>1, <2>1, CloseTurnHas, Nones DEF AttemptInv
  <2> QED
    BY <1>1, <2>1, <2>2, <2>3, Nones DEF AttemptInv, Due, Begun, Closed, DueInv, SoloInv
<1>27. OwnInv'
  BY <1>1, Nones DEF OwnInv, InterruptPending, Copies, Closed, Begun
<1>28. ClosingInv'
  BY <1>1, Nones DEF ClosingInv, Due, StopDue, Closed, Begun
<1> QED
  BY <1>1, <1>10, <1>11, <1>12, <1>13, <1>14, <1>15, <1>16, <1>17, <1>18, <1>19, <1>20, <1>21,
    <1>22, <1>23, <1>24, <1>25, <1>26, <1>27, <1>28

\* The end of a summary, whatever it came to.
LEMMA FinishCompactionKeeps ==
  ASSUME Alive, FinishCompaction
  PROVE  Alive'
<1>1. CASE compaction.continuation = "cancelled" \/ (~compaction.complete /\ compaction.requested)
  BY <1>1, FinishDroppedKeeps
<1>2. CASE compaction.continuation # "cancelled" /\ compaction.complete
  BY <1>2, FinishPublishesKeeps
<1>3. CASE /\ compaction.continuation # "cancelled" /\ ~compaction.complete
           /\ ~compaction.requested /\ compaction.trigger = "soft"
  BY <1>3, FinishSoftKeeps
<1>4. CASE /\ compaction.continuation # "cancelled" /\ ~compaction.complete
           /\ ~compaction.requested /\ compaction.trigger # "soft"
  BY <1>4, FinishFailsStepKeeps
<1> QED BY <1>1, <1>2, <1>3, <1>4

\* A step for which no summary could be had ends its turn.
LEMMA FailCompactionKeeps ==
  ASSUME Alive, FailCompaction
  PROVE  Alive'
<1> USE DEF Alive, Lives, Steady, Typed, LiveInv
<1>1. /\ UNCHANGED <<step, disk, journal, pending, preparing, starting, deferred, active,
                        compaction, spent, tools, shutdown, call, error, ended, unanswered,
                        returned, nextText>>
      /\ call # "none" /\ error = "none" /\ commit = NoCommit /\ after = "FailCompaction"
      /\ failing # NoStep /\ Streams(failing) /\ ~ToolsBusy
      /\ active = NoModel /\ starting = NoStart /\ deferred = NoStep /\ compaction = NoCompaction
      /\ after' = "none" /\ failing' = NoStep
      /\ Closed /\ queue' = <<>> /\ Len(queue') = 0
      /\ Begun({}, CloseTurn, "none", {}, queue, <<>>, "CompleteCompactionFailure")
  <2>1. /\ call # "none" /\ error = "none" /\ commit = NoCommit /\ after = "FailCompaction"
    BY DEF FailCompaction, After, Driving, Uncommitted
  <2>2. /\ failing # NoStep /\ Streams(failing) /\ ~ToolsBusy
        /\ active = NoModel /\ starting = NoStart /\ deferred = NoStep
        /\ compaction = NoCompaction
    BY <2>1 DEF DueInv, SoloInv
  <2>3. after' = "none" /\ failing' = NoStep
    BY DEF FailCompaction
  <2>4. /\ Closed /\ queue' = <<>> /\ Len(queue') = 0
        /\ Begun({}, CloseTurn, "none", {}, queue, <<>>, "CompleteCompactionFailure")
    <3>1. step \in Steps /\ queue \in Seq(Texts) /\ "CompleteCompactionFailure" \in Thens /\ Len(<<>>) = 0
      BY DEF AgentTyped, Thens
    <3>2. AbortTurn("CompleteCompactionFailure", FALSE)
      BY <2>2 DEF FailCompaction
    <3> QED BY <3>1, <3>2, AbortIs
  <2> QED
    BY <2>1, <2>2, <2>3, <2>4 DEF FailCompaction, Closed, inputVars, userVars, exitVars
<1>10. InputTyped' /\ CallTyped'
  BY <1>1 DEF InputTyped, CallTyped
<1>11. AgentTyped'
  <2>1. <<>> \in Seq(Texts)
    OBVIOUS
  <2> QED BY <1>1, <2>1 DEF AgentTyped, Closed, Phases
<1>12. FileTyped'
  BY <1>1, Nones DEF FileTyped, Thens, Closed, Begun
<1>13. OwnerTyped'
  BY <1>1, Nones, StepsTyped DEF OwnerTyped, Closed, Begun
<1>14. CallInv'
  BY <1>1, Nones DEF CallInv, Closed, Begun
<1>15. AgentInv'
  BY <1>1, Nones DEF AgentInv, Unsettled, Closed, Begun
<1>16. QueueInv'
  <2>1. step[1] \in Nat /\ Len(queue) \in Nat /\ nextText \in Nat
    BY StepsTyped, BoundsTyped DEF AgentTyped, InputTyped
  <2>2. Len(Kept(pending, TextInputs)) \in Nat
    BY CountTyped DEF InputTyped
  <2>3. step[1] + Len(queue') + Len(Kept(pending, TextInputs))
          + (IF preparing = NoPreparation THEN 0 ELSE 1) < nextText
    <3>1. step[1] + Len(queue) + Len(Kept(pending, TextInputs))
            + (IF preparing = NoPreparation THEN 0 ELSE 1) < nextText
      BY DEF QueueInv
    <3> QED BY <1>1, <2>1, <2>2, <3>1
  <2> QED
    BY <1>1, <2>3 DEF QueueInv, Copies, Closed
<1>17. DurableInv'
  BY <1>1, Nones, CloseTurnHas DEF DurableInv, Closed, Begun, SoloInv, ToolsBusy, CallTyped,
    AgentTyped, OwnerTyped
<1>18. SettledInv'
  BY <1>1, Nones DEF SettledInv, Closed, Begun
<1>19. EndInv'
  BY <1>1, Nones DEF EndInv, ToolsBusy, Closed, Begun
<1>20. DueInv'
  BY <1>1, Nones DEF DueInv, Due, StopDue, Stopped, Closed, Begun
<1>21. CommitInv'
  BY <1>1, Nones DEF CommitInv, Stopped, Closed, Begun
<1>22. SoloInv'
  BY <1>1, Nones DEF SoloInv, Due, StopDue, Streams, ToolsBusy, Closed, Begun
<1>23. ToolInv'
  BY <1>1, Nones DEF ToolInv, Due, StopDue, Copies, Closed, Begun, AgentInv, Streams
<1>24. EffectInv'
  BY <1>1, Nones DEF EffectInv, ToolsBusy, Closed, Begun
<1>25. SummaryInv'
  BY <1>1, Nones DEF SummaryInv, Due, StopDue, Streams, Closed, Begun
<1>26. AttemptInv'
  <2>1. NextDisk = disk /\ NextDisk' = disk \ CloseTurn
    BY <1>1, Nones DEF NextDisk, Begun
  <2>2. \A s \in Steps : /\ Attempt("model", s) \in NextDisk' => Attempt("model", s) \in NextDisk
                         /\ Attempt("summary", s) \in NextDisk' => Attempt("summary", s) \in NextDisk
    BY <2>1
  <2>3. \A n \in 0..MaxTexts : Opened(n) \notin NextDisk'
    BY <1>1, <2>1, CloseTurnHas, Nones DEF AttemptInv
  <2> QED
    BY <1>1, <2>1, <2>2, <2>3, Nones DEF AttemptInv, Due, Begun, Closed, DueInv, SoloInv
<1>27. OwnInv'
  BY <1>1, Nones DEF OwnInv, InterruptPending, Copies, Closed, Begun
<1>28. ClosingInv'
  BY <1>1, Nones DEF ClosingInv, Due, StopDue, Closed, Begun
<1> QED
  BY <1>1, <1>10, <1>11, <1>12, <1>13, <1>14, <1>15, <1>16, <1>17, <1>18, <1>19, <1>20, <1>21,
    <1>22, <1>23, <1>24, <1>25, <1>26, <1>27, <1>28

\* Shutdown of an idle runtime goes on to its stop.
LEMMA SettleShutdownIdleKeeps ==
  ASSUME Alive, SettleShutdown, phase = "idle"
  PROVE  Alive'
<1> USE DEF Alive, Lives, Steady, Typed, LiveInv
<1>1. /\ UNCHANGED <<phase, step, slot, queue, disk, journal, commit, pending, preparing,
                        starting, deferred, failing, active, compaction, spent, tools, call,
                        error, ended, unanswered, returned, nextText>>
      /\ call # "none" /\ error = "none" /\ commit = NoCommit /\ after = "none" /\ deferred = NoStep /\ call = "shutdown"
      /\ shutdown = "requested" /\ shutdown' = "settling" /\ after' = "Shutdown" /\ phase = "idle"
      /\ \A i \in DOMAIN pending : pending[i] \notin TextInputs
      /\ starting = NoStart /\ failing = NoStep /\ compaction.phase \in {"none", "running"}
  <2>1. /\ call = "shutdown" /\ error = "none" /\ commit = NoCommit /\ after = "none"
        /\ deferred = NoStep /\ journal = "open" /\ ~CanTake /\ call # "none"
    BY DEF SettleShutdown, Quiet, Settled, Driving
  <2>2. starting = NoStart /\ failing = NoStep /\ compaction.phase \in {"none", "running"}
    BY <2>1, Nones DEF DueInv, Due, OwnerTyped, Summaries
  <2>3. /\ \A i \in DOMAIN pending : pending[i] \notin TextInputs
        /\ phase # "idle" => pending = <<>>
    <3>1. shutdown # "open" /\ preparing = NoPreparation
      BY <2>1 DEF CallInv, QueueInv
    <3>2. CASE pending = <<>>
      BY <3>2
    <3>3. CASE pending # <<>>
      <4>1. compaction.requested
        BY <2>1, <3>1, <3>3 DEF CanTake, Blocked, RequestedCompactionActive
      <4> QED BY <3>1, <4>1 DEF SummaryInv
    <3> QED BY <3>2, <3>3
  <2> QED
    BY <2>1, <2>2, <2>3
    DEF SettleShutdown, agentVars, ownerVars, inputVars, userVars
<1>10. AgentTyped' /\ InputTyped' /\ OwnerTyped' /\ AgentInv'
  BY <1>1 DEF AgentTyped, InputTyped, OwnerTyped, AgentInv, Unsettled
<1>11. DurableInv' /\ EndInv'
  BY <1>1 DEF DurableInv, EndInv, ToolsBusy
<1>12. FileTyped'
  BY <1>1, Nones DEF FileTyped, Thens
<1>13. CallTyped'
  BY <1>1, Nones DEF CallTyped
<1>14. CallInv'
  BY <1>1, Nones DEF CallInv
<1>15. QueueInv'
  BY <1>1, Nones DEF QueueInv, Copies
<1>16. SettledInv'
  BY <1>1, Nones DEF SettledInv
<1>17. DueInv'
  BY <1>1, Nones DEF DueInv, Due, StopDue, Stopped, OwnerTyped
<1>18. CommitInv'
  BY <1>1, Nones DEF CommitInv, Stopped
<1>19. SoloInv'
  BY <1>1, Nones DEF SoloInv, Due, StopDue, Streams, ToolsBusy, DueInv
<1>20. ToolInv'
  BY <1>1, Nones DEF ToolInv, Due, StopDue, Copies
<1>21. EffectInv'
  BY <1>1, Nones DEF EffectInv, ToolsBusy
<1>22. SummaryInv'
  BY <1>1, Nones DEF SummaryInv, Due, StopDue, Streams
<1>23. AttemptInv'
  BY <1>1, Nones DEF AttemptInv, Due, NextDisk
<1>24. OwnInv'
  BY <1>1, Nones DEF OwnInv, InterruptPending, Copies
<1>25. ClosingInv'
  BY <1>1, Nones DEF ClosingInv, Due, StopDue
<1> QED
  BY <1>1, <1>10, <1>11, <1>12, <1>13, <1>14, <1>15, <1>16, <1>17, <1>18, <1>19, <1>20, <1>21,
    <1>22, <1>23, <1>24, <1>25

\* Shutdown ends the turn that is under way.
LEMMA SettleShutdownKeeps ==
  ASSUME Alive, SettleShutdown, phase # "idle"
  PROVE  Alive'
<1> USE DEF Alive, Lives, Steady, Typed, LiveInv
<1>1. /\ UNCHANGED <<step, disk, journal, after, pending, preparing, starting, deferred, failing,
                        active, compaction, spent, tools, call, error, ended, unanswered,
                        returned, nextText>>
      /\ call # "none" /\ error = "none" /\ commit = NoCommit /\ after = "none" /\ deferred = NoStep /\ call = "shutdown"
      /\ shutdown = "requested" /\ shutdown' = "settling" /\ phase # "idle" /\ pending = <<>>
      /\ \A i \in DOMAIN pending : pending[i] \notin TextInputs
      /\ starting = NoStart /\ failing = NoStep /\ compaction.phase \in {"none", "running"}
      /\ Closed /\ queue' = <<>> /\ Len(queue') = 0
      /\ Begun({}, CloseTurn, "none", {}, queue, queue, "Shutdown")
  <2>1. /\ call = "shutdown" /\ error = "none" /\ commit = NoCommit /\ after = "none"
        /\ deferred = NoStep /\ journal = "open" /\ ~CanTake /\ call # "none"
    BY DEF SettleShutdown, Quiet, Settled, Driving
  <2>2. starting = NoStart /\ failing = NoStep /\ compaction.phase \in {"none", "running"}
    BY <2>1, Nones DEF DueInv, Due, OwnerTyped, Summaries
  <2>3. /\ \A i \in DOMAIN pending : pending[i] \notin TextInputs
        /\ phase # "idle" => pending = <<>>
    <3>1. shutdown # "open" /\ preparing = NoPreparation
      BY <2>1 DEF CallInv, QueueInv
    <3>2. CASE pending = <<>>
      BY <3>2
    <3>3. CASE pending # <<>>
      <4>1. compaction.requested
        BY <2>1, <3>1, <3>3 DEF CanTake, Blocked, RequestedCompactionActive
      <4> QED BY <3>1, <4>1 DEF SummaryInv
    <3> QED BY <3>2, <3>3
  <2>4. /\ Closed /\ queue' = <<>> /\ Len(queue') = 0
        /\ Begun({}, CloseTurn, "none", {}, queue, queue, "Shutdown")
    <3>1. step \in Steps /\ queue \in Seq(Texts) /\ "Shutdown" \in Thens /\ Len(<<>>) = 0
      BY DEF AgentTyped, Thens
    <3>2. AbortTurn("Shutdown", TRUE)
      BY DEF SettleShutdown
    <3> QED BY <3>1, <3>2, AbortIs
  <2> QED
    BY <2>1, <2>2, <2>3, <2>4
    DEF SettleShutdown, ownerVars, inputVars, userVars, Closed
<1>2. \A A : Len(Kept(pending, A)) = 0
  BY <1>1, KeptEmpty
<1>10. InputTyped' /\ OwnerTyped' /\ SettledInv'
  BY <1>1 DEF InputTyped, OwnerTyped, SettledInv
<1>11. AgentTyped'
  <2>1. <<>> \in Seq(Texts)
    OBVIOUS
  <2> QED BY <1>1, <2>1 DEF AgentTyped, Closed, Phases
<1>12. FileTyped'
  BY <1>1, Nones DEF FileTyped, Thens, Closed, Begun
<1>13. CallTyped'
  BY <1>1, Nones DEF CallTyped, Closed, Begun
<1>14. CallInv'
  BY <1>1, Nones DEF CallInv, Closed, Begun
<1>15. AgentInv'
  BY <1>1, Nones DEF AgentInv, Unsettled, Closed, Begun
<1>16. QueueInv'
  <2>1. step[1] \in Nat /\ Len(queue) \in Nat /\ nextText \in Nat
    BY StepsTyped, BoundsTyped DEF AgentTyped, InputTyped
  <2>2. Len(Kept(pending, TextInputs)) \in Nat
    BY CountTyped DEF InputTyped
  <2>3. step[1] + Len(queue') + Len(Kept(pending, TextInputs))
          + (IF preparing = NoPreparation THEN 0 ELSE 1) < nextText
    <3>1. step[1] + Len(queue) + Len(Kept(pending, TextInputs))
            + (IF preparing = NoPreparation THEN 0 ELSE 1) < nextText
      BY DEF QueueInv
    <3> QED BY <1>1, <2>1, <2>2, <3>1
  <2> QED
    BY <1>1, <2>3 DEF QueueInv, Copies, Closed
<1>17. DurableInv'
  BY <1>1, Nones, CloseTurnHas DEF DurableInv, Closed, Begun, SoloInv, ToolsBusy, CallTyped,
    AgentTyped, OwnerTyped
<1>18. EndInv'
  BY <1>1, Nones DEF EndInv, ToolsBusy, Closed, Begun
<1>19. DueInv'
  BY <1>1, Nones DEF DueInv, Due, StopDue, Stopped, Closed, Begun, OwnerTyped
<1>20. CommitInv'
  BY <1>1, Nones DEF CommitInv, Stopped, Closed, Begun
<1>21. SoloInv'
  BY <1>1, Nones DEF SoloInv, Due, StopDue, Streams, ToolsBusy, Closed, Begun, DueInv
<1>22. ToolInv'
  BY <1>1, Nones, <1>2 DEF ToolInv, Due, StopDue, Copies, Closed, Begun
<1>23. EffectInv'
  BY <1>1, Nones DEF EffectInv, ToolsBusy, Closed, Begun
<1>24. SummaryInv'
  BY <1>1, Nones DEF SummaryInv, Due, StopDue, Streams, Closed, Begun, OwnerTyped
<1>25. AttemptInv'
  <2>1. NextDisk = disk /\ NextDisk' = disk \ CloseTurn
    BY <1>1, Nones DEF NextDisk, Begun
  <2>2. \A s \in Steps : /\ Attempt("model", s) \in NextDisk' => Attempt("model", s) \in NextDisk
                         /\ Attempt("summary", s) \in NextDisk' => Attempt("summary", s) \in NextDisk
    BY <2>1
  <2>3. \A n \in 0..MaxTexts : Opened(n) \notin NextDisk'
    BY <1>1, <2>1, CloseTurnHas, Nones DEF AttemptInv
  <2> QED
    BY <1>1, <2>1, <2>2, <2>3, Nones DEF AttemptInv, Due, Begun, Closed, DueInv, SoloInv, OwnerTyped
<1>26. OwnInv'
  BY <1>1, Nones DEF OwnInv, InterruptPending, Copies, Closed, Begun
<1>27. ClosingInv'
  BY <1>1, Nones DEF ClosingInv, Due, StopDue, Closed, Begun
<1> QED
  BY <1>1, <1>10, <1>11, <1>12, <1>13, <1>14, <1>15, <1>16, <1>17, <1>18, <1>19, <1>20, <1>21,
    <1>22, <1>23, <1>24, <1>25, <1>26, <1>27

\* A shutdown that returns owns nothing, and the file has nothing open.
LEMMA FinishShutdownEnds ==
  ASSUME Alive, FinishShutdown
  PROVE  Steady'
<1> USE DEF Alive, Lives, Steady, Typed, LiveInv
<1>1. /\ UNCHANGED <<phase, step, slot, queue, disk, journal, commit, after, pending, preparing,
                        starting, deferred, failing, active, compaction, spent, tools, shutdown,
                        error, unanswered, returned, nextText>>
      /\ call # "none" /\ error = "none" /\ commit = NoCommit /\ after = "none" /\ deferred = NoStep /\ call = "shutdown" /\ call' = "none" /\ ended' = "clean"
      /\ shutdown = "settling" /\ phase = "idle" /\ queue = <<>>
      /\ \A i \in DOMAIN pending : pending[i] \notin TextInputs
      /\ starting = NoStart /\ active = NoModel /\ compaction = NoCompaction /\ ~ToolsBusy
  <2>1. /\ call = "shutdown" /\ error = "none" /\ commit = NoCommit /\ after = "none"
        /\ deferred = NoStep /\ journal = "open" /\ ~CanTake /\ call # "none"
    BY DEF FinishShutdown, Quiet, Settled, Driving
  <2>2. starting = NoStart /\ failing = NoStep /\ compaction.phase \in {"none", "running"}
    BY <2>1, Nones DEF DueInv, Due, OwnerTyped, Summaries
  <2>3. /\ shutdown = "settling" /\ phase = "idle" /\ queue = <<>>
        /\ \A i \in DOMAIN pending : pending[i] \notin TextInputs
    BY DEF FinishShutdown, ClosingInv, AgentInv
  <2>4. ~StopDue /\ ~Stopped
    BY <2>1, Nones DEF StopDue, Stopped, Due
  <2>5. compaction = NoCompaction
    BY <2>2, <2>3, <2>4 DEF ClosingInv, OwnerTyped
  <2>6. active = NoModel
    BY <2>1, <2>3, <2>4, Nones DEF SoloInv, DueInv, Streams
  <2>7. ~ToolsBusy
    BY <2>3, <2>4 DEF ToolInv, AgentInv, ToolsBusy, CallTyped
  <2> QED
    BY <2>1, <2>2, <2>3, <2>5, <2>6, <2>7
    DEF FinishShutdown, agentVars, ownerVars, inputVars, userVars
<1>10. AgentTyped' /\ FileTyped' /\ InputTyped' /\ OwnerTyped' /\ AgentInv'
  BY <1>1 DEF AgentTyped, FileTyped, Thens, InputTyped, OwnerTyped, AgentInv, Unsettled
<1>11. QueueInv'
  BY <1>1 DEF QueueInv, Copies
<1>12. DurableInv'
  BY <1>1 DEF DurableInv
<1>13. CallTyped'
  BY <1>1, Nones DEF CallTyped
<1>14. CallInv'
  BY <1>1, Nones DEF CallInv
<1>15. SettledInv'
  BY <1>1, Nones DEF SettledInv
<1>16. EndInv'
  BY <1>1, Nones DEF EndInv, ToolsBusy, AttemptInv, Due, NextDisk, Texts
<1> QED
  BY <1>1, <1>10, <1>11, <1>12, <1>13, <1>14, <1>15, <1>16

-----------------------------------------------------------------------------
(* What the handlers of the agent leave behind.                             *)

TurnEnds ==
  /\ Closed /\ queue' = <<>> /\ Len(queue') = 0
  /\ Begun({}, CloseTurn, "none", {}, queue, queue, "none")
TurnOpens(t, rest, clears) ==
  /\ phase' = "streaming" /\ step' = <<step[1] + 1, 1>> /\ slot' = [c \in Calls |-> "none"]
  /\ step' \in Steps /\ step'[1] = step[1] + 1 /\ step' # NoStep
  /\ queue' = rest
  /\ Begun({Said(t), Opened(step[1] + 1)}, clears, "call", {}, <<>>, <<t>>, "none")
StepGoesOn ==
  /\ phase' = "streaming" /\ step' = <<step[1], step[2] + 1>> /\ slot' = [c \in Calls |-> "none"]
  /\ step' \in Steps /\ step'[1] = step[1] /\ step' # NoStep
  /\ queue' = queue
  /\ Begun({}, {Audited(c) : c \in Calls}, "call", {}, <<>>, <<>>, "none")
CallDone(c) ==
  /\ UNCHANGED <<phase, step, queue>> /\ slot' = [slot EXCEPT ![c] = "finished"]
  /\ Begun({}, {}, "none", {}, <<>>, <<>>, "none")
BatchAsked(asked) ==
  /\ UNCHANGED <<step, queue>> /\ phase' = "working"
  /\ slot' = [c \in Calls |-> IF c \in asked THEN "admission" ELSE "none"]
  /\ Begun({}, {}, "admit", asked, <<>>, <<>>, "none")

\* A turn that opens.
LEMMA OpenTurnIs ==
  ASSUME step \in Steps, step[1] + 1 <= MaxTexts, NEW t \in Texts, NEW clears \in SUBSET Facts,
         NEW base \in Reactions, base.adds = {}, base.clears = clears, base.calls = {},
         base.back = <<>>, OpenTurn(t, base, <<t>>)
  PROVE  TurnOpens(t, queue', clears)
<1> DEFINE n == step[1] + 1
           r == [base EXCEPT !.adds = @ \cup {Said(t), Opened(n)}, !.effect = "call"]
<1>1. n \in 0..MaxTexts /\ n # 0
  BY StepsTyped, BoundsTyped
<1>2. <<n, 1>> \in Steps /\ <<n, 1>>[1] = n /\ <<n, 1>> # NoStep
  BY <1>1, StepsTyped, BoundsTyped
<1>3. {Said(t), Opened(n)} \in SUBSET Facts
  BY <1>1, FactsTyped
<1>4. /\ r \in Reactions /\ r.adds = {Said(t), Opened(n)} /\ r.clears = clears
      /\ r.effect = "call" /\ r.calls = {} /\ r.back = <<>>
  <2> HIDE DEF n
  <2> QED BY <1>3 DEF Reactions
<1>5. /\ Begin(r, <<t>>, "none") /\ phase' = "streaming" /\ step' = <<n, 1>>
      /\ slot' = [c \in Calls |-> "none"]
  BY DEF OpenTurn, FirstStep
<1>6. <<t>> \in Seq(Texts) /\ "none" \in Thens
  BY DEF Thens
<1> HIDE DEF r
<1>7. /\ commit' \in Commits /\ commit' # NoCommit /\ commit'.written = "no"
      /\ commit'.reaction = r /\ commit'.rejected = <<t>> /\ commit'.then = "none"
  BY <1>4, <1>5, <1>6, BeginTyped
<1>8. Begun({Said(t), Opened(step[1] + 1)}, clears, "call", {}, <<>>, <<t>>, "none")
  BY <1>4, <1>7 DEF Begun
<1> HIDE DEF n
<1>9. step' \in Steps /\ step'[1] = n /\ step' # NoStep
  BY <1>2, <1>5
<1> QED
  BY <1>5, <1>8, <1>9 DEF TurnOpens, n

\* A turn ends, and the next queued one opens.
LEMMA FinishTurnIs ==
  ASSUME step \in Steps, queue \in Seq(Texts), queue # <<>> => step[1] + 1 <= MaxTexts, FinishTurn
  PROVE  \/ queue = <<>> /\ TurnEnds
         \/ /\ queue # <<>> /\ Head(queue) \in Texts /\ Tail(queue) \in Seq(Texts)
            /\ Len(Tail(queue)) = Len(queue) - 1 /\ Len(queue) \in Nat
            /\ TurnOpens(Head(queue), Tail(queue), CloseTurn)
<1>1. CloseTurn \in SUBSET Facts
  BY CloseTurnTyped
<1>2. CASE queue = <<>>
  <2>1. Begin(Clears(CloseTurn), <<>>, "none") /\ Closed /\ queue' = <<>>
    BY <1>2 DEF FinishTurn, Closed
  <2>2. "none" \in Thens /\ Len(<<>>) = 0
    BY DEF Thens
  <2>3. Begun({}, CloseTurn, "none", {}, <<>>, <<>>, "none")
    BY <1>1, <2>1, <2>2, BegunClears
  <2> QED BY <1>2, <2>1, <2>2, <2>3 DEF TurnEnds
<1>3. CASE queue # <<>>
  <2>1. /\ Head(queue) \in Texts /\ Tail(queue) \in Seq(Texts) /\ Len(queue) \in Nat
        /\ Len(Tail(queue)) = Len(queue) - 1
    BY <1>3
  <2>2. /\ Clears(CloseTurn) \in Reactions /\ Clears(CloseTurn).adds = {}
        /\ Clears(CloseTurn).clears = CloseTurn /\ Clears(CloseTurn).calls = {}
        /\ Clears(CloseTurn).back = <<>>
    BY <1>1, ClearsTyped
  <2>3. OpenTurn(Head(queue), Clears(CloseTurn), <<Head(queue)>>) /\ queue' = Tail(queue)
    BY <1>3 DEF FinishTurn
  <2>4. TurnOpens(Head(queue), queue', CloseTurn)
    <3> DEFINE t == Head(queue)   base == Clears(CloseTurn)
    <3>1. t \in Texts /\ OpenTurn(t, base, <<t>>) /\ base \in Reactions /\ base.adds = {}
          /\ base.clears = CloseTurn /\ base.calls = {} /\ base.back = <<>>
      BY <2>1, <2>2, <2>3
    <3> HIDE DEF t, base
    <3>2. TurnOpens(t, queue', CloseTurn)
      BY <1>1, <1>3, <3>1, OpenTurnIs
    <3> QED BY <3>2 DEF t
  <2> QED BY <1>3, <2>1, <2>3, <2>4
<1> QED BY <1>2, <1>3

\* A call that gets its result leaves the others their turn, or goes on with the turn.
LEMMA CallSettledIs ==
  ASSUME step \in Steps, queue \in Seq(Texts), queue # <<>> => step[1] + 1 <= MaxTexts,
         NEW c \in Calls, CallSettled(c)
  PROVE  \/ /\ \A other \in Calls \ {c} : slot[other] \in {"none", "finished"}
            /\ \/ queue = <<>> /\ TurnEnds
               \/ /\ queue # <<>> /\ Head(queue) \in Texts /\ Tail(queue) \in Seq(Texts)
                  /\ Len(Tail(queue)) = Len(queue) - 1 /\ Len(queue) \in Nat
                  /\ TurnOpens(Head(queue), Tail(queue), CloseTurn)
               \/ StepGoesOn
         \/ /\ \E other \in Calls \ {c} : slot[other] \notin {"none", "finished"}
            /\ CallDone(c)
<1>1. CASE \A other \in Calls \ {c} : slot[other] \in {"none", "finished"}
  <2>1. NextStep
    BY <1>1 DEF CallSettled
  <2>2. CASE step[2] >= MaxSteps
    <3>1. FinishTurn
      BY <2>1, <2>2 DEF NextStep
    <3> QED BY <1>1, <3>1, FinishTurnIs
  <2>3. CASE ~ (step[2] >= MaxSteps)
    <3> DEFINE A == {Audited(d) : d \in Calls}
               r == [Clears(A) EXCEPT !.effect = "call"]
    <3>1. /\ Begin(r, <<>>, "none") /\ queue' = queue /\ phase' = "streaming"
          /\ step' = <<step[1], step[2] + 1>> /\ slot' = [d \in Calls |-> "none"]
      BY <2>1, <2>3 DEF NextStep
    <3>2. A \in SUBSET Facts
      BY FactsTyped
    <3> HIDE DEF A
    <3>3. /\ r \in Reactions /\ r.adds = {} /\ r.clears = A /\ r.effect = "call" /\ r.calls = {}
          /\ r.back = <<>>
      <4>1. /\ Clears(A) \in Reactions /\ Clears(A).adds = {} /\ Clears(A).clears = A
            /\ Clears(A).calls = {} /\ Clears(A).back = <<>>
        BY <3>2, ClearsTyped
      <4> QED BY <4>1 DEF Reactions
    <3>4. <<>> \in Seq(Texts) /\ "none" \in Thens
      BY DEF Thens
    <3> HIDE DEF r
    <3>5. /\ commit' \in Commits /\ commit' # NoCommit /\ commit'.written = "no"
          /\ commit'.reaction = r /\ commit'.rejected = <<>> /\ commit'.then = "none"
      BY <3>1, <3>3, <3>4, BeginTyped
    <3>6. Begun({}, A, "call", {}, <<>>, <<>>, "none")
      BY <3>3, <3>5 DEF Begun
    <3>7. step[1] \in 0..MaxTexts /\ step[2] + 1 \in 0..MaxSteps /\ step[2] + 1 # 0
      BY <2>3, StepsTyped, BoundsTyped
    <3>8. step' \in Steps /\ step'[1] = step[1] /\ step' # NoStep
      <4> DEFINE m == step[2] + 1
      <4>1. step' = <<step[1], m>> /\ m \in 0..MaxSteps /\ m # 0
        BY <3>1, <3>7
      <4> HIDE DEF m
      <4> QED BY <3>7, <4>1, StepsTyped
    <3>9. StepGoesOn
      BY <3>1, <3>6, <3>8 DEF StepGoesOn, A
    <3> QED BY <1>1, <3>9
  <2> QED BY <2>2, <2>3
<1>2. CASE \E other \in Calls \ {c} : slot[other] \notin {"none", "finished"}
  <2>1. /\ slot' = [slot EXCEPT ![c] = "finished"] /\ Begin(Nothing, <<>>, "none")
        /\ UNCHANGED <<phase, step, queue>>
    BY <1>2 DEF CallSettled
  <2>2. <<>> \in Seq(Texts) /\ "none" \in Thens
    BY DEF Thens
  <2>3. /\ commit' \in Commits /\ commit' # NoCommit /\ commit'.written = "no"
        /\ commit'.reaction = Nothing /\ commit'.rejected = <<>> /\ commit'.then = "none"
    BY <2>1, <2>2, NothingTyped, BeginTyped
  <2>4. Begun({}, {}, "none", {}, <<>>, <<>>, "none")
    BY <2>3, NothingTyped DEF Begun
  <2> QED BY <1>2, <2>1, <2>4 DEF CallDone
<1> QED BY <1>1, <1>2

\* What the completion of a step comes to.
LEMMA CompletedStepIs ==
  ASSUME step \in Steps, queue \in Seq(Texts), queue # <<>> => step[1] + 1 <= MaxTexts,
         NEW outcome, CompletedStep(outcome)
  PROVE  \/ TurnEnds
         \/ /\ queue # <<>> /\ Head(queue) \in Texts /\ Tail(queue) \in Seq(Texts)
            /\ Len(Tail(queue)) = Len(queue) - 1 /\ Len(queue) \in Nat
            /\ TurnOpens(Head(queue), Tail(queue), CloseTurn)
         \/ \E asked \in SUBSET Calls : asked # {} /\ BatchAsked(asked)
<1>1. CASE FinishTurn
  BY <1>1, FinishTurnIs
<1>2. CASE AbortTurn("none", TRUE)
  <2>1. "none" \in Thens /\ Len(<<>>) = 0
    BY DEF Thens
  <2>2. Closed /\ queue' = <<>> /\ Begun({}, CloseTurn, "none", {}, queue, queue, "none")
    BY <1>2, <2>1, AbortIs
  <2> QED BY <2>1, <2>2 DEF TurnEnds
<1>3. \/ FinishTurn
      \/ AbortTurn("none", TRUE)
      \/ \E asked \in (SUBSET Calls) \ {{}} :
           /\ phase' = "working"
           /\ slot' = [c \in Calls |-> IF c \in asked THEN "admission" ELSE "none"]
           /\ Begin([Nothing EXCEPT !.effect = "admit", !.calls = asked], <<>>, "none")
           /\ UNCHANGED <<step, queue>>
  BY DEF CompletedStep
<1>4. ASSUME \E asked \in (SUBSET Calls) \ {{}} :
               /\ phase' = "working"
               /\ slot' = [c \in Calls |-> IF c \in asked THEN "admission" ELSE "none"]
               /\ Begin([Nothing EXCEPT !.effect = "admit", !.calls = asked], <<>>, "none")
               /\ UNCHANGED <<step, queue>>
      PROVE  \E asked \in SUBSET Calls : asked # {} /\ BatchAsked(asked)
  <2>1. PICK asked \in (SUBSET Calls) \ {{}} :
           /\ phase' = "working"
           /\ slot' = [c \in Calls |-> IF c \in asked THEN "admission" ELSE "none"]
           /\ Begin([Nothing EXCEPT !.effect = "admit", !.calls = asked], <<>>, "none")
           /\ UNCHANGED <<step, queue>>
    BY <1>4
  <2> DEFINE r == [Nothing EXCEPT !.effect = "admit", !.calls = asked]
  <2>2. /\ r \in Reactions /\ r.adds = {} /\ r.clears = {} /\ r.effect = "admit"
        /\ r.calls = asked /\ r.back = <<>>
    BY NothingTyped DEF Reactions
  <2>3. /\ <<>> \in Seq(Texts) /\ "none" \in Thens /\ Begin(r, <<>>, "none")
        /\ UNCHANGED <<step, queue>> /\ phase' = "working"
        /\ slot' = [c \in Calls |-> IF c \in asked THEN "admission" ELSE "none"]
    BY <2>1 DEF Thens
  <2> HIDE DEF r
  <2>4. /\ commit' \in Commits /\ commit' # NoCommit /\ commit'.written = "no"
        /\ commit'.reaction = r /\ commit'.rejected = <<>> /\ commit'.then = "none"
    BY <2>2, <2>3, BeginTyped
  <2>5. Begun({}, {}, "admit", asked, <<>>, <<>>, "none")
    BY <2>2, <2>4 DEF Begun
  <2>6. asked \in SUBSET Calls /\ asked # {} /\ BatchAsked(asked)
    BY <2>1, <2>3, <2>5 DEF BatchAsked
  <2> QED BY <2>6
<1> QED BY <1>1, <1>2, <1>3, <1>4

\* There is a turn left for each text that waits.
LEMMA TurnLeft ==
  ASSUME Steady
  PROVE  /\ queue # <<>> => step[1] + 1 <= MaxTexts
         /\ Len(Kept(pending, TextInputs)) > 0 => step[1] + 1 <= MaxTexts
         /\ step[1] \in Nat /\ Len(queue) \in Nat /\ nextText \in Nat
         /\ Len(Kept(pending, TextInputs)) \in Nat
<1> USE DEF Steady, Typed
<1>1. step[1] \in Nat /\ nextText \in 1..(MaxTexts + 1) /\ MaxTexts \in Nat
  BY StepsTyped, BoundsTyped DEF AgentTyped, InputTyped
<1>2. Len(Kept(pending, TextInputs)) \in Nat
  BY CountTyped DEF InputTyped
<1>3. Len(queue) \in Nat /\ (queue # <<>> => Len(queue) > 0)
  <2>1. queue \in Seq(Texts)
    BY DEF AgentTyped
  <2> QED BY <2>1
<1>4. step[1] + Len(queue) + Len(Kept(pending, TextInputs)) < nextText
  BY <1>1, <1>2, <1>3 DEF QueueInv
<1> QED BY <1>1, <1>2, <1>3, <1>4

-----------------------------------------------------------------------------
(* A completion is delivered, and what may follow it.                       *)

\* A completion whose turn is gone is ignored.
LEMMA DeliverIgnoredKeeps ==
  ASSUME Alive, DeliverCompletion, active.outcome = "cancelled" \/ ~Streams(active.step)
  PROVE  Alive'
<1> USE DEF Alive, Lives, Steady, Typed, LiveInv
<1>1. /\ UNCHANGED <<phase, step, slot, queue, disk, journal, commit, after, pending, preparing,
                        starting, deferred, failing, compaction, spent, tools, shutdown, call,
                        error, ended, unanswered, returned, nextText>>
      /\ call # "none" /\ error = "none" /\ commit = NoCommit
      /\ active # NoModel /\ active.settlement = "ended" /\ ~active.delivered
      /\ active' \in Models /\ active' # NoModel /\ active'.delivered = TRUE
         /\ active'.step = active.step /\ active'.outcome = active.outcome
         /\ active'.settlement = "ended"
      /\ starting = NoStart /\ failing = NoStep /\ compaction = NoCompaction /\ ~ToolsBusy
         /\ deferred = NoStep
      /\ phase = "idle" /\ after \in {"SettleModel", "Interrupt", "Shutdown"}
  <2>1. /\ call # "none" /\ error = "none" /\ commit = NoCommit
        /\ after \in {"SettleModel"} \cup Stops
        /\ active.settlement = "ended" /\ ~active.delivered
    BY DEF DeliverCompletion, Settling, After, Driving, Uncommitted
  <2>2. /\ active # NoModel /\ active \in Models /\ starting = NoStart /\ failing = NoStep
        /\ compaction = NoCompaction /\ ~ToolsBusy /\ deferred = NoStep
    BY <2>1, Nones DEF SoloInv, OwnerTyped
  <2>3. active' = [active EXCEPT !.delivered = TRUE]
    BY DEF DeliverCompletion
  <2>4. /\ active' \in Models /\ active' # NoModel /\ active'.delivered = TRUE
        /\ active'.step = active.step /\ active'.outcome = active.outcome
        /\ active'.settlement = "ended"
    BY <2>1, <2>2, <2>3, Nones DEF Models
  <2>5. phase = "idle"
    BY <2>1, <2>2 DEF SoloInv, DueInv, StopDue, Stopped, Due
  <2> QED
    BY <2>1, <2>2, <2>4, <2>5
    DEF DeliverCompletion, agentVars, inputVars, userVars, exitVars, Stops
<1>10. AgentTyped' /\ FileTyped' /\ InputTyped' /\ CallTyped' /\ CallInv' /\ AgentInv'
  BY <1>1 DEF AgentTyped, FileTyped, Thens, InputTyped, CallTyped, CallInv, AgentInv, Unsettled
<1>11. QueueInv'
  BY <1>1 DEF QueueInv, Copies
<1>12. ToolInv' /\ SummaryInv' /\ ClosingInv'
  BY <1>1 DEF ToolInv, Due, StopDue, Copies, SummaryInv, Streams, ClosingInv
<1>13. OwnerTyped'
  BY <1>1, Nones DEF OwnerTyped
<1>14. DurableInv'
  BY <1>1, Nones DEF DurableInv
<1>15. SettledInv'
  BY <1>1, Nones DEF SettledInv
<1>16. EndInv'
  BY <1>1, Nones DEF EndInv, ToolsBusy
<1>17. DueInv'
  BY <1>1, Nones DEF DueInv, Due, StopDue, Stopped
<1>18. CommitInv'
  BY <1>1, Nones DEF CommitInv, Stopped
<1>19. SoloInv'
  BY <1>1, Nones DEF SoloInv, Due, StopDue, Streams, ToolsBusy
<1>20. EffectInv'
  BY <1>1, Nones DEF EffectInv, ToolsBusy
<1>21. AttemptInv'
  BY <1>1, Nones DEF AttemptInv, Due, NextDisk
<1>22. OwnInv'
  BY <1>1, Nones DEF OwnInv, InterruptPending, Copies, AgentInv
<1> QED
  BY <1>1, <1>10, <1>11, <1>12, <1>13, <1>14, <1>15, <1>16, <1>17, <1>18, <1>19, <1>20, <1>21, <1>22

\* The turn ends with the completion.
LEMMA DeliverEndsKeeps ==
  ASSUME Alive, DeliverCompletion, active.outcome # "cancelled", Streams(active.step), TurnEnds
  PROVE  Alive'
<1> USE DEF Alive, Lives, Steady, Typed, LiveInv
<1>1. /\ UNCHANGED <<step, disk, journal, after, pending, preparing, starting, deferred, failing,
                        compaction, spent, tools, shutdown, call, error, ended, unanswered,
                        returned, nextText>>
      /\ call # "none" /\ error = "none" /\ commit = NoCommit
      /\ active # NoModel /\ active.settlement = "ended" /\ ~active.delivered
      /\ active' \in Models /\ active' # NoModel /\ active'.delivered = TRUE
         /\ active'.step = active.step /\ active'.outcome = active.outcome
         /\ active'.settlement = "ended"
      /\ starting = NoStart /\ failing = NoStep /\ compaction = NoCompaction /\ ~ToolsBusy
         /\ deferred = NoStep
      /\ after = "SettleModel" /\ Streams(active.step) /\ phase = "streaming"
      /\ Closed /\ queue' = <<>> /\ Len(queue') = 0
      /\ Begun({}, CloseTurn, "none", {}, queue, queue, "none")
  <2>1. /\ call # "none" /\ error = "none" /\ commit = NoCommit
        /\ after \in {"SettleModel"} \cup Stops
        /\ active.settlement = "ended" /\ ~active.delivered
    BY DEF DeliverCompletion, Settling, After, Driving, Uncommitted
  <2>2. /\ active # NoModel /\ active \in Models /\ starting = NoStart /\ failing = NoStep
        /\ compaction = NoCompaction /\ ~ToolsBusy /\ deferred = NoStep
    BY <2>1, Nones DEF SoloInv, OwnerTyped
  <2>3. active' = [active EXCEPT !.delivered = TRUE]
    BY DEF DeliverCompletion
  <2>4. /\ active' \in Models /\ active' # NoModel /\ active'.delivered = TRUE
        /\ active'.step = active.step /\ active'.outcome = active.outcome
        /\ active'.settlement = "ended"
    BY <2>1, <2>2, <2>3, Nones DEF Models
  <2>5. /\ Streams(active.step) /\ phase = "streaming" /\ after = "SettleModel"
    BY <2>1 DEF Streams, DueInv, StopDue, Due, Stops
  <2> QED
    BY <2>1, <2>2, <2>4, <2>5
    DEF DeliverCompletion, inputVars, userVars, exitVars, TurnEnds, Closed
<1>10. InputTyped' /\ CallTyped'
  BY <1>1 DEF InputTyped, CallTyped
<1>11. AgentTyped'
  <2>1. <<>> \in Seq(Texts)
    OBVIOUS
  <2> QED BY <1>1, <2>1 DEF AgentTyped, Closed, Phases
<1>12. FileTyped'
  BY <1>1, Nones DEF FileTyped, Thens, Closed, Begun
<1>13. OwnerTyped'
  BY <1>1, Nones DEF OwnerTyped, Closed, Begun
<1>14. CallInv'
  BY <1>1, Nones DEF CallInv, Closed, Begun
<1>15. AgentInv'
  BY <1>1, Nones DEF AgentInv, Unsettled, Closed, Begun
<1>16. QueueInv'
  <2>1. step[1] \in Nat /\ Len(queue) \in Nat /\ nextText \in Nat
    BY StepsTyped, BoundsTyped DEF AgentTyped, InputTyped
  <2>2. Len(Kept(pending, TextInputs)) \in Nat
    BY CountTyped DEF InputTyped
  <2>3. step[1] + Len(queue') + Len(Kept(pending, TextInputs))
          + (IF preparing = NoPreparation THEN 0 ELSE 1) < nextText
    <3>1. step[1] + Len(queue) + Len(Kept(pending, TextInputs))
            + (IF preparing = NoPreparation THEN 0 ELSE 1) < nextText
      BY DEF QueueInv
    <3> QED BY <1>1, <2>1, <2>2, <3>1
  <2> QED
    BY <1>1, <2>3 DEF QueueInv, Copies, Closed
<1>17. DurableInv'
  BY <1>1, Nones, CloseTurnHas DEF DurableInv, Closed, Begun, SoloInv, ToolsBusy, CallTyped,
    AgentTyped, OwnerTyped
<1>18. SettledInv'
  BY <1>1, Nones DEF SettledInv, Closed, Begun
<1>19. EndInv'
  BY <1>1, Nones DEF EndInv, ToolsBusy, Closed, Begun
<1>20. DueInv'
  BY <1>1, Nones DEF DueInv, Due, StopDue, Stopped, Closed, Begun
<1>21. CommitInv'
  BY <1>1, Nones DEF CommitInv, Stopped, Closed, Begun
<1>22. SoloInv'
  BY <1>1, Nones DEF SoloInv, Due, StopDue, Streams, ToolsBusy, Closed, Begun
<1>23. ToolInv'
  BY <1>1, Nones DEF ToolInv, Due, StopDue, Copies, Closed, Begun, AgentInv
<1>24. EffectInv'
  BY <1>1, Nones DEF EffectInv, ToolsBusy, Closed, Begun
<1>25. SummaryInv'
  BY <1>1, Nones DEF SummaryInv, Due, StopDue, Streams, Closed, Begun
<1>26. AttemptInv'
  <2>1. NextDisk = disk /\ NextDisk' = disk \ CloseTurn
    BY <1>1, Nones DEF NextDisk, Begun
  <2>2. \A s \in Steps : /\ Attempt("model", s) \in NextDisk' => Attempt("model", s) \in NextDisk
                         /\ Attempt("summary", s) \in NextDisk' => Attempt("summary", s) \in NextDisk
    BY <2>1
  <2>3. \A n \in 0..MaxTexts : Opened(n) \notin NextDisk'
    BY <1>1, <2>1, CloseTurnHas, Nones DEF AttemptInv
  <2> QED
    BY <1>1, <2>1, <2>2, <2>3, Nones DEF AttemptInv, Due, Begun, Closed, DueInv, SoloInv
<1>27. OwnInv'
  BY <1>1, Nones DEF OwnInv, InterruptPending, Copies, Closed, Begun, AgentInv
<1>28. ClosingInv'
  BY <1>1, Nones DEF ClosingInv, Due, StopDue, Closed, Begun
<1> QED
  BY <1>1, <1>10, <1>11, <1>12, <1>13, <1>14, <1>15, <1>16, <1>17, <1>18, <1>19, <1>20, <1>21,
    <1>22, <1>23, <1>24, <1>25, <1>26, <1>27, <1>28

\* The turn ends with the completion, and the next queued one begins.
LEMMA DeliverOpensKeeps ==
  ASSUME Alive, DeliverCompletion, active.outcome # "cancelled", Streams(active.step),
         NEW t \in Texts, TurnOpens(t, Tail(queue), CloseTurn), Tail(queue) \in Seq(Texts),
         Len(Tail(queue)) = Len(queue) - 1, Len(queue) \in Nat
  PROVE  Alive'
<1> USE DEF Alive, Lives, Steady, Typed, LiveInv
<1>1. /\ UNCHANGED <<disk, journal, after, pending, preparing, starting, deferred, failing,
                        compaction, spent, tools, shutdown, call, error, ended, unanswered,
                        returned, nextText>>
      /\ call # "none" /\ error = "none" /\ commit = NoCommit
      /\ active # NoModel /\ active.settlement = "ended" /\ ~active.delivered
      /\ active' \in Models /\ active' # NoModel /\ active'.delivered = TRUE
         /\ active'.step = active.step /\ active'.outcome = active.outcome
         /\ active'.settlement = "ended"
      /\ starting = NoStart /\ failing = NoStep /\ compaction = NoCompaction /\ ~ToolsBusy
         /\ deferred = NoStep
      /\ after = "SettleModel" /\ Streams(active.step) /\ phase = "streaming"
      /\ phase' = "streaming" /\ slot' = [c \in Calls |-> "none"]
         /\ step' \in Steps /\ step'[1] = step[1] + 1 /\ step' # NoStep
      /\ queue' \in Seq(Texts) /\ Len(queue') = Len(queue) - 1
      /\ Begun({Said(t), Opened(step[1] + 1)}, CloseTurn, "call", {}, <<>>, <<t>>, "none")
  <2>1. /\ call # "none" /\ error = "none" /\ commit = NoCommit
        /\ after \in {"SettleModel"} \cup Stops
        /\ active.settlement = "ended" /\ ~active.delivered
    BY DEF DeliverCompletion, Settling, After, Driving, Uncommitted
  <2>2. /\ active # NoModel /\ active \in Models /\ starting = NoStart /\ failing = NoStep
        /\ compaction = NoCompaction /\ ~ToolsBusy /\ deferred = NoStep
    BY <2>1, Nones DEF SoloInv, OwnerTyped
  <2>3. active' = [active EXCEPT !.delivered = TRUE]
    BY DEF DeliverCompletion
  <2>4. /\ active' \in Models /\ active' # NoModel /\ active'.delivered = TRUE
        /\ active'.step = active.step /\ active'.outcome = active.outcome
        /\ active'.settlement = "ended"
    BY <2>1, <2>2, <2>3, Nones DEF Models
  <2>5. /\ Streams(active.step) /\ phase = "streaming" /\ after = "SettleModel"
    BY <2>1 DEF Streams, DueInv, StopDue, Due, Stops
  <2> QED
    BY <2>1, <2>2, <2>4, <2>5
    DEF DeliverCompletion, inputVars, userVars, exitVars, TurnOpens
<1>10. InputTyped' /\ CallTyped'
  BY <1>1 DEF InputTyped, CallTyped
<1>11. AgentTyped'
  BY <1>1, Nones DEF AgentTyped, Begun, Phases
<1>12. FileTyped'
  BY <1>1, Nones DEF FileTyped, Thens, Begun
<1>13. OwnerTyped'
  BY <1>1, Nones DEF OwnerTyped, Begun
<1>14. CallInv'
  BY <1>1, Nones DEF CallInv, Begun
<1>15. AgentInv'
  BY <1>1, Nones DEF AgentInv, Unsettled, Begun
<1>16. QueueInv'
  <2>1. /\ step[1] \in Nat /\ Len(queue) \in Nat /\ nextText \in Nat
        /\ Len(Kept(pending, TextInputs)) \in Nat
    BY TurnLeft
  <2>2. step'[1] + Len(queue') + Len(Kept(pending, TextInputs))
          + (IF preparing = NoPreparation THEN 0 ELSE 1) < nextText
    <3>1. step[1] + Len(queue) + Len(Kept(pending, TextInputs))
            + (IF preparing = NoPreparation THEN 0 ELSE 1) < nextText
      BY DEF QueueInv
    <3> QED BY <1>1, <2>1, <3>1
  <2> QED
    BY <1>1, <2>2 DEF QueueInv, Copies
<1>17. DurableInv'
  BY <1>1, Nones, CloseTurnHas DEF DurableInv, Begun, SoloInv, ToolsBusy, CallTyped, AgentTyped,
    OwnerTyped
<1>18. SettledInv'
  BY <1>1, Nones DEF SettledInv, Begun
<1>19. EndInv'
  BY <1>1, Nones DEF EndInv, ToolsBusy, Begun
<1>20. DueInv'
  BY <1>1, Nones DEF DueInv, Due, StopDue, Stopped, Begun
<1>21. CommitInv'
  BY <1>1, Nones DEF CommitInv, Stopped, Begun
<1>22. SoloInv'
  BY <1>1, Nones DEF SoloInv, Due, StopDue, Streams, ToolsBusy, Begun
<1>23. ToolInv'
  BY <1>1, Nones DEF ToolInv, Due, StopDue, Copies, Begun, AgentInv
<1>24. EffectInv'
  BY <1>1, Nones DEF EffectInv, ToolsBusy, Begun
<1>25. SummaryInv'
  BY <1>1, Nones DEF SummaryInv, Due, StopDue, Streams, Begun
<1>26. AttemptInv'
  <2>1. NextDisk = disk /\ NextDisk' = (disk \ CloseTurn) \cup {Said(t), Opened(step[1] + 1)}
    BY <1>1, Nones DEF NextDisk, Begun
  <2>2. \A s \in Steps : /\ Attempt("model", s) \in NextDisk' => Attempt("model", s) \in NextDisk
                         /\ Attempt("summary", s) \in NextDisk' => Attempt("summary", s) \in NextDisk
    BY <2>1, FactsApart
  <2>3. \A n \in 0..MaxTexts : Opened(n) \in NextDisk' => n = step'[1]
    BY <1>1, <2>1, FactsApart, CloseTurnHas, Nones DEF AttemptInv
  <2> QED
    BY <1>1, <2>1, <2>2, <2>3, Nones DEF AttemptInv, Due, Begun, DueInv, SoloInv
<1>27. OwnInv'
  BY <1>1, Nones DEF OwnInv, InterruptPending, Copies, Begun, AgentInv
<1>28. ClosingInv'
  BY <1>1, Nones DEF ClosingInv, Due, StopDue, Begun
<1> QED
  BY <1>1, <1>10, <1>11, <1>12, <1>13, <1>14, <1>15, <1>16, <1>17, <1>18, <1>19, <1>20, <1>21,
    <1>22, <1>23, <1>24, <1>25, <1>26, <1>27, <1>28

\* The completion asks for a batch of calls.
LEMMA DeliverAsksKeeps ==
  ASSUME Alive, DeliverCompletion, active.outcome # "cancelled", Streams(active.step),
         NEW asked \in SUBSET Calls, asked # {}, BatchAsked(asked)
  PROVE  Alive'
<1> USE DEF Alive, Lives, Steady, Typed, LiveInv
<1>1. /\ UNCHANGED <<step, queue, disk, journal, after, pending, preparing, starting, deferred,
                        failing, compaction, spent, tools, shutdown, call, error, ended,
                        unanswered, returned, nextText>>
      /\ call # "none" /\ error = "none" /\ commit = NoCommit
      /\ active # NoModel /\ active.settlement = "ended" /\ ~active.delivered
      /\ active' \in Models /\ active' # NoModel /\ active'.delivered = TRUE
         /\ active'.step = active.step /\ active'.outcome = active.outcome
         /\ active'.settlement = "ended"
      /\ starting = NoStart /\ failing = NoStep /\ compaction = NoCompaction /\ ~ToolsBusy
         /\ deferred = NoStep
      /\ after = "SettleModel" /\ Streams(active.step) /\ phase = "streaming"
      /\ phase' = "working" /\ slot' = [c \in Calls |-> IF c \in asked THEN "admission" ELSE "none"]
      /\ asked \in SUBSET Calls /\ \E c \in Calls : c \in asked
      /\ Begun({}, {}, "admit", asked, <<>>, <<>>, "none")
  <2>1. /\ call # "none" /\ error = "none" /\ commit = NoCommit
        /\ after \in {"SettleModel"} \cup Stops
        /\ active.settlement = "ended" /\ ~active.delivered
    BY DEF DeliverCompletion, Settling, After, Driving, Uncommitted
  <2>2. /\ active # NoModel /\ active \in Models /\ starting = NoStart /\ failing = NoStep
        /\ compaction = NoCompaction /\ ~ToolsBusy /\ deferred = NoStep
    BY <2>1, Nones DEF SoloInv, OwnerTyped
  <2>3. active' = [active EXCEPT !.delivered = TRUE]
    BY DEF DeliverCompletion
  <2>4. /\ active' \in Models /\ active' # NoModel /\ active'.delivered = TRUE
        /\ active'.step = active.step /\ active'.outcome = active.outcome
        /\ active'.settlement = "ended"
    BY <2>1, <2>2, <2>3, Nones DEF Models
  <2>5. /\ Streams(active.step) /\ phase = "streaming" /\ after = "SettleModel"
    BY <2>1 DEF Streams, DueInv, StopDue, Due, Stops
  <2> QED
    BY <2>1, <2>2, <2>4, <2>5
    DEF DeliverCompletion, inputVars, userVars, exitVars, BatchAsked
<1>10. InputTyped' /\ CallTyped'
  BY <1>1 DEF InputTyped, CallTyped
<1>11. QueueInv'
  BY <1>1 DEF QueueInv, Copies
<1>12. AgentTyped'
  BY <1>1, Nones DEF AgentTyped, Begun, Phases
<1>13. FileTyped'
  BY <1>1, Nones DEF FileTyped, Thens, Begun
<1>14. OwnerTyped'
  BY <1>1, Nones DEF OwnerTyped, Begun
<1>15. CallInv'
  BY <1>1, Nones DEF CallInv, Begun
<1>16. AgentInv'
  BY <1>1, Nones DEF AgentInv, Unsettled, Begun
<1>17. DurableInv'
  BY <1>1, Nones DEF DurableInv, Begun, SoloInv, ToolsBusy, CallTyped
<1>18. SettledInv'
  BY <1>1, Nones DEF SettledInv, Begun
<1>19. EndInv'
  BY <1>1, Nones DEF EndInv, ToolsBusy, Begun
<1>20. DueInv'
  BY <1>1, Nones DEF DueInv, Due, StopDue, Stopped, Begun
<1>21. CommitInv'
  BY <1>1, Nones DEF CommitInv, Stopped, Begun
<1>22. SoloInv'
  BY <1>1, Nones DEF SoloInv, Due, StopDue, Streams, ToolsBusy, Begun
<1>23. ToolInv'
  BY <1>1, Nones DEF ToolInv, Due, StopDue, Copies, Begun, AgentInv
<1>24. EffectInv'
  BY <1>1, Nones DEF EffectInv, ToolsBusy, Begun
<1>25. SummaryInv'
  BY <1>1, Nones DEF SummaryInv, Due, StopDue, Streams, Begun
<1>26. AttemptInv'
  <2>1. NextDisk = disk /\ NextDisk' = disk
    BY <1>1, Nones DEF NextDisk, Begun
  <2> QED
    BY <1>1, <2>1, Nones DEF AttemptInv, Due, Begun, DueInv, SoloInv
<1>27. OwnInv'
  BY <1>1, Nones DEF OwnInv, InterruptPending, Copies, Begun, AgentInv
<1>28. ClosingInv'
  BY <1>1, Nones DEF ClosingInv, Due, StopDue, Begun
<1> QED
  BY <1>1, <1>10, <1>11, <1>12, <1>13, <1>14, <1>15, <1>16, <1>17, <1>18, <1>19, <1>20, <1>21,
    <1>22, <1>23, <1>24, <1>25, <1>26, <1>27, <1>28

\* A completion is delivered, whatever it is.
LEMMA DeliverCompletionKeeps ==
  ASSUME Alive, DeliverCompletion
  PROVE  Alive'
<1>1. CASE active.outcome = "cancelled" \/ ~Streams(active.step)
  BY <1>1, DeliverIgnoredKeeps
<1>2. CASE active.outcome # "cancelled" /\ Streams(active.step)
  <2>1. CompletedStep(active.outcome)
    BY <1>2 DEF DeliverCompletion
  <2>2. step \in Steps /\ queue \in Seq(Texts) /\ (queue # <<>> => step[1] + 1 <= MaxTexts)
    BY TurnLeft DEF Alive, Steady, Typed, AgentTyped
  <2>3. \/ TurnEnds
        \/ /\ queue # <<>> /\ Head(queue) \in Texts /\ Tail(queue) \in Seq(Texts)
           /\ Len(Tail(queue)) = Len(queue) - 1 /\ Len(queue) \in Nat
           /\ TurnOpens(Head(queue), Tail(queue), CloseTurn)
        \/ \E asked \in SUBSET Calls : asked # {} /\ BatchAsked(asked)
    BY <2>1, <2>2, CompletedStepIs
  <2>4. CASE TurnEnds
    BY <1>2, <2>4, DeliverEndsKeeps
  <2>5. CASE /\ Head(queue) \in Texts /\ Tail(queue) \in Seq(Texts)
             /\ Len(Tail(queue)) = Len(queue) - 1 /\ Len(queue) \in Nat
             /\ TurnOpens(Head(queue), Tail(queue), CloseTurn)
    BY <1>2, <2>5, DeliverOpensKeeps
  <2>6. CASE \E asked \in SUBSET Calls : asked # {} /\ BatchAsked(asked)
    BY <1>2, <2>6, DeliverAsksKeeps
  <2> QED BY <2>3, <2>4, <2>5, <2>6
<1> QED BY <1>1, <1>2

-----------------------------------------------------------------------------
(* What is left of the queue, and the calls that get their results.         *)

\* The queue is what it was, less some of its entries.
Fewer ==
  /\ pending' \in Seq(Inputs) /\ Len(pending') <= Len(pending)
  /\ \A A : Len(Kept(pending', A)) <= Len(Kept(pending, A))
  /\ \A i, j \in DOMAIN pending' : i < j =>
       \E m, n \in DOMAIN pending : m < n /\ pending'[i] = pending[m] /\ pending'[j] = pending[n]
  /\ \A i \in DOMAIN pending' : \E m \in DOMAIN pending : pending'[i] = pending[m]

\* Taking the first input leaves fewer of them.
LEMMA TailFewer ==
  ASSUME pending \in Seq(Inputs), pending # <<>>, pending' = Tail(pending)
  PROVE  /\ Fewer /\ Len(pending') = Len(pending) - 1 /\ Head(pending) \in Inputs
         /\ \A A : Len(Kept(pending, A)) = IF Head(pending) \in A THEN Len(Kept(pending', A)) + 1
                                                                  ELSE Len(Kept(pending', A))
         /\ \E m \in DOMAIN pending : Head(pending) = pending[m]
         /\ \A n \in DOMAIN pending : pending[n] # Head(pending) =>
              \E i \in DOMAIN pending' : pending'[i] = pending[n]
         /\ \A i \in DOMAIN pending' : \E m, n \in DOMAIN pending :
              m < n /\ Head(pending) = pending[m] /\ pending'[i] = pending[n]
<1> DEFINE p == pending  q == Tail(p)
<1>1. p \in Seq(Inputs) /\ p # <<>> /\ pending' = q
  OBVIOUS
<1> HIDE DEF p
<1>2. /\ q \in Seq(Inputs) /\ Len(q) = Len(p) - 1 /\ Len(p) \in Nat /\ Len(p) > 0
      /\ DOMAIN p = 1..Len(p) /\ DOMAIN q = 1..(Len(p) - 1)
      /\ Head(p) = p[1] /\ Head(p) \in Inputs
      /\ \A i \in 1..(Len(p) - 1) : q[i] = p[i + 1]
  BY <1>1
<1>3. \A A : Len(Kept(p, A)) = IF Head(p) \in A THEN Len(Kept(q, A)) + 1 ELSE Len(Kept(q, A))
  BY <1>1, CountTail
<1>4. \A A : Len(Kept(q, A)) \in Nat
  BY <1>2, CountTyped
<1> HIDE DEF q
<1>5. \A A : Len(Kept(q, A)) <= Len(Kept(p, A))
  BY <1>3, <1>4
<1>6. \A i, j \in DOMAIN q : i < j => \E m, n \in DOMAIN p : m < n /\ q[i] = p[m] /\ q[j] = p[n]
  <2> SUFFICES ASSUME NEW i \in DOMAIN q, NEW j \in DOMAIN q, i < j
               PROVE  \E m, n \in DOMAIN p : m < n /\ q[i] = p[m] /\ q[j] = p[n]
    OBVIOUS
  <2>1. i + 1 \in DOMAIN p /\ j + 1 \in DOMAIN p /\ i + 1 < j + 1 /\ q[i] = p[i + 1] /\ q[j] = p[j + 1]
    BY <1>2
  <2> QED BY <2>1
<1>7. \A i \in DOMAIN q : \E m \in DOMAIN p : q[i] = p[m]
  <2> SUFFICES ASSUME NEW i \in DOMAIN q
               PROVE  \E m \in DOMAIN p : q[i] = p[m]
    OBVIOUS
  <2>1. i + 1 \in DOMAIN p /\ q[i] = p[i + 1]
    BY <1>2
  <2> QED BY <2>1
<1>8. \A n \in DOMAIN p : p[n] # Head(p) => \E i \in DOMAIN q : q[i] = p[n]
  <2> SUFFICES ASSUME NEW n \in DOMAIN p, p[n] # Head(p)
               PROVE  \E i \in DOMAIN q : q[i] = p[n]
    OBVIOUS
  <2>1. n - 1 \in DOMAIN q /\ q[n - 1] = p[n]
    BY <1>2
  <2> QED BY <2>1
<1>9. \A i \in DOMAIN q : \E m, n \in DOMAIN p : m < n /\ Head(p) = p[m] /\ q[i] = p[n]
  <2> SUFFICES ASSUME NEW i \in DOMAIN q
               PROVE  \E m, n \in DOMAIN p : m < n /\ Head(p) = p[m] /\ q[i] = p[n]
    OBVIOUS
  <2>1. /\ 1 \in DOMAIN p /\ i + 1 \in DOMAIN p /\ 1 < i + 1 /\ Head(p) = p[1]
        /\ q[i] = p[i + 1]
    BY <1>2
  <2> QED BY <2>1
<1>10. 1 \in DOMAIN p /\ Head(p) = p[1]
  BY <1>2
<1>11. q \in Seq(Inputs) /\ Len(q) <= Len(p) /\ Len(q) = Len(p) - 1 /\ Head(p) \in Inputs
  BY <1>2
<1>12. Fewer
  <2>1. pending' \in Seq(Inputs) /\ Len(pending') <= Len(pending)
    BY <1>1, <1>11 DEF p
  <2>2. \A A : Len(Kept(pending', A)) <= Len(Kept(pending, A))
    BY <1>1, <1>5 DEF p
  <2>3. \A i, j \in DOMAIN pending' : i < j =>
         \E m, n \in DOMAIN pending : m < n /\ pending'[i] = pending[m] /\ pending'[j] = pending[n]
    <3> SUFFICES ASSUME NEW i \in DOMAIN pending', NEW j \in DOMAIN pending', i < j
                 PROVE  \E m, n \in DOMAIN pending :
                          m < n /\ pending'[i] = pending[m] /\ pending'[j] = pending[n]
      OBVIOUS
    <3>1. i \in DOMAIN q /\ j \in DOMAIN q
      BY <1>1
    <3>2. PICK m \in DOMAIN p, n \in DOMAIN p : m < n /\ q[i] = p[m] /\ q[j] = p[n]
      BY <1>6, <3>1
    <3>3. /\ m \in DOMAIN pending /\ n \in DOMAIN pending /\ m < n
          /\ pending'[i] = pending[m] /\ pending'[j] = pending[n]
      BY <1>1, <3>2 DEF p
    <3> QED BY <3>3
  <2>4. \A i \in DOMAIN pending' : \E m \in DOMAIN pending : pending'[i] = pending[m]
    BY <1>1, <1>7 DEF p
  <2> QED BY <2>1, <2>2, <2>3, <2>4 DEF Fewer
<1> QED BY <1>1, <1>3, <1>8, <1>9, <1>10, <1>11, <1>12 DEF p

\* So does keeping some.
LEMMA KeptFewer ==
  ASSUME pending \in Seq(Inputs), NEW A, pending' = Kept(pending, A)
  PROVE  Fewer
<1> DEFINE p == pending  q == Kept(p, A)
<1>1. p \in Seq(Inputs) /\ pending' = q
  OBVIOUS
<1> HIDE DEF p
<1>2. q \in Seq(Inputs) /\ Len(q) <= Len(p)
  BY <1>1, CountTyped
<1>3. \A B : Len(Kept(q, B)) <= Len(Kept(p, B))
  <2> SUFFICES ASSUME NEW B
               PROVE  Len(Kept(q, B)) <= Len(Kept(p, B))
    OBVIOUS
  <2>1. Kept(q, B) = Kept(p, A \cap B)
    BY <1>1, KeptKept
  <2>2. A \cap B \subseteq B
    OBVIOUS
  <2>3. Len(Kept(p, A \cap B)) <= Len(Kept(p, B))
    BY <1>1, <2>2, CountPart
  <2> QED BY <2>1, <2>3
<1>4. /\ \A i, j \in DOMAIN q : i < j => \E m, n \in DOMAIN p : m < n /\ q[i] = p[m] /\ q[j] = p[n]
      /\ \A i \in DOMAIN q : \E m \in DOMAIN p : q[i] = p[m]
  BY <1>1, KeptPlaces
<1> HIDE DEF q
<1> QED BY <1>1, <1>2, <1>3, <1>4 DEF Fewer, p

\* The shorter queue keeps what it promised, if the turns in it are accounted for.
LEMMA FewerKeeps ==
  ASSUME Steady, Fewer,
         preparing' # NoPreparation => Len(pending') <= Capacity + 1,
         step'[1] + Len(queue') + Len(Kept(pending', TextInputs))
           + (IF preparing' = NoPreparation THEN 0 ELSE 1) < nextText',
         shutdown' # "open" =>
           preparing' = NoPreparation /\ \A i \in DOMAIN pending' : pending'[i] \notin SkillInputs
  PROVE  QueueInv'
<1> USE DEF Steady, Typed
<1>1. Len(pending) \in Nat /\ Len(pending') \in Nat /\ Capacity \in Nat
  BY BoundsTyped DEF Fewer, InputTyped
<1>2. \A A : Len(Kept(pending, A)) \in Nat /\ Len(Kept(pending', A)) \in Nat
  BY CountTyped DEF Fewer, InputTyped
<1>3. Len(pending') <= Capacity + 2 /\ Len(Kept(pending', ResultInputs)) <= Capacity
  BY <1>1, <1>2 DEF Fewer, QueueInv
<1>4. \A c \in Calls : Copies(Finished(c))' <= 1
  <2> SUFFICES ASSUME NEW c \in Calls
               PROVE  Copies(Finished(c))' <= 1
    OBVIOUS
  <2>1. Copies(Finished(c)) <= 1
    BY DEF QueueInv
  <2> QED BY <1>2, <2>1 DEF Fewer, Copies
<1>5. \A i, j \in DOMAIN pending' :
        i < j /\ pending'[i] = Interrupted => pending'[j] \notin ResultInputs
  <2> SUFFICES ASSUME NEW i \in DOMAIN pending', NEW j \in DOMAIN pending', i < j,
                      pending'[i] = Interrupted
               PROVE  pending'[j] \notin ResultInputs
    OBVIOUS
  <2>1. PICK m \in DOMAIN pending, n \in DOMAIN pending :
          m < n /\ pending'[i] = pending[m] /\ pending'[j] = pending[n]
    BY DEF Fewer
  <2> QED BY <2>1 DEF QueueInv
<1> QED BY <1>3, <1>4, <1>5 DEF QueueInv

\* A call of the batch is answered, by its tool or by a result that waited.
Answered(c) ==
  /\ call # "none" /\ error = "none" /\ commit = NoCommit /\ after = "none" /\ phase = "working"
  /\ starting = NoStart /\ deferred = NoStep /\ failing = NoStep /\ active = NoModel
  /\ compaction = NoCompaction
  /\ \A d \in Calls : tools[d] # "none" => slot[d] \in {"admission", "running"}
  /\ Fewer /\ Len(Kept(pending', TextInputs)) = Len(Kept(pending, TextInputs))
  /\ \A d \in Calls \ {c} : Len(Kept(pending', {Finished(d)})) = Len(Kept(pending, {Finished(d)}))
  /\ Len(Kept(pending', {Finished(c)})) = 0
  /\ \A i \in DOMAIN pending : pending[i].kind = "interrupt" =>
       \E j \in DOMAIN pending' : pending'[j].kind = "interrupt"
  /\ tools' \in [Calls -> {"none", "admission", "execution"}] /\ tools'[c] = "none"
  /\ \A d \in Calls \ {c} : tools'[d] = tools[d]
  /\ slot[c] \in {"admission", "running"}
  /\ UNCHANGED <<disk, journal, after, preparing, starting, deferred, failing, active,
                 compaction, spent, shutdown, call, error, ended, unanswered, returned, nextText>>

\* The last answer of the batch ends the turn on its step budget.
LEMMA AnsweredEndsKeeps ==
  ASSUME Alive, NEW c \in Calls, Answered(c), TurnEnds,
         \A other \in Calls \ {c} : slot[other] \in {"none", "finished"}
  PROVE  Alive'
<1> USE DEF Alive, Lives, Steady, Typed, LiveInv
<1>1. /\ UNCHANGED <<step, disk, journal, after, preparing, starting, deferred, failing, active,
                        compaction, spent, shutdown, call, error, ended, unanswered, returned,
                        nextText>>
      /\ call # "none" /\ error = "none" /\ commit = NoCommit /\ after = "none" /\ phase = "working"
      /\ starting = NoStart /\ deferred = NoStep /\ failing = NoStep /\ active = NoModel
         /\ compaction = NoCompaction
      /\ Fewer /\ Len(Kept(pending', TextInputs)) = Len(Kept(pending, TextInputs))
      /\ \A d \in Calls \ {c} : Len(Kept(pending', {Finished(d)})) = Len(Kept(pending, {Finished(d)}))
      /\ Len(Kept(pending', {Finished(c)})) = 0
      /\ InterruptPending => InterruptPending'
      /\ tools' \in [Calls -> {"none", "admission", "execution"}] /\ tools'[c] = "none"
      /\ \A d \in Calls \ {c} : tools'[d] = tools[d]
      /\ \A d \in Calls : tools'[d] = "none"
      /\ \A d \in Calls \ {c} : slot[d] \in {"none", "finished"}
      /\ Closed /\ queue' = <<>> /\ Len(queue') = 0
      /\ Begun({}, CloseTurn, "none", {}, queue, queue, "none")
  <2>1. \A d \in Calls : tools'[d] = "none"
    BY DEF Answered
  <2> QED
    BY <2>1 DEF Answered, InterruptPending, TurnEnds, Closed
<1>10. OwnerTyped' /\ SettledInv'
  BY <1>1 DEF OwnerTyped, SettledInv
<1>11. AgentTyped'
  <2>1. <<>> \in Seq(Texts)
    OBVIOUS
  <2> QED BY <1>1, <2>1 DEF AgentTyped, Closed, Phases
<1>12. FileTyped'
  BY <1>1, Nones DEF FileTyped, Thens, Closed, Begun
<1>13. InputTyped'
  BY <1>1, Nones DEF InputTyped, Closed, Begun, Fewer
<1>14. CallTyped'
  BY <1>1, Nones DEF CallTyped, Closed, Begun
<1>15. CallInv'
  BY <1>1, Nones DEF CallInv, Closed, Begun
<1>16. AgentInv'
  BY <1>1, Nones DEF AgentInv, Unsettled, Closed, Begun
<1>17. QueueInv'
  <2>1. /\ step[1] \in Nat /\ Len(queue) \in Nat /\ nextText \in Nat
        /\ Len(Kept(pending, TextInputs)) \in Nat
    BY TurnLeft
  <2>2. Len(pending') <= Len(pending) /\ Len(pending) \in Nat /\ Len(pending') \in Nat
    BY <1>1 DEF Fewer, InputTyped
  <2>3. Capacity \in Nat
    BY BoundsTyped
  <2>4. preparing' # NoPreparation => Len(pending') <= Capacity + 1
    BY <1>1, <2>2, <2>3 DEF QueueInv
  <2>5. step'[1] + Len(queue') + Len(Kept(pending', TextInputs))
          + (IF preparing' = NoPreparation THEN 0 ELSE 1) < nextText'
    <3>1. step[1] + Len(queue) + Len(Kept(pending, TextInputs))
            + (IF preparing = NoPreparation THEN 0 ELSE 1) < nextText
      BY DEF QueueInv
    <3> QED BY <1>1, <2>1, <3>1 DEF Closed
  <2>6. shutdown' # "open" =>
          preparing' = NoPreparation /\ \A i \in DOMAIN pending' : pending'[i] \notin SkillInputs
    BY <1>1 DEF QueueInv, Fewer
  <2> QED BY <1>1, <2>4, <2>5, <2>6, FewerKeeps DEF QueueInv
<1>18. DurableInv'
  BY <1>1, Nones, CloseTurnHas, FactsApart DEF DurableInv, Closed, Begun, AgentTyped
<1>19. EndInv'
  BY <1>1, Nones DEF EndInv, ToolsBusy, Closed, Begun
<1>20. DueInv'
  BY <1>1, Nones DEF DueInv, Due, StopDue, Stopped, Closed, Begun
<1>21. CommitInv'
  BY <1>1, Nones DEF CommitInv, Stopped, Closed, Begun
<1>22. SoloInv'
  BY <1>1, Nones DEF SoloInv, Due, StopDue, Streams, ToolsBusy, Closed, Begun
<1>23. ToolInv'
  <2>1. \A d \in Calls : Len(Kept(pending', {Finished(d)})) = 0
    <3> SUFFICES ASSUME NEW d \in Calls
                 PROVE  Len(Kept(pending', {Finished(d)})) = 0
      OBVIOUS
    <3>1. CASE d = c
      BY <1>1, <3>1
    <3>2. CASE d # c
      <4>1. slot[d] # "running"
        BY <1>1, <3>2
      <4>2. Len(Kept(pending, {Finished(d)})) \in Nat
        BY CountTyped DEF InputTyped
      <4> QED BY <1>1, <3>2, <4>1, <4>2 DEF ToolInv, Copies
    <3> QED BY <3>1, <3>2
  <2> QED
    BY <1>1, <2>1 DEF ToolInv, Copies
<1>24. EffectInv'
  BY <1>1, Nones DEF EffectInv, ToolsBusy, Closed, Begun
<1>25. SummaryInv'
  BY <1>1, Nones DEF SummaryInv, Due, StopDue, Streams, Closed, Begun, Fewer
<1>26. AttemptInv'
  <2>1. NextDisk = disk /\ NextDisk' = disk \ CloseTurn
    BY <1>1, Nones DEF NextDisk, Begun
  <2>2. \A s \in Steps : /\ Attempt("model", s) \in NextDisk' => Attempt("model", s) \in NextDisk
                         /\ Attempt("summary", s) \in NextDisk' => Attempt("summary", s) \in NextDisk
    BY <2>1
  <2>3. \A n \in 0..MaxTexts : Opened(n) \notin NextDisk'
    BY <1>1, <2>1, CloseTurnHas, Nones DEF AttemptInv
  <2> QED
    BY <1>1, <2>1, <2>2, <2>3, Nones DEF AttemptInv, Due, Begun, Closed, DueInv, SoloInv
<1>27. OwnInv'
  BY <1>1, Nones DEF OwnInv, InterruptPending, Copies, Closed, Begun, AgentInv
<1>28. ClosingInv'
  BY <1>1, Nones DEF ClosingInv, Due, StopDue, Closed, Begun
<1> QED
  BY <1>1, <1>10, <1>11, <1>12, <1>13, <1>14, <1>15, <1>16, <1>17, <1>18, <1>19, <1>20, <1>21,
    <1>22, <1>23, <1>24, <1>25, <1>26, <1>27, <1>28

\* The last answer of the batch ends the turn, and the next queued one begins.
LEMMA AnsweredOpensKeeps ==
  ASSUME Alive, NEW c \in Calls, Answered(c),
         NEW t \in Texts, TurnOpens(t, Tail(queue), CloseTurn), Tail(queue) \in Seq(Texts),
         Len(Tail(queue)) = Len(queue) - 1, Len(queue) \in Nat,
         \A other \in Calls \ {c} : slot[other] \in {"none", "finished"}
  PROVE  Alive'
<1> USE DEF Alive, Lives, Steady, Typed, LiveInv
<1>1. /\ UNCHANGED <<disk, journal, after, preparing, starting, deferred, failing, active,
                        compaction, spent, shutdown, call, error, ended, unanswered, returned,
                        nextText>>
      /\ call # "none" /\ error = "none" /\ commit = NoCommit /\ after = "none" /\ phase = "working"
      /\ starting = NoStart /\ deferred = NoStep /\ failing = NoStep /\ active = NoModel
         /\ compaction = NoCompaction
      /\ Fewer /\ Len(Kept(pending', TextInputs)) = Len(Kept(pending, TextInputs))
      /\ \A d \in Calls \ {c} : Len(Kept(pending', {Finished(d)})) = Len(Kept(pending, {Finished(d)}))
      /\ Len(Kept(pending', {Finished(c)})) = 0
      /\ InterruptPending => InterruptPending'
      /\ tools' \in [Calls -> {"none", "admission", "execution"}] /\ tools'[c] = "none"
      /\ \A d \in Calls \ {c} : tools'[d] = tools[d]
      /\ \A d \in Calls : tools'[d] = "none"
      /\ \A d \in Calls \ {c} : slot[d] \in {"none", "finished"}
      /\ phase' = "streaming" /\ slot' = [d \in Calls |-> "none"]
         /\ step' \in Steps /\ step'[1] = step[1] + 1 /\ step' # NoStep
      /\ queue' \in Seq(Texts) /\ Len(queue') = Len(queue) - 1
      /\ Begun({Said(t), Opened(step[1] + 1)}, CloseTurn, "call", {}, <<>>, <<t>>, "none")
  <2>1. \A d \in Calls : tools'[d] = "none"
    BY DEF Answered
  <2> QED
    BY <2>1 DEF Answered, InterruptPending, TurnOpens
<1>10. OwnerTyped' /\ SettledInv'
  BY <1>1 DEF OwnerTyped, SettledInv
<1>11. AgentTyped'
  BY <1>1, Nones DEF AgentTyped, Begun, Phases
<1>12. FileTyped'
  BY <1>1, Nones DEF FileTyped, Thens, Begun
<1>13. InputTyped'
  BY <1>1, Nones DEF InputTyped, Begun, Fewer
<1>14. CallTyped'
  BY <1>1, Nones DEF CallTyped, Begun
<1>15. CallInv'
  BY <1>1, Nones DEF CallInv, Begun
<1>16. AgentInv'
  BY <1>1, Nones DEF AgentInv, Unsettled, Begun
<1>17. QueueInv'
  <2>1. /\ step[1] \in Nat /\ Len(queue) \in Nat /\ nextText \in Nat
        /\ Len(Kept(pending, TextInputs)) \in Nat
    BY TurnLeft
  <2>2. Len(pending') <= Len(pending) /\ Len(pending) \in Nat /\ Len(pending') \in Nat
    BY <1>1 DEF Fewer, InputTyped
  <2>3. Capacity \in Nat
    BY BoundsTyped
  <2>4. preparing' # NoPreparation => Len(pending') <= Capacity + 1
    BY <1>1, <2>2, <2>3 DEF QueueInv
  <2>5. step'[1] + Len(queue') + Len(Kept(pending', TextInputs))
          + (IF preparing' = NoPreparation THEN 0 ELSE 1) < nextText'
    <3>1. step[1] + Len(queue) + Len(Kept(pending, TextInputs))
            + (IF preparing = NoPreparation THEN 0 ELSE 1) < nextText
      BY DEF QueueInv
    <3> QED BY <1>1, <2>1, <3>1 DEF Closed
  <2>6. shutdown' # "open" =>
          preparing' = NoPreparation /\ \A i \in DOMAIN pending' : pending'[i] \notin SkillInputs
    BY <1>1 DEF QueueInv, Fewer
  <2> QED BY <1>1, <2>4, <2>5, <2>6, FewerKeeps DEF QueueInv
<1>18. DurableInv'
  BY <1>1, Nones, CloseTurnHas, FactsApart DEF DurableInv, Begun, AgentTyped
<1>19. EndInv'
  BY <1>1, Nones DEF EndInv, ToolsBusy, Begun
<1>20. DueInv'
  BY <1>1, Nones DEF DueInv, Due, StopDue, Stopped, Begun
<1>21. CommitInv'
  BY <1>1, Nones DEF CommitInv, Stopped, Begun
<1>22. SoloInv'
  BY <1>1, Nones DEF SoloInv, Due, StopDue, Streams, ToolsBusy, Begun
<1>23. ToolInv'
  <2>1. \A d \in Calls : Len(Kept(pending', {Finished(d)})) = 0
    <3> SUFFICES ASSUME NEW d \in Calls
                 PROVE  Len(Kept(pending', {Finished(d)})) = 0
      OBVIOUS
    <3>1. CASE d = c
      BY <1>1, <3>1
    <3>2. CASE d # c
      <4>1. slot[d] # "running"
        BY <1>1, <3>2
      <4>2. Len(Kept(pending, {Finished(d)})) \in Nat
        BY CountTyped DEF InputTyped
      <4> QED BY <1>1, <3>2, <4>1, <4>2 DEF ToolInv, Copies
    <3> QED BY <3>1, <3>2
  <2> QED
    BY <1>1, <2>1 DEF ToolInv, Copies
<1>24. EffectInv'
  BY <1>1, Nones DEF EffectInv, ToolsBusy, Begun
<1>25. SummaryInv'
  BY <1>1, Nones DEF SummaryInv, Due, StopDue, Streams, Begun, Fewer
<1>26. AttemptInv'
  <2>1. NextDisk = disk /\ NextDisk' = (disk \ CloseTurn) \cup {Said(t), Opened(step[1] + 1)}
    BY <1>1, Nones DEF NextDisk, Begun
  <2>2. \A s \in Steps : /\ Attempt("model", s) \in NextDisk' => Attempt("model", s) \in NextDisk
                         /\ Attempt("summary", s) \in NextDisk' => Attempt("summary", s) \in NextDisk
    BY <2>1, FactsApart
  <2>3. \A n \in 0..MaxTexts : Opened(n) \in NextDisk' => n = step'[1]
    BY <1>1, <2>1, FactsApart, CloseTurnHas, Nones DEF AttemptInv
  <2> QED
    BY <1>1, <2>1, <2>2, <2>3, Nones DEF AttemptInv, Due, Begun, DueInv, SoloInv
<1>27. OwnInv'
  BY <1>1, Nones DEF OwnInv, InterruptPending, Copies, Begun, AgentInv
<1>28. ClosingInv'
  BY <1>1, Nones DEF ClosingInv, Due, StopDue, Begun
<1> QED
  BY <1>1, <1>10, <1>11, <1>12, <1>13, <1>14, <1>15, <1>16, <1>17, <1>18, <1>19, <1>20, <1>21,
    <1>22, <1>23, <1>24, <1>25, <1>26, <1>27, <1>28

\* The last answer of the batch leads to the next step of the turn.
LEMMA AnsweredGoesOnKeeps ==
  ASSUME Alive, NEW c \in Calls, Answered(c), StepGoesOn,
         \A other \in Calls \ {c} : slot[other] \in {"none", "finished"}
  PROVE  Alive'
<1> USE DEF Alive, Lives, Steady, Typed, LiveInv
<1>1. /\ UNCHANGED <<queue, disk, journal, after, preparing, starting, deferred, failing, active,
                        compaction, spent, shutdown, call, error, ended, unanswered, returned,
                        nextText>>
      /\ call # "none" /\ error = "none" /\ commit = NoCommit /\ after = "none" /\ phase = "working"
      /\ starting = NoStart /\ deferred = NoStep /\ failing = NoStep /\ active = NoModel
         /\ compaction = NoCompaction
      /\ Fewer /\ Len(Kept(pending', TextInputs)) = Len(Kept(pending, TextInputs))
      /\ \A d \in Calls \ {c} : Len(Kept(pending', {Finished(d)})) = Len(Kept(pending, {Finished(d)}))
      /\ Len(Kept(pending', {Finished(c)})) = 0
      /\ InterruptPending => InterruptPending'
      /\ tools' \in [Calls -> {"none", "admission", "execution"}] /\ tools'[c] = "none"
      /\ \A d \in Calls \ {c} : tools'[d] = tools[d]
      /\ \A d \in Calls : tools'[d] = "none"
      /\ \A d \in Calls \ {c} : slot[d] \in {"none", "finished"}
      /\ phase' = "streaming" /\ slot' = [d \in Calls |-> "none"]
         /\ step' \in Steps /\ step'[1] = step[1] /\ step' # NoStep
      /\ Begun({}, {Audited(d) : d \in Calls}, "call", {}, <<>>, <<>>, "none")
  <2>1. \A d \in Calls : tools'[d] = "none"
    BY DEF Answered
  <2> QED
    BY <2>1 DEF Answered, InterruptPending, StepGoesOn
<1>10. OwnerTyped' /\ SettledInv'
  BY <1>1 DEF OwnerTyped, SettledInv
<1>11. AgentTyped'
  BY <1>1, Nones DEF AgentTyped, Begun, Phases
<1>12. FileTyped'
  BY <1>1, Nones DEF FileTyped, Thens, Begun
<1>13. InputTyped'
  BY <1>1, Nones DEF InputTyped, Begun, Fewer
<1>14. CallTyped'
  BY <1>1, Nones DEF CallTyped, Begun
<1>15. CallInv'
  BY <1>1, Nones DEF CallInv, Begun
<1>16. AgentInv'
  BY <1>1, Nones DEF AgentInv, Unsettled, Begun
<1>17. QueueInv'
  <2>1. /\ step[1] \in Nat /\ Len(queue) \in Nat /\ nextText \in Nat
        /\ Len(Kept(pending, TextInputs)) \in Nat
    BY TurnLeft
  <2>2. Len(pending') <= Len(pending) /\ Len(pending) \in Nat /\ Len(pending') \in Nat
    BY <1>1 DEF Fewer, InputTyped
  <2>3. Capacity \in Nat
    BY BoundsTyped
  <2>4. preparing' # NoPreparation => Len(pending') <= Capacity + 1
    BY <1>1, <2>2, <2>3 DEF QueueInv
  <2>5. step'[1] + Len(queue') + Len(Kept(pending', TextInputs))
          + (IF preparing' = NoPreparation THEN 0 ELSE 1) < nextText'
    <3>1. step[1] + Len(queue) + Len(Kept(pending, TextInputs))
            + (IF preparing = NoPreparation THEN 0 ELSE 1) < nextText
      BY DEF QueueInv
    <3> QED BY <1>1, <2>1, <3>1 DEF Closed
  <2>6. shutdown' # "open" =>
          preparing' = NoPreparation /\ \A i \in DOMAIN pending' : pending'[i] \notin SkillInputs
    BY <1>1 DEF QueueInv, Fewer
  <2> QED BY <1>1, <2>4, <2>5, <2>6, FewerKeeps DEF QueueInv
<1>18. DurableInv'
  BY <1>1, Nones, CloseTurnHas, FactsApart DEF DurableInv, Begun, AgentTyped
<1>19. EndInv'
  BY <1>1, Nones DEF EndInv, ToolsBusy, Begun
<1>20. DueInv'
  BY <1>1, Nones DEF DueInv, Due, StopDue, Stopped, Begun
<1>21. CommitInv'
  BY <1>1, Nones DEF CommitInv, Stopped, Begun
<1>22. SoloInv'
  BY <1>1, Nones DEF SoloInv, Due, StopDue, Streams, ToolsBusy, Begun
<1>23. ToolInv'
  <2>1. \A d \in Calls : Len(Kept(pending', {Finished(d)})) = 0
    <3> SUFFICES ASSUME NEW d \in Calls
                 PROVE  Len(Kept(pending', {Finished(d)})) = 0
      OBVIOUS
    <3>1. CASE d = c
      BY <1>1, <3>1
    <3>2. CASE d # c
      <4>1. slot[d] # "running"
        BY <1>1, <3>2
      <4>2. Len(Kept(pending, {Finished(d)})) \in Nat
        BY CountTyped DEF InputTyped
      <4> QED BY <1>1, <3>2, <4>1, <4>2 DEF ToolInv, Copies
    <3> QED BY <3>1, <3>2
  <2> QED
    BY <1>1, <2>1 DEF ToolInv, Copies
<1>24. EffectInv'
  BY <1>1, Nones DEF EffectInv, ToolsBusy, Begun
<1>25. SummaryInv'
  BY <1>1, Nones DEF SummaryInv, Due, StopDue, Streams, Begun, Fewer
<1>26. AttemptInv'
  <2>1. NextDisk = disk /\ NextDisk' = disk \ {Audited(d) : d \in Calls}
    BY <1>1, Nones DEF NextDisk, Begun
  <2>2. \A n \in 0..MaxTexts : Opened(n) \in NextDisk' => n = step'[1]
    BY <1>1, <2>1, Nones DEF AttemptInv
  <2> QED
    BY <1>1, <2>1, <2>2, Nones DEF AttemptInv, Due, Begun, DueInv, SoloInv
<1>27. OwnInv'
  BY <1>1, Nones DEF OwnInv, InterruptPending, Copies, Begun, AgentInv
<1>28. ClosingInv'
  BY <1>1, Nones DEF ClosingInv, Due, StopDue, Begun
<1> QED
  BY <1>1, <1>10, <1>11, <1>12, <1>13, <1>14, <1>15, <1>16, <1>17, <1>18, <1>19, <1>20, <1>21,
    <1>22, <1>23, <1>24, <1>25, <1>26, <1>27, <1>28

\* An answer leaves the others of the batch their turn.
LEMMA AnsweredDoneKeeps ==
  ASSUME Alive, NEW c \in Calls, Answered(c), CallDone(c),
         NEW other \in Calls \ {c}, slot[other] \notin {"none", "finished"}
  PROVE  Alive'
<1> USE DEF Alive, Lives, Steady, Typed, LiveInv
<1>1. /\ UNCHANGED <<phase, step, queue, disk, journal, after, preparing, starting, deferred,
                        failing, active, compaction, spent, shutdown, call, error, ended,
                        unanswered, returned, nextText>>
      /\ call # "none" /\ error = "none" /\ commit = NoCommit /\ after = "none" /\ phase = "working"
      /\ starting = NoStart /\ deferred = NoStep /\ failing = NoStep /\ active = NoModel
         /\ compaction = NoCompaction
      /\ Fewer /\ Len(Kept(pending', TextInputs)) = Len(Kept(pending, TextInputs))
      /\ \A d \in Calls \ {c} : Len(Kept(pending', {Finished(d)})) = Len(Kept(pending, {Finished(d)}))
      /\ Len(Kept(pending', {Finished(c)})) = 0
      /\ InterruptPending => InterruptPending'
      /\ tools' \in [Calls -> {"none", "admission", "execution"}] /\ tools'[c] = "none"
      /\ \A d \in Calls \ {c} : tools'[d] = tools[d]
      /\ slot' = [slot EXCEPT ![c] = "finished"] /\ slot \in [Calls -> {"none", "admission", "running", "finished"}]
      /\ slot[other] \in {"admission", "running"}
         /\ \A d \in Calls : tools[d] # "none" => slot[d] \in {"admission", "running"}
      /\ Begun({}, {}, "none", {}, <<>>, <<>>, "none")
  BY DEF Answered, InterruptPending, CallDone, AgentTyped
<1>10. OwnerTyped' /\ SettledInv'
  BY <1>1 DEF OwnerTyped, SettledInv
<1>11. AgentTyped'
  BY <1>1, Nones DEF AgentTyped, Begun
<1>12. FileTyped'
  BY <1>1, Nones DEF FileTyped, Thens, Begun
<1>13. InputTyped'
  BY <1>1, Nones DEF InputTyped, Begun, Fewer
<1>14. CallTyped'
  BY <1>1, Nones DEF CallTyped, Begun
<1>15. CallInv'
  BY <1>1, Nones DEF CallInv, Begun
<1>16. AgentInv'
  BY <1>1, Nones DEF AgentInv, Unsettled, Begun
<1>17. QueueInv'
  <2>1. /\ step[1] \in Nat /\ Len(queue) \in Nat /\ nextText \in Nat
        /\ Len(Kept(pending, TextInputs)) \in Nat
    BY TurnLeft
  <2>2. Len(pending') <= Len(pending) /\ Len(pending) \in Nat /\ Len(pending') \in Nat
    BY <1>1 DEF Fewer, InputTyped
  <2>3. Capacity \in Nat
    BY BoundsTyped
  <2>4. preparing' # NoPreparation => Len(pending') <= Capacity + 1
    BY <1>1, <2>2, <2>3 DEF QueueInv
  <2>5. step'[1] + Len(queue') + Len(Kept(pending', TextInputs))
          + (IF preparing' = NoPreparation THEN 0 ELSE 1) < nextText'
    <3>1. step[1] + Len(queue) + Len(Kept(pending, TextInputs))
            + (IF preparing = NoPreparation THEN 0 ELSE 1) < nextText
      BY DEF QueueInv
    <3> QED BY <1>1, <2>1, <3>1 DEF Closed
  <2>6. shutdown' # "open" =>
          preparing' = NoPreparation /\ \A i \in DOMAIN pending' : pending'[i] \notin SkillInputs
    BY <1>1 DEF QueueInv, Fewer
  <2> QED BY <1>1, <2>4, <2>5, <2>6, FewerKeeps DEF QueueInv
<1>18. DurableInv'
  BY <1>1, Nones, CloseTurnHas, FactsApart DEF DurableInv, Begun, AgentTyped
<1>19. EndInv'
  BY <1>1, Nones DEF EndInv, ToolsBusy, Begun
<1>20. DueInv'
  BY <1>1, Nones DEF DueInv, Due, StopDue, Stopped, Begun
<1>21. CommitInv'
  BY <1>1, Nones DEF CommitInv, Stopped, Begun
<1>22. SoloInv'
  BY <1>1, Nones DEF SoloInv, Due, StopDue, Streams, ToolsBusy, Begun
<1>23. ToolInv'
  <2> SUFFICES ASSUME NEW d \in Calls
               PROVE  /\ tools'[d] = "admission" => slot'[d] = "admission"
                      /\ tools'[d] = "execution" => slot'[d] = "running"
                      /\ Len(Kept(pending', {Finished(d)})) > 0 =>
                           slot'[d] = "running" /\ tools'[d] = "none"
    BY <1>1 DEF ToolInv, Copies, Begun
  <2>1. CASE d = c
    BY <1>1, <2>1
  <2>2. CASE d # c
    <3>1. slot'[d] = slot[d] /\ tools'[d] = tools[d] /\ ~StopDue
      BY <1>1, <2>2, Nones DEF StopDue, Due
    <3> QED BY <1>1, <2>2, <3>1 DEF ToolInv, Copies
  <2> QED BY <2>1, <2>2
<1>24. EffectInv'
  BY <1>1, Nones DEF EffectInv, ToolsBusy, Begun
<1>25. SummaryInv'
  BY <1>1, Nones DEF SummaryInv, Due, StopDue, Streams, Begun, Fewer
<1>26. AttemptInv'
  <2>1. NextDisk = disk /\ NextDisk' = disk
    BY <1>1, Nones DEF NextDisk, Begun
  <2> QED
    BY <1>1, <2>1, Nones DEF AttemptInv, Due, Begun, DueInv, SoloInv
<1>27. OwnInv'
  BY <1>1, Nones DEF OwnInv, InterruptPending, Copies, Begun, AgentInv
<1>28. ClosingInv'
  BY <1>1, Nones DEF ClosingInv, Due, StopDue, Begun
<1> QED
  BY <1>1, <1>10, <1>11, <1>12, <1>13, <1>14, <1>15, <1>16, <1>17, <1>18, <1>19, <1>20, <1>21,
    <1>22, <1>23, <1>24, <1>25, <1>26, <1>27, <1>28

\* A call of the batch is answered, whether or not it was the last.
LEMMA AnsweredKeeps ==
  ASSUME Alive, NEW c \in Calls, Answered(c), CallSettled(c)
  PROVE  Alive'
<1>1. step \in Steps /\ queue \in Seq(Texts) /\ (queue # <<>> => step[1] + 1 <= MaxTexts)
  BY TurnLeft DEF Alive, Steady, Typed, AgentTyped
<1>2. \/ /\ \A other \in Calls \ {c} : slot[other] \in {"none", "finished"}
         /\ \/ queue = <<>> /\ TurnEnds
            \/ /\ queue # <<>> /\ Head(queue) \in Texts /\ Tail(queue) \in Seq(Texts)
               /\ Len(Tail(queue)) = Len(queue) - 1 /\ Len(queue) \in Nat
               /\ TurnOpens(Head(queue), Tail(queue), CloseTurn)
            \/ StepGoesOn
      \/ /\ \E other \in Calls \ {c} : slot[other] \notin {"none", "finished"}
         /\ CallDone(c)
  BY <1>1, CallSettledIs
<1>3. CASE TurnEnds /\ \A other \in Calls \ {c} : slot[other] \in {"none", "finished"}
  BY <1>3, AnsweredEndsKeeps
<1>4. CASE /\ Head(queue) \in Texts /\ Tail(queue) \in Seq(Texts)
           /\ Len(Tail(queue)) = Len(queue) - 1 /\ Len(queue) \in Nat
           /\ TurnOpens(Head(queue), Tail(queue), CloseTurn)
           /\ \A other \in Calls \ {c} : slot[other] \in {"none", "finished"}
  BY <1>4, AnsweredOpensKeeps
<1>5. CASE StepGoesOn /\ \A other \in Calls \ {c} : slot[other] \in {"none", "finished"}
  BY <1>5, AnsweredGoesOnKeeps
<1>6. CASE CallDone(c) /\ \E other \in Calls \ {c} : slot[other] \notin {"none", "finished"}
  BY <1>6, AnsweredDoneKeeps
<1> QED BY <1>2, <1>3, <1>4, <1>5, <1>6

\* While the answer of a call is waited for, nothing but the batch is under way.
LEMMA ToolsAlone ==
  ASSUME Alive, commit = NoCommit, after = "none", NEW c \in Calls, slot[c] \in {"admission", "running"}
  PROVE  /\ phase = "working" /\ starting = NoStart /\ deferred = NoStep /\ failing = NoStep
         /\ active = NoModel /\ compaction = NoCompaction /\ ~StopDue
         /\ \A d \in Calls : tools[d] # "none" => slot[d] \in {"admission", "running"}
         /\ \A d \in Calls : Copies(Finished(d)) > 0 => slot[d] = "running" /\ tools[d] = "none"
         /\ \A d \in Calls : Copies(Finished(d)) \in Nat
<1> USE DEF Alive, Lives, Steady, Typed, LiveInv
<1>1. phase = "working" /\ ~StopDue /\ ~Stopped
  BY Nones DEF AgentInv, StopDue, Stopped, Due
<1>2. /\ starting = NoStart /\ failing = NoStep /\ compaction = NoCompaction /\ active = NoModel
      /\ deferred = NoStep
  BY <1>1, Nones DEF SoloInv, DueInv, Due, Streams, OwnerTyped, Models
<1>3. \A d \in Calls : tools[d] # "none" => slot[d] \in {"admission", "running"}
  BY <1>1 DEF ToolInv, CallTyped
<1>4. \A d \in Calls : Copies(Finished(d)) \in Nat
  BY CountTyped DEF InputTyped, Copies
<1> QED BY <1>1, <1>2, <1>3, <1>4 DEF ToolInv

\* An admitted call is recorded before it runs.
LEMMA ToolAdmittedKeeps ==
  ASSUME Alive, NEW c \in Calls, ToolResolves(c, TRUE),
         tools[c] = "admission", slot[c] = "admission"
  PROVE  Alive'
<1> USE DEF Alive, Lives, Steady, Typed, LiveInv
<1>1. /\ UNCHANGED <<phase, step, queue, disk, journal, after, pending, preparing, starting,
                        deferred, failing, active, compaction, spent, shutdown, call, error,
                        ended, unanswered, returned, nextText>>
      /\ call = "update" /\ shutdown = "open" /\ error = "none" /\ commit = NoCommit /\ after = "none"
         /\ phase = "working"
      /\ starting = NoStart /\ deferred = NoStep /\ failing = NoStep /\ active = NoModel
         /\ compaction = NoCompaction
      /\ tools \in [Calls -> {"none", "admission", "execution"}]
         /\ slot \in [Calls -> {"none", "admission", "running", "finished"}]
      /\ tools' = [tools EXCEPT ![c] = "none"] /\ slot' = [slot EXCEPT ![c] = "running"]
      /\ Copies(Finished(c)) = 0 /\ tools[c] = "admission" /\ slot[c] = "admission" /\ ~StopDue
      /\ Begun({Audited(c)}, {}, "run", {c}, <<>>, <<>>, "none")
  <2>1. /\ call = "update" /\ error = "none" /\ commit = NoCommit /\ after = "none"
        /\ deferred = NoStep
    BY DEF ToolResolves, Waiting, Quiet, Settled, Driving
  <2>2. shutdown = "open"
    BY <2>1 DEF CallInv
  <2>3. /\ phase = "working" /\ starting = NoStart /\ failing = NoStep /\ active = NoModel
        /\ compaction = NoCompaction /\ ~StopDue /\ Copies(Finished(c)) = 0
    <3>1. slot[c] \in {"admission", "running"} /\ tools[c] # "none"
      OBVIOUS
    <3> QED BY <2>1, <3>1, ToolsAlone
  <2>4. /\ tools \in [Calls -> {"none", "admission", "execution"}]
        /\ slot \in [Calls -> {"none", "admission", "running", "finished"}]
    BY DEF CallTyped, AgentTyped
  <2>5. /\ tools' = [tools EXCEPT ![c] = "none"] /\ slot' = [slot EXCEPT ![c] = "running"]
        /\ Begin([Adds({Audited(c)}) EXCEPT !.effect = "run", !.calls = {c}], <<>>, "none")
        /\ UNCHANGED <<phase, step, queue>>
    BY DEF ToolResolves
  <2> DEFINE A == {Audited(c)}
             r == [Adds(A) EXCEPT !.effect = "run", !.calls = {c}]
  <2>6. /\ r \in Reactions /\ r.adds = A /\ r.clears = {} /\ r.effect = "run"
        /\ r.calls = {c} /\ r.back = <<>>
    <3>1. A \in SUBSET Facts
      BY FactsTyped
    <3> HIDE DEF A
    <3>2. /\ Adds(A) \in Reactions /\ Adds(A).adds = A /\ Adds(A).clears = {}
          /\ Adds(A).back = <<>>
      BY <3>1, AddsTyped
    <3> QED BY <3>2 DEF Reactions
  <2>7. <<>> \in Seq(Texts) /\ "none" \in Thens /\ Begin(r, <<>>, "none")
    BY <2>5 DEF Thens
  <2> HIDE DEF r
  <2>8. /\ commit' \in Commits /\ commit' # NoCommit /\ commit'.written = "no"
        /\ commit'.reaction = r /\ commit'.rejected = <<>> /\ commit'.then = "none"
    BY <2>6, <2>7, BeginTyped
  <2>9. Begun({Audited(c)}, {}, "run", {c}, <<>>, <<>>, "none")
    BY <2>6, <2>8 DEF Begun
  <2> QED
    BY <2>1, <2>2, <2>3, <2>4, <2>5, <2>9
    DEF ToolResolves, inputVars, userVars, exitVars, ownerVars
<1>10. InputTyped' /\ OwnerTyped' /\ SettledInv'
  BY <1>1 DEF InputTyped, OwnerTyped, SettledInv
<1>11. QueueInv'
  BY <1>1 DEF QueueInv, Copies
<1>12. AgentTyped'
  BY <1>1, Nones DEF AgentTyped, Begun
<1>13. FileTyped'
  BY <1>1, Nones DEF FileTyped, Thens, Begun
<1>14. CallTyped'
  BY <1>1, Nones DEF CallTyped, Begun
<1>15. CallInv'
  BY <1>1, Nones DEF CallInv, Begun
<1>16. AgentInv'
  BY <1>1, Nones DEF AgentInv, Unsettled, Begun
<1>17. DurableInv'
  BY <1>1, Nones DEF DurableInv, Begun, Unsettled
<1>18. EndInv'
  BY <1>1, Nones DEF EndInv, ToolsBusy, Begun
<1>19. DueInv'
  BY <1>1, Nones DEF DueInv, Due, StopDue, Stopped, Begun
<1>20. CommitInv'
  BY <1>1, Nones DEF CommitInv, Stopped, Begun
<1>21. SoloInv'
  BY <1>1, Nones DEF SoloInv, Due, StopDue, Streams, ToolsBusy, Begun
<1>22. ToolInv'
  BY <1>1, Nones DEF ToolInv, Due, StopDue, Copies, Begun
<1>23. EffectInv'
  <2>1. /\ c \in Calls /\ commit'.reaction.calls = {c} /\ slot'[c] = "running"
        /\ tools'[c] = "none" /\ commit'.reaction.adds = {Audited(c)}
        /\ commit'.reaction.effect = "run" /\ commit'.reaction.clears = {}
        /\ commit'.written = "no"
    BY <1>1 DEF Begun
  <2> QED
    BY <1>1, <2>1 DEF EffectInv
<1>24. SummaryInv'
  BY <1>1, Nones DEF SummaryInv, Due, StopDue, Streams, Begun
<1>25. AttemptInv'
  <2>1. NextDisk = disk /\ NextDisk' = disk \cup {Audited(c)}
    BY <1>1, Nones DEF NextDisk, Begun
  <2>2. /\ \A s \in Steps : /\ Attempt("model", s) \in NextDisk' => Attempt("model", s) \in NextDisk
                            /\ Attempt("summary", s) \in NextDisk' => Attempt("summary", s) \in NextDisk
        /\ \A n : Opened(n) \in NextDisk' => Opened(n) \in NextDisk
    BY <2>1, FactsApart
  <2> QED
    BY <1>1, <2>1, <2>2, Nones DEF AttemptInv, Due, Begun, DueInv, SoloInv
<1>26. OwnInv'
  <2>1. /\ phase' = "working" /\ unanswered' = unanswered
        /\ commit'.reaction.calls = {c} /\ commit.reaction.calls = {}
    BY <1>1, Nones DEF Begun
  <2>2. /\ slot'[c] = "running"
        /\ \A d \in Calls : d # c => tools'[d] = tools[d] /\ slot'[d] = slot[d]
    BY <1>1
  <2>3. ~InterruptPending' => ~InterruptPending
    BY <1>1 DEF InterruptPending
  <2>4. \A d \in Calls : Copies(Finished(d))' = Copies(Finished(d))
    BY <1>1 DEF Copies
  <2> SUFFICES ASSUME shutdown' = "open", ~InterruptPending', NEW d \in Calls \ unanswered
               PROVE  /\ slot'[d] = "admission" => tools'[d] = "admission" \/ d \in {c}
                      /\ slot'[d] = "running" =>
                           tools'[d] = "execution" \/ d \in {c} \/ Copies(Finished(d))' > 0
    BY <2>1 DEF OwnInv
  <2>5. shutdown = "open" /\ ~InterruptPending
    BY <1>1, <2>3
  <2> QED BY <2>1, <2>2, <2>4, <2>5 DEF OwnInv
<1>27. ClosingInv'
  BY <1>1, Nones DEF ClosingInv, Due, StopDue, Begun
<1> QED
  BY <1>1, <1>10, <1>11, <1>12, <1>13, <1>14, <1>15, <1>16, <1>17, <1>18, <1>19, <1>20, <1>21,
    <1>22, <1>23, <1>24, <1>25, <1>26, <1>27

\* A tool answers, whatever the answer is.
LEMMA ToolResolvesKeeps ==
  ASSUME Alive, NEW c \in Calls, NEW admitted \in BOOLEAN, ToolResolves(c, admitted)
  PROVE  Alive'
<1> USE DEF Alive, Lives, Steady, Typed, LiveInv
<1>1. /\ call = "update" /\ error = "none" /\ commit = NoCommit /\ after = "none"
      /\ deferred = NoStep /\ tools[c] # "none" /\ tools' = [tools EXCEPT ![c] = "none"]
      /\ UNCHANGED <<inputVars, userVars, exitVars, ownerVars, disk, journal, after, call, error>>
  BY DEF ToolResolves, Waiting, Quiet, Settled, Driving
<1>2. slot[c] \in {"admission", "running"} /\ (tools[c] = "admission" => slot[c] = "admission")
  BY <1>1, Nones DEF ToolInv, StopDue, Due, CallTyped
<1>3. CASE tools[c] = "admission" /\ slot[c] = "admission" /\ admitted
  BY <1>3, ToolAdmittedKeeps
<1>4. CASE ~(tools[c] = "admission" /\ slot[c] = "admission" /\ admitted)
  <2>1. CallSettled(c)
    BY <1>2, <1>4 DEF ToolResolves
  <2>2. /\ phase = "working" /\ starting = NoStart /\ failing = NoStep /\ active = NoModel
        /\ compaction = NoCompaction /\ Copies(Finished(c)) = 0
        /\ \A d \in Calls : tools[d] # "none" => slot[d] \in {"admission", "running"}
    BY <1>1, <1>2, ToolsAlone
  <2>3. pending' = pending
    BY <1>1 DEF inputVars
  <2>4. Fewer /\ Len(Kept(pending', TextInputs)) = Len(Kept(pending, TextInputs))
    <3>1. /\ pending' \in Seq(Inputs) /\ Len(pending') <= Len(pending)
          /\ \A A : Len(Kept(pending', A)) <= Len(Kept(pending, A))
          /\ \A A : Len(Kept(pending', A)) = Len(Kept(pending, A))
      <4>1. Len(pending) \in Nat
        BY DEF InputTyped
      <4>2. \A A : Len(Kept(pending, A)) \in Nat
        BY CountTyped DEF InputTyped
      <4> QED BY <2>3, <4>1, <4>2 DEF InputTyped
    <3> QED BY <2>3, <3>1 DEF Fewer
  <2>5. /\ tools' \in [Calls -> {"none", "admission", "execution"}] /\ tools'[c] = "none"
        /\ \A d \in Calls \ {c} : tools'[d] = tools[d]
    BY <1>1 DEF CallTyped
  <2>6. Answered(c)
    BY <1>1, <1>2, <2>2, <2>3, <2>4, <2>5
    DEF Answered, inputVars, userVars, exitVars, ownerVars, Copies
  <2> QED BY <2>1, <2>6, AnsweredKeeps
<1> QED BY <1>3, <1>4

-----------------------------------------------------------------------------
(* A waiting input is taken.                                                *)

\* Input is taken where nothing is to be driven, and text where no summary was asked for.
LEMMA TakenIs ==
  ASSUME Alive, TakeInput
  PROVE  /\ call # "none" /\ error = "none" /\ commit = NoCommit /\ after = "none"
         /\ deferred = NoStep /\ preparing = NoPreparation /\ pending # <<>>
         /\ starting = NoStart /\ failing = NoStep /\ ~StopDue /\ ~Stopped
         /\ compaction.phase \in {"none", "running"}
         /\ active.settlement \in {"none", "running"} /\ ~active.delivered
         /\ Fewer /\ Len(pending') = Len(pending) - 1 /\ Len(pending) \in Nat
         /\ Head(pending) \in Inputs /\ pending' = Tail(pending)
         /\ \A A : Len(Kept(pending, A)) = IF Head(pending) \in A THEN Len(Kept(pending', A)) + 1
                                                                  ELSE Len(Kept(pending', A))
         /\ \A A : Len(Kept(pending', A)) \in Nat
         /\ Head(pending).kind # "interrupt" =>
              /\ InterruptPending => InterruptPending'
              /\ ~compaction.requested
         /\ Head(pending) \in TextInputs => shutdown # "settling" /\ step[1] + 1 <= MaxTexts
         /\ Head(pending) \in SkillInputs => shutdown = "open"
         /\ Head(pending).kind = "interrupt" => \A c \in Calls : Copies(Finished(c))' = 0
<1> USE DEF Alive, Lives, Steady, Typed, LiveInv
<1>1. /\ call # "none" /\ error = "none" /\ commit = NoCommit /\ after = "none"
      /\ deferred = NoStep /\ preparing = NoPreparation /\ pending # <<>>
      /\ pending' = Tail(pending) /\ pending \in Seq(Inputs)
      /\ Head(pending).kind # "interrupt" => ~compaction.requested
  BY DEF TakeInput, Settled, Driving, CanTake, Blocked, RequestedCompactionActive, InputTyped
<1>2. /\ starting = NoStart /\ failing = NoStep /\ ~StopDue /\ ~Stopped
      /\ compaction.phase \in {"none", "running"}
  BY <1>1, Nones DEF DueInv, Due, StopDue, Stopped, OwnerTyped, Summaries
<1>3. active.settlement \in {"none", "running"} /\ ~active.delivered
  BY <1>1, <1>2, Nones DEF DueInv, Due, OwnerTyped, Models
<1>4. /\ Fewer /\ Len(pending') = Len(pending) - 1 /\ Head(pending) \in Inputs
      /\ \A A : Len(Kept(pending, A)) = IF Head(pending) \in A THEN Len(Kept(pending', A)) + 1
                                                               ELSE Len(Kept(pending', A))
      /\ \E m \in DOMAIN pending : Head(pending) = pending[m]
      /\ \A n \in DOMAIN pending : pending[n] # Head(pending) =>
           \E i \in DOMAIN pending' : pending'[i] = pending[n]
      /\ \A i \in DOMAIN pending' : \E m, n \in DOMAIN pending :
           m < n /\ Head(pending) = pending[m] /\ pending'[i] = pending[n]
  BY <1>1, TailFewer
<1>5. /\ Len(pending) \in Nat /\ \A A : Len(Kept(pending', A)) \in Nat
  <2>1. pending' \in Seq(Inputs)
    BY <1>4 DEF Fewer
  <2> QED BY <1>1, <2>1, CountTyped
<1>6. Head(pending).kind # "interrupt" /\ InterruptPending => InterruptPending'
  <2> SUFFICES ASSUME Head(pending).kind # "interrupt", InterruptPending
               PROVE  InterruptPending'
    OBVIOUS
  <2>1. PICK n \in DOMAIN pending : pending[n].kind = "interrupt"
    BY DEF InterruptPending
  <2>2. PICK i \in DOMAIN pending' : pending'[i] = pending[n]
    BY <1>4, <2>1
  <2> QED BY <2>1, <2>2 DEF InterruptPending
<1>7. Head(pending) \in TextInputs => shutdown # "settling" /\ step[1] + 1 <= MaxTexts
  <2>1. Head(pending) \in TextInputs => Len(Kept(pending, TextInputs)) > 0
    BY <1>4, <1>5
  <2> QED BY <1>4, <2>1, TurnLeft DEF ClosingInv
<1>8. Head(pending) \in SkillInputs => shutdown = "open"
  BY <1>4 DEF QueueInv
<1>9. Head(pending).kind = "interrupt" => \A c \in Calls : Copies(Finished(c))' = 0
  <2> SUFFICES ASSUME Head(pending).kind = "interrupt", NEW c \in Calls
               PROVE  Len(Kept(pending', {Finished(c)})) = 0
    BY DEF Copies
  <2>1. Head(pending) = Interrupted
    BY <1>4, InputsApart
  <2>2. \A i \in DOMAIN pending' : pending'[i] \notin ResultInputs
    <3> SUFFICES ASSUME NEW i \in DOMAIN pending'
                 PROVE  pending'[i] \notin ResultInputs
      OBVIOUS
    <3>1. PICK m \in DOMAIN pending, n \in DOMAIN pending :
            m < n /\ Head(pending) = pending[m] /\ pending'[i] = pending[n]
      BY <1>4
    <3> QED BY <2>1, <3>1 DEF QueueInv
  <2>3. ~ \E i \in DOMAIN pending' : pending'[i] \in {Finished(c)}
    BY <2>2, InputsApart
  <2>4. pending' \in Seq(Inputs)
    BY <1>4 DEF Fewer
  <2>5. (\E i \in DOMAIN pending' : pending'[i] \in {Finished(c)})
          <=> Len(Kept(pending', {Finished(c)})) > 0
    BY <2>4, CountSome
  <2> QED BY <1>5, <2>3, <2>5
<1> QED BY <1>1, <1>2, <1>3, <1>4, <1>5, <1>6, <1>7, <1>8, <1>9

\* A text that names a skill is read first, or comes back.
LEMMA PrepareSkillKeeps ==
  ASSUME Alive, TakeInput, NEW e \in TextInputs, e = Head(pending), e.skill, PrepareSkillInput(e)
  PROVE  Alive'
<1> USE DEF Alive, Lives, Steady, Typed, LiveInv
<1>1. /\ UNCHANGED <<phase, step, slot, queue, disk, journal, commit, after, starting, deferred,
                        failing, active, compaction, spent, tools, shutdown, call, error, ended,
                        unanswered, nextText>>
      /\ call # "none" /\ error = "none" /\ commit = NoCommit /\ after = "none"
         /\ deferred = NoStep /\ preparing = NoPreparation
      /\ starting = NoStart /\ failing = NoStep /\ ~StopDue /\ ~Stopped
         /\ compaction.phase \in {"none", "running"}
      /\ active.settlement \in {"none", "running"} /\ ~active.delivered
      /\ Fewer /\ Len(pending') = Len(pending) - 1 /\ Len(pending) \in Nat
      /\ e.text \in Texts /\ shutdown # "settling" /\ step[1] + 1 <= MaxTexts /\ ~compaction.requested
      /\ InterruptPending => InterruptPending'
      /\ \A c \in Calls : Len(Kept(pending', {Finished(c)})) = Len(Kept(pending, {Finished(c)}))
      /\ Len(Kept(pending, TextInputs)) = Len(Kept(pending', TextInputs)) + 1
         /\ Len(Kept(pending', TextInputs)) \in Nat
      /\ shutdown = "open"
      /\ \/ preparing' = [text |-> e.text, cancelled |-> FALSE] /\ returned' = returned
         \/ preparing' = preparing /\ returned' = Append(returned, e.text)
      /\ preparing' \in Preparations /\ (preparing'.text = 0 => preparing' = NoPreparation)
  <2>1. /\ call # "none" /\ error = "none" /\ commit = NoCommit /\ after = "none"
        /\ deferred = NoStep /\ preparing = NoPreparation /\ pending # <<>>
        /\ starting = NoStart /\ failing = NoStep /\ ~StopDue /\ ~Stopped
        /\ compaction.phase \in {"none", "running"}
        /\ active.settlement \in {"none", "running"} /\ ~active.delivered
        /\ Fewer /\ Len(pending') = Len(pending) - 1 /\ Len(pending) \in Nat
        /\ \A A : Len(Kept(pending', A)) \in Nat
        /\ \A A : Len(Kept(pending, A)) = IF Head(pending) \in A THEN Len(Kept(pending', A)) + 1
                                                                 ELSE Len(Kept(pending', A))
    BY TakenIs
  <2>2. /\ e.text \in Texts /\ e.kind = "text"
        /\ \A c \in Calls : Head(pending) \notin {Finished(c)}
    BY InputsApart
  <2>3. /\ shutdown # "settling" /\ step[1] + 1 <= MaxTexts /\ ~compaction.requested
        /\ InterruptPending => InterruptPending'
    BY <2>2, TakenIs
  <2>4. /\ \A c \in Calls : Len(Kept(pending', {Finished(c)})) = Len(Kept(pending, {Finished(c)}))
        /\ Len(Kept(pending, TextInputs)) = Len(Kept(pending', TextInputs)) + 1
        /\ Len(Kept(pending', TextInputs)) \in Nat
    BY <2>1, <2>2
  <2>5. e \in SkillInputs
    BY InputsApart
  <2>6. shutdown = "open"
    BY <2>5, TakenIs
  <2>7. \/ preparing' = [text |-> e.text, cancelled |-> FALSE] /\ returned' = returned
        \/ preparing' = preparing /\ returned' = Append(returned, e.text)
    BY DEF PrepareSkillInput
  <2>8. preparing' \in Preparations /\ (preparing'.text = 0 => preparing' = NoPreparation)
    <3>1. e.text \in 0..MaxTexts /\ e.text # 0
      BY <2>2, BoundsTyped DEF Texts
    <3>2. [text |-> e.text, cancelled |-> FALSE] \in Preparations
      BY <3>1 DEF Preparations
    <3>3. [text |-> e.text, cancelled |-> FALSE].text = e.text
      OBVIOUS
    <3> QED BY <2>7, <3>1, <3>2, <3>3 DEF InputTyped
  <2> QED
    BY <2>1, <2>2, <2>3, <2>4, <2>6, <2>7, <2>8
    DEF TakeInput, PrepareSkillInput, agentVars, ownerVars, exitVars
<1>10. AgentTyped' /\ FileTyped' /\ OwnerTyped' /\ CallTyped' /\ CallInv' /\ AgentInv' /\
  SettledInv'
  BY <1>1 DEF AgentTyped, FileTyped, Thens, OwnerTyped, CallTyped, CallInv, AgentInv, Unsettled,
    SettledInv
<1>11. DurableInv' /\ DueInv' /\ CommitInv'
  BY <1>1 DEF DurableInv, DueInv, Due, StopDue, Stopped, CommitInv
<1>12. SoloInv' /\ EffectInv' /\ AttemptInv'
  BY <1>1 DEF SoloInv, Due, StopDue, Streams, ToolsBusy, EffectInv, AttemptInv, NextDisk
<1>13. InputTyped'
  <2>1. returned \in Seq(Texts)
    BY DEF InputTyped
  <2>2. Append(returned, e.text) \in Seq(Texts)
    BY <1>1, <2>1
  <2> QED
    BY <1>1, <2>1, <2>2 DEF InputTyped, Fewer
<1>14. QueueInv'
  <2>1. /\ step[1] \in Nat /\ Len(queue) \in Nat /\ nextText \in Nat
        /\ Len(Kept(pending, TextInputs)) \in Nat /\ Len(Kept(pending', TextInputs)) \in Nat
        /\ Len(Kept(pending', TextInputs)) <= Len(Kept(pending, TextInputs))
    <3>1. pending' \in Seq(Inputs)
      BY <1>1 DEF Fewer
    <3>2. Len(Kept(pending', TextInputs)) \in Nat
      BY <3>1, CountTyped
    <3> QED BY <1>1, <3>2, TurnLeft DEF Fewer
  <2>2. Capacity \in Nat
    BY BoundsTyped
  <2>3. preparing' # NoPreparation => Len(pending') <= Capacity + 1
    BY <1>1, <2>2 DEF QueueInv
  <2>4. step'[1] + Len(queue') + Len(Kept(pending', TextInputs))
          + (IF preparing' = NoPreparation THEN 0 ELSE 1) < nextText'
    <3>1. step[1] + Len(queue) + Len(Kept(pending, TextInputs))
            + (IF preparing = NoPreparation THEN 0 ELSE 1) < nextText
      BY DEF QueueInv
    <3> QED BY <1>1, <2>1, <3>1 DEF Closed
  <2>5. shutdown' # "open" =>
          preparing' = NoPreparation /\ \A i \in DOMAIN pending' : pending'[i] \notin SkillInputs
    BY <1>1 DEF QueueInv, Fewer
  <2> QED BY <1>1, <2>3, <2>4, <2>5, FewerKeeps DEF QueueInv
<1>15. EndInv'
  BY <1>1, Nones DEF EndInv, ToolsBusy
<1>16. ToolInv'
  BY <1>1, Nones DEF ToolInv, Due, StopDue, Copies
<1>17. SummaryInv'
  BY <1>1, Nones DEF SummaryInv, Due, StopDue, Streams, Fewer
<1>18. OwnInv'
  BY <1>1, Nones DEF OwnInv, InterruptPending, Copies
<1>19. ClosingInv'
  BY <1>1, Nones DEF ClosingInv, Due, StopDue, Fewer
<1> QED
  BY <1>1, <1>10, <1>11, <1>12, <1>13, <1>14, <1>15, <1>16, <1>17, <1>18, <1>19

\* A text opens a turn of an idle agent.
LEMMA TakeOpensKeeps ==
  ASSUME Alive, TakeInput, NEW e \in TextInputs, e = Head(pending),
         phase = "idle", TurnOpens(e.text, queue, {}),
         UNCHANGED <<preparing, returned, after>>
  PROVE  Alive'
<1> USE DEF Alive, Lives, Steady, Typed, LiveInv
<1>1. /\ UNCHANGED <<queue, disk, journal, after, preparing, starting, deferred, failing, active,
                        compaction, spent, tools, shutdown, call, error, ended, unanswered,
                        returned, nextText>>
      /\ call # "none" /\ error = "none" /\ commit = NoCommit /\ after = "none"
         /\ deferred = NoStep /\ preparing = NoPreparation
      /\ starting = NoStart /\ failing = NoStep /\ ~StopDue /\ ~Stopped
         /\ compaction.phase \in {"none", "running"}
      /\ active.settlement \in {"none", "running"} /\ ~active.delivered
      /\ Fewer /\ Len(pending') = Len(pending) - 1 /\ Len(pending) \in Nat
      /\ e.text \in Texts /\ shutdown # "settling" /\ step[1] + 1 <= MaxTexts /\ ~compaction.requested
      /\ InterruptPending => InterruptPending'
      /\ \A c \in Calls : Len(Kept(pending', {Finished(c)})) = Len(Kept(pending, {Finished(c)}))
      /\ Len(Kept(pending, TextInputs)) = Len(Kept(pending', TextInputs)) + 1
         /\ Len(Kept(pending', TextInputs)) \in Nat
      /\ phase = "idle" /\ queue = <<>> /\ Len(queue) = 0 /\ active = NoModel
         /\ compaction = NoCompaction /\ ~ToolsBusy
      /\ phase' = "streaming" /\ slot' = [c \in Calls |-> "none"]
         /\ step' \in Steps /\ step'[1] = step[1] + 1 /\ step' # NoStep
      /\ Begun({Said(e.text), Opened(step[1] + 1)}, {}, "call", {}, <<>>, <<e.text>>, "none")
  <2>1. /\ call # "none" /\ error = "none" /\ commit = NoCommit /\ after = "none"
        /\ deferred = NoStep /\ preparing = NoPreparation /\ pending # <<>>
        /\ starting = NoStart /\ failing = NoStep /\ ~StopDue /\ ~Stopped
        /\ compaction.phase \in {"none", "running"}
        /\ active.settlement \in {"none", "running"} /\ ~active.delivered
        /\ Fewer /\ Len(pending') = Len(pending) - 1 /\ Len(pending) \in Nat
        /\ \A A : Len(Kept(pending', A)) \in Nat
        /\ \A A : Len(Kept(pending, A)) = IF Head(pending) \in A THEN Len(Kept(pending', A)) + 1
                                                                 ELSE Len(Kept(pending', A))
    BY TakenIs
  <2>2. /\ e.text \in Texts /\ e.kind = "text"
        /\ \A c \in Calls : Head(pending) \notin {Finished(c)}
    BY InputsApart
  <2>3. /\ shutdown # "settling" /\ step[1] + 1 <= MaxTexts /\ ~compaction.requested
        /\ InterruptPending => InterruptPending'
    BY <2>2, TakenIs
  <2>4. /\ \A c \in Calls : Len(Kept(pending', {Finished(c)})) = Len(Kept(pending, {Finished(c)}))
        /\ Len(Kept(pending, TextInputs)) = Len(Kept(pending', TextInputs)) + 1
        /\ Len(Kept(pending', TextInputs)) \in Nat
    BY <2>1, <2>2
  <2>5. active = NoModel
    BY <2>1, Nones DEF SoloInv, Streams, OwnerTyped
  <2>6. compaction = NoCompaction
    BY <2>1, <2>3 DEF SummaryInv, OwnerTyped
  <2>7. ~ToolsBusy
    BY <2>1 DEF ToolInv, AgentInv, ToolsBusy, CallTyped
  <2>8. queue = <<>> /\ Len(<<>>) = 0
    BY DEF AgentInv
  <2> QED
    BY <2>1, <2>2, <2>3, <2>4, <2>5, <2>6, <2>7, <2>8
    DEF TakeInput, TurnOpens, ownerVars, exitVars
<1>10. OwnerTyped' /\ CallTyped' /\ SettledInv'
  BY <1>1 DEF OwnerTyped, CallTyped, SettledInv
<1>11. AgentTyped'
  BY <1>1, Nones DEF AgentTyped, Begun, Phases
<1>12. FileTyped'
  BY <1>1, Nones DEF FileTyped, Thens, Begun
<1>13. InputTyped'
  BY <1>1, Nones DEF InputTyped, Begun, Fewer, Preparations, Texts
<1>14. CallInv'
  BY <1>1, Nones DEF CallInv, Begun
<1>15. AgentInv'
  BY <1>1, Nones DEF AgentInv, Unsettled, Begun
<1>16. QueueInv'
  <2>1. /\ step[1] \in Nat /\ Len(queue) \in Nat /\ nextText \in Nat
        /\ Len(Kept(pending, TextInputs)) \in Nat /\ Len(Kept(pending', TextInputs)) \in Nat
        /\ Len(Kept(pending', TextInputs)) <= Len(Kept(pending, TextInputs))
    <3>1. pending' \in Seq(Inputs)
      BY <1>1 DEF Fewer
    <3>2. Len(Kept(pending', TextInputs)) \in Nat
      BY <3>1, CountTyped
    <3> QED BY <1>1, <3>2, TurnLeft DEF Fewer
  <2>2. Capacity \in Nat
    BY BoundsTyped
  <2>3. preparing' # NoPreparation => Len(pending') <= Capacity + 1
    BY <1>1, <2>2 DEF QueueInv
  <2>4. step'[1] + Len(queue') + Len(Kept(pending', TextInputs))
          + (IF preparing' = NoPreparation THEN 0 ELSE 1) < nextText'
    <3>1. step[1] + Len(queue) + Len(Kept(pending, TextInputs))
            + (IF preparing = NoPreparation THEN 0 ELSE 1) < nextText
      BY DEF QueueInv
    <3> QED BY <1>1, <2>1, <3>1 DEF Closed
  <2>5. shutdown' # "open" =>
          preparing' = NoPreparation /\ \A i \in DOMAIN pending' : pending'[i] \notin SkillInputs
    BY <1>1 DEF QueueInv, Fewer
  <2> QED BY <1>1, <2>3, <2>4, <2>5, FewerKeeps DEF QueueInv
<1>17. DurableInv'
  BY <1>1, Nones, FactsApart DEF DurableInv, Begun, ToolsBusy, CallTyped
<1>18. EndInv'
  BY <1>1, Nones DEF EndInv, ToolsBusy, Begun
<1>19. DueInv'
  BY <1>1, Nones DEF DueInv, Due, StopDue, Stopped, Begun
<1>20. CommitInv'
  BY <1>1, Nones DEF CommitInv, Stopped, Begun
<1>21. SoloInv'
  BY <1>1, Nones DEF SoloInv, Due, StopDue, Streams, ToolsBusy, Begun
<1>22. ToolInv'
  BY <1>1, Nones DEF ToolInv, Due, StopDue, Copies, Begun, AgentInv, ToolsBusy, CallTyped
<1>23. EffectInv'
  BY <1>1, Nones DEF EffectInv, ToolsBusy, Begun
<1>24. SummaryInv'
  BY <1>1, Nones DEF SummaryInv, Due, StopDue, Streams, Begun, Fewer
<1>25. AttemptInv'
  <2>1. NextDisk = disk /\ NextDisk' = (disk \ {}) \cup {Said(e.text), Opened(step[1] + 1)}
    BY <1>1, Nones DEF NextDisk, Begun
  <2>2. \A s \in Steps : /\ Attempt("model", s) \in NextDisk' => Attempt("model", s) \in NextDisk
                         /\ Attempt("summary", s) \in NextDisk' => Attempt("summary", s) \in NextDisk
    BY <2>1, FactsApart
  <2>3. \A n \in 0..MaxTexts : Opened(n) \in NextDisk' => n = step'[1]
    BY <1>1, <2>1, FactsApart, Nones DEF AttemptInv
  <2> QED
    BY <1>1, <2>1, <2>2, <2>3, Nones DEF AttemptInv, Due, Begun, DueInv, SoloInv
<1>26. OwnInv'
  BY <1>1, Nones DEF OwnInv, InterruptPending, Copies, Begun
<1>27. ClosingInv'
  BY <1>1, Nones DEF ClosingInv, Due, StopDue, Begun, Fewer
<1> QED
  BY <1>1, <1>10, <1>11, <1>12, <1>13, <1>14, <1>15, <1>16, <1>17, <1>18, <1>19, <1>20, <1>21,
    <1>22, <1>23, <1>24, <1>25, <1>26, <1>27

\* A text waits with an agent whose turn is under way.
LEMMA TakeQueuesKeeps ==
  ASSUME Alive, TakeInput, NEW e \in TextInputs, e = Head(pending),
         phase # "idle", queue' = Append(queue, e.text),
         UNCHANGED <<preparing, returned, after, phase, step, slot, commit>>
  PROVE  Alive'
<1> USE DEF Alive, Lives, Steady, Typed, LiveInv
<1>1. /\ UNCHANGED <<phase, step, slot, disk, journal, commit, after, preparing, starting,
                        deferred, failing, active, compaction, spent, tools, shutdown, call,
                        error, ended, unanswered, returned, nextText>>
      /\ call # "none" /\ error = "none" /\ commit = NoCommit /\ after = "none"
         /\ deferred = NoStep /\ preparing = NoPreparation
      /\ starting = NoStart /\ failing = NoStep /\ ~StopDue /\ ~Stopped
         /\ compaction.phase \in {"none", "running"}
      /\ active.settlement \in {"none", "running"} /\ ~active.delivered
      /\ Fewer /\ Len(pending') = Len(pending) - 1 /\ Len(pending) \in Nat
      /\ e.text \in Texts /\ shutdown # "settling" /\ step[1] + 1 <= MaxTexts /\ ~compaction.requested
      /\ InterruptPending => InterruptPending'
      /\ \A c \in Calls : Len(Kept(pending', {Finished(c)})) = Len(Kept(pending, {Finished(c)}))
      /\ Len(Kept(pending, TextInputs)) = Len(Kept(pending', TextInputs)) + 1
         /\ Len(Kept(pending', TextInputs)) \in Nat
      /\ phase # "idle" /\ queue' \in Seq(Texts) /\ Len(queue') = Len(queue) + 1
  <2>1. /\ call # "none" /\ error = "none" /\ commit = NoCommit /\ after = "none"
        /\ deferred = NoStep /\ preparing = NoPreparation /\ pending # <<>>
        /\ starting = NoStart /\ failing = NoStep /\ ~StopDue /\ ~Stopped
        /\ compaction.phase \in {"none", "running"}
        /\ active.settlement \in {"none", "running"} /\ ~active.delivered
        /\ Fewer /\ Len(pending') = Len(pending) - 1 /\ Len(pending) \in Nat
        /\ \A A : Len(Kept(pending', A)) \in Nat
        /\ \A A : Len(Kept(pending, A)) = IF Head(pending) \in A THEN Len(Kept(pending', A)) + 1
                                                                 ELSE Len(Kept(pending', A))
    BY TakenIs
  <2>2. /\ e.text \in Texts /\ e.kind = "text"
        /\ \A c \in Calls : Head(pending) \notin {Finished(c)}
    BY InputsApart
  <2>3. /\ shutdown # "settling" /\ step[1] + 1 <= MaxTexts /\ ~compaction.requested
        /\ InterruptPending => InterruptPending'
    BY <2>2, TakenIs
  <2>4. /\ \A c \in Calls : Len(Kept(pending', {Finished(c)})) = Len(Kept(pending, {Finished(c)}))
        /\ Len(Kept(pending, TextInputs)) = Len(Kept(pending', TextInputs)) + 1
        /\ Len(Kept(pending', TextInputs)) \in Nat
    BY <2>1, <2>2
  <2>5. queue' \in Seq(Texts) /\ Len(queue') = Len(queue) + 1
    <3>1. queue \in Seq(Texts)
      BY DEF AgentTyped
    <3> QED BY <2>2, <3>1
  <2> QED
    BY <2>1, <2>2, <2>3, <2>4, <2>5
    DEF TakeInput, ownerVars, exitVars
<1>10. FileTyped' /\ OwnerTyped' /\ CallTyped' /\ CallInv' /\ SettledInv'
  BY <1>1 DEF FileTyped, Thens, OwnerTyped, CallTyped, CallInv, SettledInv
<1>11. DurableInv' /\ DueInv' /\ CommitInv'
  BY <1>1 DEF DurableInv, DueInv, Due, StopDue, Stopped, CommitInv
<1>12. SoloInv' /\ EffectInv' /\ AttemptInv'
  BY <1>1 DEF SoloInv, Due, StopDue, Streams, ToolsBusy, EffectInv, AttemptInv, NextDisk
<1>13. AgentTyped'
  BY <1>1, Nones DEF AgentTyped
<1>14. InputTyped'
  BY <1>1, Nones DEF InputTyped, Fewer, Preparations, Texts
<1>15. AgentInv'
  BY <1>1, Nones DEF AgentInv, Unsettled
<1>16. QueueInv'
  <2>1. /\ step[1] \in Nat /\ Len(queue) \in Nat /\ nextText \in Nat
        /\ Len(Kept(pending, TextInputs)) \in Nat /\ Len(Kept(pending', TextInputs)) \in Nat
        /\ Len(Kept(pending', TextInputs)) <= Len(Kept(pending, TextInputs))
    <3>1. pending' \in Seq(Inputs)
      BY <1>1 DEF Fewer
    <3>2. Len(Kept(pending', TextInputs)) \in Nat
      BY <3>1, CountTyped
    <3> QED BY <1>1, <3>2, TurnLeft DEF Fewer
  <2>2. Capacity \in Nat
    BY BoundsTyped
  <2>3. preparing' # NoPreparation => Len(pending') <= Capacity + 1
    BY <1>1, <2>2 DEF QueueInv
  <2>4. step'[1] + Len(queue') + Len(Kept(pending', TextInputs))
          + (IF preparing' = NoPreparation THEN 0 ELSE 1) < nextText'
    <3>1. step[1] + Len(queue) + Len(Kept(pending, TextInputs))
            + (IF preparing = NoPreparation THEN 0 ELSE 1) < nextText
      BY DEF QueueInv
    <3> QED BY <1>1, <2>1, <3>1 DEF Closed
  <2>5. shutdown' # "open" =>
          preparing' = NoPreparation /\ \A i \in DOMAIN pending' : pending'[i] \notin SkillInputs
    BY <1>1 DEF QueueInv, Fewer
  <2> QED BY <1>1, <2>3, <2>4, <2>5, FewerKeeps DEF QueueInv
<1>17. EndInv'
  BY <1>1, Nones DEF EndInv, ToolsBusy
<1>18. ToolInv'
  BY <1>1, Nones DEF ToolInv, Due, StopDue, Copies
<1>19. SummaryInv'
  BY <1>1, Nones DEF SummaryInv, Due, StopDue, Streams, Fewer
<1>20. OwnInv'
  BY <1>1, Nones DEF OwnInv, InterruptPending, Copies
<1>21. ClosingInv'
  BY <1>1, Nones DEF ClosingInv, Due, StopDue, Fewer
<1> QED
  BY <1>1, <1>10, <1>11, <1>12, <1>13, <1>14, <1>15, <1>16, <1>17, <1>18, <1>19, <1>20, <1>21

\* An interrupt ends the turn.
LEMMA TakeAbortsKeeps ==
  ASSUME Alive, TakeInput, Head(pending).kind = "interrupt",
         phase # "idle", AbortTurn("Interrupt", TRUE), UNCHANGED <<preparing, returned, after>>
  PROVE  Alive'
<1> USE DEF Alive, Lives, Steady, Typed, LiveInv
<1>1. /\ UNCHANGED <<step, disk, journal, after, preparing, starting, deferred, failing, active,
                        compaction, spent, tools, shutdown, call, error, ended, unanswered,
                        returned, nextText>>
      /\ call # "none" /\ error = "none" /\ commit = NoCommit /\ after = "none"
         /\ deferred = NoStep /\ preparing = NoPreparation
      /\ starting = NoStart /\ failing = NoStep /\ ~StopDue /\ ~Stopped
         /\ compaction.phase \in {"none", "running"}
      /\ active.settlement \in {"none", "running"} /\ ~active.delivered
      /\ Fewer /\ Len(pending') = Len(pending) - 1 /\ Len(pending) \in Nat
      /\ \A c \in Calls : Copies(Finished(c))' = 0
      /\ phase # "idle"
      /\ Closed /\ queue' = <<>> /\ Len(queue') = 0
      /\ Begun({}, CloseTurn, "none", {}, queue, queue, "Interrupt")
  <2>1. /\ call # "none" /\ error = "none" /\ commit = NoCommit /\ after = "none"
        /\ deferred = NoStep /\ preparing = NoPreparation /\ pending # <<>>
        /\ starting = NoStart /\ failing = NoStep /\ ~StopDue /\ ~Stopped
        /\ compaction.phase \in {"none", "running"}
        /\ active.settlement \in {"none", "running"} /\ ~active.delivered
        /\ Fewer /\ Len(pending') = Len(pending) - 1 /\ Len(pending) \in Nat
        /\ \A A : Len(Kept(pending', A)) \in Nat
        /\ \A A : Len(Kept(pending, A)) = IF Head(pending) \in A THEN Len(Kept(pending', A)) + 1
                                                                 ELSE Len(Kept(pending', A))
    BY TakenIs
  <2>2. \A c \in Calls : Copies(Finished(c))' = 0
    BY TakenIs
  <2>3. /\ Closed /\ queue' = <<>> /\ Len(queue') = 0
        /\ Begun({}, CloseTurn, "none", {}, queue, queue, "Interrupt")
    <3>1. step \in Steps /\ queue \in Seq(Texts) /\ "Interrupt" \in Thens /\ Len(<<>>) = 0
      BY DEF AgentTyped, Thens
    <3>2. AbortTurn("Interrupt", TRUE)
      OBVIOUS
    <3> QED BY <3>1, <3>2, AbortIs
  <2> QED
    BY <2>1, <2>2, <2>3
    DEF TakeInput, ownerVars, exitVars, Closed
<1>10. OwnerTyped' /\ CallTyped' /\ SettledInv'
  BY <1>1 DEF OwnerTyped, CallTyped, SettledInv
<1>11. AgentTyped'
  <2>1. <<>> \in Seq(Texts)
    OBVIOUS
  <2> QED BY <1>1, <2>1 DEF AgentTyped, Closed, Phases
<1>12. FileTyped'
  BY <1>1, Nones DEF FileTyped, Thens, Closed, Begun
<1>13. InputTyped'
  BY <1>1, Nones DEF InputTyped, Closed, Begun, Fewer, Preparations, Texts
<1>14. CallInv'
  BY <1>1, Nones DEF CallInv, Closed, Begun
<1>15. AgentInv'
  BY <1>1, Nones DEF AgentInv, Unsettled, Closed, Begun
<1>16. QueueInv'
  <2>1. /\ step[1] \in Nat /\ Len(queue) \in Nat /\ nextText \in Nat
        /\ Len(Kept(pending, TextInputs)) \in Nat /\ Len(Kept(pending', TextInputs)) \in Nat
        /\ Len(Kept(pending', TextInputs)) <= Len(Kept(pending, TextInputs))
    <3>1. pending' \in Seq(Inputs)
      BY <1>1 DEF Fewer
    <3>2. Len(Kept(pending', TextInputs)) \in Nat
      BY <3>1, CountTyped
    <3> QED BY <1>1, <3>2, TurnLeft DEF Fewer
  <2>2. Capacity \in Nat
    BY BoundsTyped
  <2>3. preparing' # NoPreparation => Len(pending') <= Capacity + 1
    BY <1>1, <2>2 DEF QueueInv
  <2>4. step'[1] + Len(queue') + Len(Kept(pending', TextInputs))
          + (IF preparing' = NoPreparation THEN 0 ELSE 1) < nextText'
    <3>1. step[1] + Len(queue) + Len(Kept(pending, TextInputs))
            + (IF preparing = NoPreparation THEN 0 ELSE 1) < nextText
      BY DEF QueueInv
    <3> QED BY <1>1, <2>1, <3>1 DEF Closed
  <2>5. shutdown' # "open" =>
          preparing' = NoPreparation /\ \A i \in DOMAIN pending' : pending'[i] \notin SkillInputs
    BY <1>1 DEF QueueInv, Fewer
  <2> QED BY <1>1, <2>3, <2>4, <2>5, FewerKeeps DEF QueueInv
<1>17. DurableInv'
  BY <1>1, Nones, CloseTurnHas DEF DurableInv, Closed, Begun, SoloInv, ToolsBusy, CallTyped,
    AgentTyped, OwnerTyped
<1>18. EndInv'
  BY <1>1, Nones DEF EndInv, ToolsBusy, Closed, Begun
<1>19. DueInv'
  BY <1>1, Nones DEF DueInv, Due, StopDue, Stopped, Closed, Begun, OwnerTyped, Summaries, Models
<1>20. CommitInv'
  BY <1>1, Nones DEF CommitInv, Stopped, Closed, Begun
<1>21. SoloInv'
  BY <1>1, Nones DEF SoloInv, Due, StopDue, Streams, ToolsBusy, Closed, Begun
<1>22. ToolInv'
  BY <1>1, Nones DEF ToolInv, Due, StopDue, Copies, Closed, Begun
<1>23. EffectInv'
  BY <1>1, Nones DEF EffectInv, ToolsBusy, Closed, Begun
<1>24. SummaryInv'
  BY <1>1, Nones DEF SummaryInv, Due, StopDue, Streams, Closed, Begun, Fewer, OwnerTyped, Summaries
<1>25. AttemptInv'
  <2>1. NextDisk = disk /\ NextDisk' = disk \ CloseTurn
    BY <1>1, Nones DEF NextDisk, Begun
  <2>2. \A s \in Steps : /\ Attempt("model", s) \in NextDisk' => Attempt("model", s) \in NextDisk
                         /\ Attempt("summary", s) \in NextDisk' => Attempt("summary", s) \in NextDisk
    BY <2>1
  <2>3. \A n \in 0..MaxTexts : Opened(n) \notin NextDisk'
    BY <1>1, <2>1, CloseTurnHas, Nones DEF AttemptInv
  <2> QED
    BY <1>1, <2>1, <2>2, <2>3, Nones DEF AttemptInv, Due, Begun, Closed, DueInv, SoloInv, OwnerTyped
<1>26. OwnInv'
  BY <1>1, Nones DEF OwnInv, InterruptPending, Copies, Closed, Begun
<1>27. ClosingInv'
  BY <1>1, Nones DEF ClosingInv, Due, StopDue, Closed, Begun, Fewer
<1> QED
  BY <1>1, <1>10, <1>11, <1>12, <1>13, <1>14, <1>15, <1>16, <1>17, <1>18, <1>19, <1>20, <1>21,
    <1>22, <1>23, <1>24, <1>25, <1>26, <1>27

\* An interrupt of an idle agent goes on to its stop.
LEMMA TakeStopsKeeps ==
  ASSUME Alive, TakeInput, Head(pending).kind = "interrupt",
         phase = "idle", after' = "Interrupt",
         UNCHANGED <<agentVars, commit, preparing, returned>>
  PROVE  Alive'
<1> USE DEF Alive, Lives, Steady, Typed, LiveInv
<1>1. /\ UNCHANGED <<phase, step, slot, queue, disk, journal, commit, preparing, starting,
                        deferred, failing, active, compaction, spent, tools, shutdown, call,
                        error, ended, unanswered, returned, nextText>>
      /\ call # "none" /\ error = "none" /\ commit = NoCommit /\ after = "none"
         /\ deferred = NoStep /\ preparing = NoPreparation
      /\ starting = NoStart /\ failing = NoStep /\ ~StopDue /\ ~Stopped
         /\ compaction.phase \in {"none", "running"}
      /\ active.settlement \in {"none", "running"} /\ ~active.delivered
      /\ Fewer /\ Len(pending') = Len(pending) - 1 /\ Len(pending) \in Nat
      /\ \A c \in Calls : Copies(Finished(c))' = 0
      /\ phase = "idle" /\ after' = "Interrupt"
  <2>1. /\ call # "none" /\ error = "none" /\ commit = NoCommit /\ after = "none"
        /\ deferred = NoStep /\ preparing = NoPreparation /\ pending # <<>>
        /\ starting = NoStart /\ failing = NoStep /\ ~StopDue /\ ~Stopped
        /\ compaction.phase \in {"none", "running"}
        /\ active.settlement \in {"none", "running"} /\ ~active.delivered
        /\ Fewer /\ Len(pending') = Len(pending) - 1 /\ Len(pending) \in Nat
        /\ \A A : Len(Kept(pending', A)) \in Nat
        /\ \A A : Len(Kept(pending, A)) = IF Head(pending) \in A THEN Len(Kept(pending', A)) + 1
                                                                 ELSE Len(Kept(pending', A))
    BY TakenIs
  <2>2. \A c \in Calls : Copies(Finished(c))' = 0
    BY TakenIs
  <2> QED
    BY <2>1, <2>2
    DEF TakeInput, ownerVars, exitVars, agentVars
<1>10. AgentTyped' /\ OwnerTyped' /\ CallTyped' /\ CallInv' /\ AgentInv'
  BY <1>1 DEF AgentTyped, OwnerTyped, CallTyped, CallInv, AgentInv, Unsettled
<1>11. DurableInv'
  BY <1>1 DEF DurableInv
<1>12. FileTyped'
  BY <1>1, Nones DEF FileTyped, Thens
<1>13. InputTyped'
  BY <1>1, Nones DEF InputTyped, Fewer, Preparations, Texts
<1>14. QueueInv'
  <2>1. /\ step[1] \in Nat /\ Len(queue) \in Nat /\ nextText \in Nat
        /\ Len(Kept(pending, TextInputs)) \in Nat /\ Len(Kept(pending', TextInputs)) \in Nat
        /\ Len(Kept(pending', TextInputs)) <= Len(Kept(pending, TextInputs))
    <3>1. pending' \in Seq(Inputs)
      BY <1>1 DEF Fewer
    <3>2. Len(Kept(pending', TextInputs)) \in Nat
      BY <3>1, CountTyped
    <3> QED BY <1>1, <3>2, TurnLeft DEF Fewer
  <2>2. Capacity \in Nat
    BY BoundsTyped
  <2>3. preparing' # NoPreparation => Len(pending') <= Capacity + 1
    BY <1>1, <2>2 DEF QueueInv
  <2>4. step'[1] + Len(queue') + Len(Kept(pending', TextInputs))
          + (IF preparing' = NoPreparation THEN 0 ELSE 1) < nextText'
    <3>1. step[1] + Len(queue) + Len(Kept(pending, TextInputs))
            + (IF preparing = NoPreparation THEN 0 ELSE 1) < nextText
      BY DEF QueueInv
    <3> QED BY <1>1, <2>1, <3>1 DEF Closed
  <2>5. shutdown' # "open" =>
          preparing' = NoPreparation /\ \A i \in DOMAIN pending' : pending'[i] \notin SkillInputs
    BY <1>1 DEF QueueInv, Fewer
  <2> QED BY <1>1, <2>3, <2>4, <2>5, FewerKeeps DEF QueueInv
<1>15. SettledInv'
  BY <1>1, Nones DEF SettledInv
<1>16. EndInv'
  BY <1>1, Nones DEF EndInv, ToolsBusy
<1>17. DueInv'
  BY <1>1, Nones DEF DueInv, Due, StopDue, Stopped, OwnerTyped, Summaries, Models
<1>18. CommitInv'
  BY <1>1, Nones DEF CommitInv, Stopped
<1>19. SoloInv'
  BY <1>1, Nones DEF SoloInv, Due, StopDue, Streams, ToolsBusy
<1>20. ToolInv'
  BY <1>1, Nones DEF ToolInv, Due, StopDue, Copies, AgentInv
<1>21. EffectInv'
  BY <1>1, Nones DEF EffectInv, ToolsBusy
<1>22. SummaryInv'
  BY <1>1, Nones DEF SummaryInv, Due, StopDue, Streams, Fewer
<1>23. AttemptInv'
  BY <1>1, Nones DEF AttemptInv, Due, NextDisk
<1>24. OwnInv'
  BY <1>1, Nones DEF OwnInv, InterruptPending, Copies, AgentInv
<1>25. ClosingInv'
  BY <1>1, Nones DEF ClosingInv, Due, StopDue, Fewer
<1> QED
  BY <1>1, <1>10, <1>11, <1>12, <1>13, <1>14, <1>15, <1>16, <1>17, <1>18, <1>19, <1>20, <1>21,
    <1>22, <1>23, <1>24, <1>25

\* A waiting result is taken.
LEMMA TakeFinishedKeeps ==
  ASSUME Alive, TakeInput, NEW c \in Calls, Head(pending) = Finished(c), HandleInput(Head(pending))
  PROVE  Alive'
<1> USE DEF Alive, Lives, Steady, Typed, LiveInv
<1>1. /\ call # "none" /\ error = "none" /\ commit = NoCommit /\ after = "none"
      /\ Fewer /\ \A A : Len(Kept(pending', A)) \in Nat
      /\ \A A : Len(Kept(pending, A)) = IF Head(pending) \in A THEN Len(Kept(pending', A)) + 1
                                                               ELSE Len(Kept(pending', A))
  BY TakenIs
<1>2. /\ Finished(c).kind = "finished" /\ Finished(c).call = c /\ Finished(c) \notin TextInputs
      /\ \A d \in Calls : Finished(d) = Finished(c) => d = c
  BY InputsApart
<1>3. InterruptPending => InterruptPending'
  BY <1>2, TakenIs
<1>4. /\ Len(Kept(pending', TextInputs)) = Len(Kept(pending, TextInputs))
      /\ \A d \in Calls \ {c} : Len(Kept(pending', {Finished(d)})) = Len(Kept(pending, {Finished(d)}))
  BY <1>1, <1>2
<1>5. Copies(Finished(c)) > 0 /\ Len(Kept(pending', {Finished(c)})) = 0
  <2>1. Len(Kept(pending, {Finished(c)})) = Len(Kept(pending', {Finished(c)})) + 1
    BY <1>1
  <2>2. Len(Kept(pending, {Finished(c)})) <= 1 /\ Len(Kept(pending', {Finished(c)})) \in Nat
    BY <1>1 DEF QueueInv, Copies
  <2> QED BY <2>1, <2>2 DEF Copies
<1>6. slot[c] = "running" /\ tools[c] = "none"
  BY <1>5 DEF ToolInv
<1>7. /\ phase = "working" /\ starting = NoStart /\ deferred = NoStep /\ failing = NoStep
      /\ active = NoModel /\ compaction = NoCompaction
      /\ \A d \in Calls : tools[d] # "none" => slot[d] \in {"admission", "running"}
  BY <1>1, <1>6, ToolsAlone
<1>8. CallSettled(c) /\ UNCHANGED <<after, preparing, returned>>
  BY <1>2, <1>6 DEF HandleInput
<1>9. UNCHANGED <<ownerVars, exitVars, disk, journal, tools, call, error, nextText>>
  BY DEF TakeInput
<1>10. tools' \in [Calls -> {"none", "admission", "execution"}] /\ tools' = tools
  BY <1>9 DEF CallTyped
<1>11. \A i \in DOMAIN pending : pending[i].kind = "interrupt" =>
         \E j \in DOMAIN pending' : pending'[j].kind = "interrupt"
  BY <1>3 DEF InterruptPending
<1>12. Answered(c)
  BY <1>1, <1>4, <1>5, <1>6, <1>7, <1>8, <1>9, <1>10, <1>11 DEF Answered, ownerVars, exitVars
<1> QED BY <1>8, <1>12, AnsweredKeeps

\* The next input is taken, whatever it is.
LEMMA TakeInputKeeps ==
  ASSUME Alive, TakeInput
  PROVE  Alive'
<1> DEFINE e == Head(pending)
<1>1. e \in Inputs /\ deferred = NoStep /\ commit = NoCommit
  BY TakenIs
<1>2. e \in TextInputs \/ e \in ResultInputs \/ e = Interrupted
  BY <1>1, InputsApart
<1>3. CASE e \in TextInputs
  <2>1. e.kind = "text" /\ e.skill \in BOOLEAN /\ e.text \in Texts
    BY <1>3, InputsApart
  <2>2. CASE e.skill
    <3>1. PrepareSkillInput(e)
      BY <2>1, <2>2 DEF TakeInput
    <3> QED BY <1>3, <2>2, <3>1, PrepareSkillKeeps
  <2>3. CASE ~e.skill
    <3>1. HandleInput(e)
      BY <2>1, <2>3 DEF TakeInput
    <3>2. CASE phase = "idle"
      <4>1. /\ OpenTurn(e.text, Nothing, <<e.text>>)
            /\ UNCHANGED <<queue, preparing, returned, after>>
        BY <2>1, <3>1, <3>2 DEF HandleInput
      <4>2. step \in Steps /\ step[1] + 1 <= MaxTexts
        BY <1>3, TakenIs DEF Alive, Steady, Typed, AgentTyped
      <4>3. TurnOpens(e.text, queue', {})
        <5> DEFINE t == e.text   base == Nothing
        <5>1. /\ t \in Texts /\ {} \in SUBSET Facts /\ base \in Reactions /\ base.adds = {}
              /\ base.clears = {} /\ base.calls = {} /\ base.back = <<>>
              /\ OpenTurn(t, base, <<t>>)
          BY <2>1, <4>1, NothingTyped
        <5> HIDE DEF t, base
        <5>2. TurnOpens(t, queue', {})
          BY <4>2, <5>1, OpenTurnIs
        <5> QED BY <5>2 DEF t
      <4>4. TurnOpens(e.text, queue, {})
        BY <4>1, <4>3
      <4> QED BY <1>3, <3>2, <4>1, <4>4, TakeOpensKeeps
    <3>3. CASE phase # "idle"
      <4>1. /\ queue' = Append(queue, e.text)
            /\ UNCHANGED <<preparing, returned, after, phase, step, slot, commit>>
        BY <2>1, <3>1, <3>3 DEF HandleInput
      <4> QED BY <1>3, <3>3, <4>1, TakeQueuesKeeps
    <3> QED BY <3>2, <3>3
  <2> QED BY <2>2, <2>3
<1>4. CASE e \in ResultInputs
  <2>1. e.kind = "finished" /\ e.call \in Calls /\ e = Finished(e.call)
    BY <1>4, InputsApart
  <2>2. HandleInput(e)
    BY <2>1 DEF TakeInput
  <2> QED BY <2>1, <2>2, TakeFinishedKeeps
<1>5. CASE e = Interrupted
  <2>1. e.kind = "interrupt"
    BY <1>5, InputsApart
  <2>2. HandleInput(e)
    BY <2>1 DEF TakeInput
  <2>3. CASE phase = "idle"
    <3>1. after' = "Interrupt" /\ UNCHANGED <<agentVars, commit, preparing, returned>>
      BY <2>1, <2>2, <2>3 DEF HandleInput
    <3> QED BY <2>1, <2>3, <3>1, TakeStopsKeeps
  <2>4. CASE phase # "idle"
    <3>1. AbortTurn("Interrupt", TRUE) /\ UNCHANGED <<preparing, returned, after>>
      BY <2>1, <2>2, <2>4 DEF HandleInput
    <3> QED BY <2>1, <2>4, <3>1, TakeAbortsKeeps
  <2> QED BY <2>3, <2>4
<1> QED BY <1>2, <1>3, <1>4, <1>5

-----------------------------------------------------------------------------
(* The entry points, with an open journal and with a failed one.            *)

\* A sequence with one entry more at its start.
LEMMA PrependOne ==
  ASSUME NEW S, NEW p \in Seq(S), NEW e \in S
  PROVE  /\ <<e>> \o p \in Seq(S) /\ Len(<<e>> \o p) = Len(p) + 1 /\ Len(p) \in Nat
         /\ DOMAIN p = 1..Len(p) /\ DOMAIN (<<e>> \o p) = 1..(Len(p) + 1)
         /\ (<<e>> \o p)[1] = e
         /\ \A i \in DOMAIN p : (<<e>> \o p)[i + 1] = p[i]
<1> DEFINE s == <<e>>
<1>1. s \in Seq(S) /\ Len(s) = 1 /\ s[1] = e
  OBVIOUS
<1> HIDE DEF s
<1>2. /\ s \o p \in Seq(S) /\ Len(s \o p) = 1 + Len(p) /\ Len(p) \in Nat
      /\ DOMAIN p = 1..Len(p) /\ DOMAIN (s \o p) = 1..Len(s \o p)
  <2>1. s \in Seq(S)
    BY <1>1
  <2>2. s \o p \in Seq(S) /\ Len(s \o p) = Len(s) + Len(p) /\ Len(p) \in Nat /\ DOMAIN p = 1..Len(p)
    BY <2>1
  <2>3. DOMAIN (s \o p) = 1..Len(s \o p)
    BY <2>2
  <2> QED BY <1>1, <2>2, <2>3
<1>3. (s \o p)[1] = e
  <2>1. 1 \in 1..Len(s) /\ s \in Seq(S)
    BY <1>1
  <2>2. (s \o p)[1] = s[1]
    BY <2>1
  <2>3. s[1] = e
    BY <1>1
  <2> QED BY <2>2, <2>3
<1>4. ASSUME NEW i \in 1..Len(p)
      PROVE  (s \o p)[i + 1] = p[i]
  <2>1. (s \o p)[i + Len(s)] = p[i]
    <3>1. s \in Seq(S)
      BY <1>1
    <3> QED BY <3>1
  <2> QED BY <1>1, <2>1
<1> QED BY <1>2, <1>3, <1>4 DEF s

\* What is put before or behind the queue.
LEMMA AppendIs ==
  ASSUME pending \in Seq(Inputs), NEW e \in Inputs, pending' = Append(pending, e)
  PROVE  /\ pending' \in Seq(Inputs) /\ Len(pending') = Len(pending) + 1 /\ Len(pending) \in Nat
         /\ DOMAIN pending' = 1..(Len(pending) + 1) /\ DOMAIN pending = 1..Len(pending)
         /\ pending'[Len(pending) + 1] = e
         /\ \A i \in DOMAIN pending : pending'[i] = pending[i]
         /\ \A A : Len(Kept(pending', A)) = IF e \in A THEN Len(Kept(pending, A)) + 1 ELSE Len(Kept(pending, A))
<1> DEFINE p == pending   q == Append(p, e)
<1>1. p \in Seq(Inputs) /\ pending' = q
  OBVIOUS
<1> HIDE DEF p
<1>2. /\ q \in Seq(Inputs) /\ Len(q) = Len(p) + 1 /\ Len(p) \in Nat
      /\ DOMAIN q = 1..(Len(p) + 1) /\ DOMAIN p = 1..Len(p)
      /\ q[Len(p) + 1] = e /\ \A i \in DOMAIN p : q[i] = p[i]
  BY <1>1
<1>3. \A A : Len(Kept(q, A)) = IF e \in A THEN Len(Kept(p, A)) + 1 ELSE Len(Kept(p, A))
  BY <1>1, CountAppend
<1> HIDE DEF q
<1> QED BY <1>1, <1>2, <1>3 DEF p

\* The pending queue with one entry more at its start.
LEMMA PrependIs ==
  ASSUME pending \in Seq(Inputs), NEW e \in Inputs, pending' = <<e>> \o pending
  PROVE  /\ pending' \in Seq(Inputs) /\ Len(pending') = Len(pending) + 1 /\ Len(pending) \in Nat
         /\ DOMAIN pending' = 1..(Len(pending) + 1) /\ DOMAIN pending = 1..Len(pending)
         /\ pending'[1] = e
         /\ \A i \in DOMAIN pending : pending'[i + 1] = pending[i]
         /\ \A A : Len(Kept(pending', A)) = IF e \in A THEN Len(Kept(pending, A)) + 1 ELSE Len(Kept(pending, A))
<1> DEFINE p == pending   q == <<e>> \o p
<1>1. p \in Seq(Inputs) /\ pending' = q
  OBVIOUS
<1> HIDE DEF p
<1>2. /\ q \in Seq(Inputs) /\ Len(q) = Len(p) + 1 /\ Len(p) \in Nat
      /\ DOMAIN q = 1..(Len(p) + 1) /\ DOMAIN p = 1..Len(p)
      /\ q[1] = e /\ \A i \in DOMAIN p : q[i + 1] = p[i]
  BY <1>1, PrependOne
<1>3. \A A : Len(Kept(q, A)) = IF e \in A THEN Len(Kept(p, A)) + 1 ELSE Len(Kept(p, A))
  <2> SUFFICES ASSUME NEW A
               PROVE  Len(Kept(q, A)) = IF e \in A THEN Len(Kept(p, A)) + 1 ELSE Len(Kept(p, A))
    OBVIOUS
  <2> DEFINE s == <<e>>
  <2>1. s \in Seq(Inputs)
    OBVIOUS
  <2>2. Kept(s, A) = IF e \in A THEN <<e>> ELSE <<>>
    BY KeptOne
  <2> HIDE DEF s
  <2>3. Kept(s \o p, A) = Kept(s, A) \o Kept(p, A)
    BY <1>1, <2>1, KeptConcat
  <2> DEFINE k == Kept(p, A)
  <2>4. k \in Seq(Inputs)
    BY <1>1, CountTyped
  <2>5. Kept(s \o p, A) = (IF e \in A THEN <<e>> ELSE <<>>) \o k
    BY <2>2, <2>3
  <2> HIDE DEF k
  <2>6. Len(<<e>> \o k) = Len(k) + 1 /\ Len(<<>> \o k) = Len(k)
    BY <2>4
  <2>7. Len(Kept(s \o p, A)) = IF e \in A THEN Len(k) + 1 ELSE Len(k)
    BY <2>5, <2>6
  <2> QED BY <2>7 DEF k, s
<1> HIDE DEF q
<1> QED BY <1>1, <1>2, <1>3 DEF p

\* The longer queue keeps what it promised, if there is room and a turn for what was added.
LEMMA LongerKeeps ==
  ASSUME Steady, NEW e \in TextInputs,
         pending' = Append(pending, e) \/ (pending' = <<e>> \o pending /\ shutdown' = "open"),
         e \in SkillInputs => shutdown' = "open", shutdown' = shutdown,
         preparing' # NoPreparation => preparing' = preparing /\ Len(pending') <= Capacity + 1,
         Len(pending') <= Capacity + 2,
         step'[1] + Len(queue') + (Len(Kept(pending, TextInputs)) + 1)
           + (IF preparing' = NoPreparation THEN 0 ELSE 1) < nextText'
  PROVE  QueueInv'
<1> USE DEF Steady, Typed
<1>1. pending \in Seq(Inputs) /\ e \in Inputs /\ e # Interrupted /\ e \notin ResultInputs
      /\ \A c \in Calls : e \notin {Finished(c)}
  BY InputsApart DEF InputTyped
<1>2. /\ pending' \in Seq(Inputs) /\ Len(pending') = Len(pending) + 1 /\ Len(pending) \in Nat
      /\ \A A : Len(Kept(pending', A)) = IF e \in A THEN Len(Kept(pending, A)) + 1 ELSE Len(Kept(pending, A))
  BY <1>1, AppendIs, PrependIs
<1>3. \A A : Len(Kept(pending, A)) \in Nat
  BY <1>1, CountTyped
<1>4. Len(Kept(pending', ResultInputs)) <= Capacity
  BY <1>1, <1>2 DEF QueueInv
<1>5. \A c \in Calls : Copies(Finished(c))' <= 1
  BY <1>1, <1>2 DEF QueueInv, Copies
<1>6. Len(Kept(pending', TextInputs)) = Len(Kept(pending, TextInputs)) + 1
  BY <1>2
<1>7. \A i, j \in DOMAIN pending' : i < j /\ pending'[i] = Interrupted => pending'[j] \notin ResultInputs
  <2> SUFFICES ASSUME NEW i \in DOMAIN pending', NEW j \in DOMAIN pending', i < j,
                      pending'[i] = Interrupted
               PROVE  pending'[j] \notin ResultInputs
    OBVIOUS
  <2>1. CASE pending' = Append(pending, e)
    <3>1. /\ DOMAIN pending' = 1..(Len(pending) + 1) /\ DOMAIN pending = 1..Len(pending)
          /\ pending'[Len(pending) + 1] = e
          /\ \A m \in DOMAIN pending : pending'[m] = pending[m]
      BY <1>1, <2>1, AppendIs
    <3>2. CASE j = Len(pending) + 1
      BY <1>1, <3>1, <3>2
    <3>3. CASE j # Len(pending) + 1
      <4>1. i \in DOMAIN pending /\ j \in DOMAIN pending
        BY <1>2, <3>1, <3>3
      <4> QED BY <3>1, <4>1 DEF QueueInv
    <3> QED BY <3>2, <3>3
  <2>2. CASE pending' = <<e>> \o pending
    <3>1. /\ DOMAIN pending' = 1..(Len(pending) + 1) /\ DOMAIN pending = 1..Len(pending)
          /\ pending'[1] = e
          /\ \A m \in DOMAIN pending : pending'[m + 1] = pending[m]
      BY <1>1, <2>2, PrependIs
    <3>2. i # 1
      BY <1>1, <3>1
    <3>3. /\ i - 1 \in DOMAIN pending /\ j - 1 \in DOMAIN pending /\ i - 1 < j - 1
          /\ (i - 1) + 1 = i /\ (j - 1) + 1 = j
      BY <1>2, <3>1, <3>2
    <3>4. pending'[i] = pending[i - 1] /\ pending'[j] = pending[j - 1]
      BY <3>1, <3>3
    <3> QED BY <3>3, <3>4 DEF QueueInv
  <2> QED BY <2>1, <2>2
<1>8. shutdown' # "open" =>
        /\ preparing' = NoPreparation
        /\ \A i \in DOMAIN pending' : pending'[i] \notin SkillInputs
  <2> SUFFICES ASSUME shutdown' # "open"
               PROVE  /\ preparing' = NoPreparation
                      /\ \A i \in DOMAIN pending' : pending'[i] \notin SkillInputs
    OBVIOUS
  <2>1. preparing' = NoPreparation /\ e \notin SkillInputs
    BY DEF QueueInv
  <2>2. pending' = Append(pending, e)
    OBVIOUS
  <2>3. /\ DOMAIN pending' = 1..(Len(pending) + 1) /\ DOMAIN pending = 1..Len(pending)
        /\ pending'[Len(pending) + 1] = e
        /\ \A m \in DOMAIN pending : pending'[m] = pending[m]
    BY <1>1, <2>2, AppendIs
  <2>4. ASSUME NEW i \in DOMAIN pending'
        PROVE  pending'[i] \notin SkillInputs
    <3>1. CASE i = Len(pending) + 1
      BY <2>1, <2>3, <3>1
    <3>2. CASE i # Len(pending) + 1
      <4>1. i \in DOMAIN pending
        BY <1>2, <2>3, <3>2
      <4> QED BY <2>3, <4>1 DEF QueueInv
    <3> QED BY <3>1, <3>2
  <2>5. \A i \in DOMAIN pending' : pending'[i] \notin SkillInputs
    BY <2>4
  <2> QED BY <2>1, <2>5
<1> QED BY <1>2, <1>4, <1>5, <1>6, <1>7, <1>8 DEF QueueInv

\* An interrupt stands in its place whatever is put around it.
LEMMA LongerInterrupts ==
  ASSUME pending \in Seq(Inputs), NEW e \in Inputs,
         pending' = Append(pending, e) \/ pending' = <<e>> \o pending, InterruptPending
  PROVE  InterruptPending'
<1>1. PICK i \in DOMAIN pending : pending[i].kind = "interrupt"
  BY DEF InterruptPending
<1>2. CASE pending' = Append(pending, e)
  <2>1. i \in DOMAIN pending' /\ pending'[i] = pending[i]
    BY <1>2, AppendIs
  <2> QED BY <1>1, <2>1 DEF InterruptPending
<1>3. CASE pending' = <<e>> \o pending
  <2>1. i + 1 \in DOMAIN pending' /\ pending'[i + 1] = pending[i]
    BY <1>3, PrependIs
  <2> QED BY <1>1, <2>1 DEF InterruptPending
<1> QED BY <1>2, <1>3

\* A text is accepted.
LEMMA SubmitTakenKeeps ==
  ASSUME Alive, Submit, Len(pending) < Capacity, NEW e,
         e = Text(nextText, nextText \in SkillTexts)
  PROVE  Alive'
<1> USE DEF Alive, Lives, Steady, Typed, LiveInv
<1>1. /\ UNCHANGED <<phase, step, slot, queue, disk, journal, commit, after, preparing, starting,
                        deferred, failing, active, compaction, spent, tools, shutdown, error,
                        ended, unanswered, returned>>
      /\ call = "none" /\ shutdown = "open" /\ nextText' = nextText + 1 /\ nextText \in 1..MaxTexts
         /\ Len(pending) < Capacity /\ pending' = Append(pending, e) /\ call' = "submit"
      /\ e \in TextInputs /\ e \in Inputs /\ pending \in Seq(Inputs) /\ pending' \in Seq(Inputs)
      /\ InterruptPending => InterruptPending'
      /\ \A c \in Calls : Len(Kept(pending', {Finished(c)})) = Len(Kept(pending, {Finished(c)}))
  <2>1. /\ call = "none" /\ shutdown = "open" /\ nextText' = nextText + 1 /\ nextText \in Texts
        /\ pending' = Append(pending, e) /\ call' = "submit"
    BY DEF Submit
  <2>2. e \in TextInputs
    <3>1. (nextText \in SkillTexts) \in BOOLEAN
      OBVIOUS
    <3> DEFINE named == nextText \in SkillTexts
    <3>2. named \in BOOLEAN /\ e = Text(nextText, named)
      BY <3>1
    <3> HIDE DEF named
    <3> QED BY <2>1, <3>2, InputsApart
  <2>3. /\ e \in Inputs /\ \A c \in Calls : e \notin {Finished(c)}
    BY <2>1, <2>2, InputsApart
  <2>4. pending \in Seq(Inputs) /\ pending' \in Seq(Inputs)
    BY <2>1, <2>2, <2>3, AppendIs, PrependIs DEF InputTyped
  <2>5. InterruptPending => InterruptPending'
    BY <2>1, <2>2, <2>3, <2>4, LongerInterrupts
  <2>6. \A c \in Calls : Len(Kept(pending', {Finished(c)})) = Len(Kept(pending, {Finished(c)}))
    BY <2>1, <2>2, <2>3, <2>4, AppendIs
  <2> QED
    BY <2>1, <2>2, <2>3, <2>4, <2>5, <2>6
    DEF Submit, agentVars, ownerVars, exitVars, Texts
<1>10. AgentTyped' /\ FileTyped' /\ OwnerTyped' /\ AgentInv'
  BY <1>1 DEF AgentTyped, FileTyped, Thens, OwnerTyped, AgentInv, Unsettled
<1>11. DurableInv' /\ DueInv' /\ CommitInv'
  BY <1>1 DEF DurableInv, DueInv, Due, StopDue, Stopped, CommitInv
<1>12. SoloInv' /\ EffectInv' /\ AttemptInv'
  BY <1>1 DEF SoloInv, Due, StopDue, Streams, ToolsBusy, EffectInv, AttemptInv, NextDisk
<1>13. InputTyped'
  BY <1>1, Nones, BoundsTyped DEF InputTyped
<1>14. CallTyped'
  BY <1>1, Nones DEF CallTyped
<1>15. CallInv'
  BY <1>1, Nones DEF CallInv
<1>16. QueueInv'
  <2>1. step[1] \in Nat /\ Len(queue) \in Nat /\ nextText \in Nat /\ Len(Kept(pending, TextInputs)) \in Nat
    BY TurnLeft DEF Steady, Typed
  <2>2. Len(pending) \in Nat /\ Capacity \in Nat /\ Len(pending') = Len(pending) + 1
    BY <1>1, BoundsTyped, AppendIs, PrependIs DEF InputTyped
  <2>3. preparing' # NoPreparation => preparing' = preparing /\ Len(pending') <= Capacity + 1
    BY <1>1, <2>2 DEF QueueInv
  <2>4. Len(pending') <= Capacity + 2
    BY <1>1, <2>2 DEF QueueInv
  <2>5. step'[1] + Len(queue') + (Len(Kept(pending, TextInputs)) + 1)
          + (IF preparing' = NoPreparation THEN 0 ELSE 1) < nextText'
    <3>1. step[1] + Len(queue) + Len(Kept(pending, TextInputs))
            + (IF preparing = NoPreparation THEN 0 ELSE 1) < nextText
      BY DEF QueueInv
    <3> QED BY <1>1, <2>1, <3>1
  <2> QED BY <1>1, <2>3, <2>4, <2>5, LongerKeeps DEF Steady, Typed
<1>17. SettledInv'
  BY <1>1, Nones DEF SettledInv
<1>18. EndInv'
  BY <1>1, Nones DEF EndInv, ToolsBusy
<1>19. ToolInv'
  BY <1>1, Nones DEF ToolInv, Due, StopDue, Copies
<1>20. SummaryInv'
  BY <1>1, Nones DEF SummaryInv, Due, StopDue, Streams
<1>21. OwnInv'
  BY <1>1, Nones DEF OwnInv, InterruptPending, Copies
<1>22. ClosingInv'
  BY <1>1, Nones DEF ClosingInv, Due, StopDue
<1> QED
  BY <1>1, <1>10, <1>11, <1>12, <1>13, <1>14, <1>15, <1>16, <1>17, <1>18, <1>19, <1>20, <1>21, <1>22

\* There is no room for a text, and it comes back.
LEMMA SubmitReturnedKeeps ==
  ASSUME Alive, Submit, ~(Len(pending) < Capacity)
  PROVE  Alive'
<1> USE DEF Alive, Lives, Steady, Typed, LiveInv
<1>1. /\ UNCHANGED <<phase, step, slot, queue, disk, journal, commit, after, pending, preparing,
                        starting, deferred, failing, active, compaction, spent, tools, shutdown,
                        call, error, ended, unanswered>>
      /\ nextText' = nextText + 1 /\ nextText \in 1..MaxTexts
      /\ returned' \in Seq(Texts)
  <2>1. nextText' = nextText + 1 /\ nextText \in Texts /\ returned' = Append(returned, nextText)
    BY DEF Submit
  <2>2. returned' \in Seq(Texts)
    <3>1. returned \in Seq(Texts)
      BY DEF InputTyped
    <3> QED BY <2>1, <3>1
  <2> QED
    BY <2>1, <2>2 DEF Submit, agentVars, ownerVars, exitVars, Texts
<1>10. AgentTyped' /\ FileTyped' /\ OwnerTyped' /\ CallTyped' /\ CallInv' /\ AgentInv' /\
  SettledInv'
  BY <1>1 DEF AgentTyped, FileTyped, Thens, OwnerTyped, CallTyped, CallInv, AgentInv, Unsettled,
    SettledInv
<1>11. DurableInv' /\ EndInv' /\ DueInv'
  BY <1>1 DEF DurableInv, EndInv, ToolsBusy, DueInv, Due, StopDue, Stopped
<1>12. CommitInv' /\ SoloInv' /\ ToolInv'
  BY <1>1 DEF CommitInv, Stopped, SoloInv, Due, StopDue, Streams, ToolsBusy, ToolInv, Copies
<1>13. EffectInv' /\ SummaryInv' /\ AttemptInv'
  BY <1>1 DEF EffectInv, ToolsBusy, SummaryInv, Due, StopDue, Streams, AttemptInv, NextDisk
<1>14. OwnInv' /\ ClosingInv'
  BY <1>1 DEF OwnInv, InterruptPending, Copies, ClosingInv, Due, StopDue
<1>15. InputTyped'
  BY <1>1, Nones, BoundsTyped DEF InputTyped
<1>16. QueueInv'
  <2>1. /\ step[1] \in Nat /\ Len(queue) \in Nat /\ nextText \in Nat
        /\ Len(Kept(pending, TextInputs)) \in Nat
    BY TurnLeft DEF Steady, Typed
  <2>2. step[1] + Len(queue) + Len(Kept(pending, TextInputs))
          + (IF preparing = NoPreparation THEN 0 ELSE 1) < nextText
    BY DEF QueueInv
  <2>3. step'[1] + Len(queue') + Len(Kept(pending', TextInputs))
          + (IF preparing' = NoPreparation THEN 0 ELSE 1) < nextText'
    BY <1>1, <2>1, <2>2
  <2> QED
    BY <1>1, <2>3 DEF QueueInv, Copies
<1> QED
  BY <1>1, <1>10, <1>11, <1>12, <1>13, <1>14, <1>15, <1>16

\* The same with a failed journal.
LEMMA SubmitTakenFails ==
  ASSUME Failed, Submit, Len(pending) < Capacity, NEW e,
         e = Text(nextText, nextText \in SkillTexts)
  PROVE  Failed'
<1> USE DEF Failed, Steady, Typed
<1>1. /\ UNCHANGED <<phase, step, slot, queue, disk, journal, commit, after, preparing, starting,
                        deferred, failing, active, compaction, spent, tools, shutdown, error,
                        ended, unanswered, returned>>
      /\ call = "none" /\ shutdown = "open" /\ nextText' = nextText + 1 /\ nextText \in 1..MaxTexts
         /\ Len(pending) < Capacity /\ pending' = Append(pending, e) /\ call' = "submit"
      /\ e \in TextInputs /\ e \in Inputs /\ pending \in Seq(Inputs) /\ pending' \in Seq(Inputs)
      /\ InterruptPending => InterruptPending'
      /\ \A c \in Calls : Len(Kept(pending', {Finished(c)})) = Len(Kept(pending, {Finished(c)}))
  <2>1. /\ call = "none" /\ shutdown = "open" /\ nextText' = nextText + 1 /\ nextText \in Texts
        /\ pending' = Append(pending, e) /\ call' = "submit"
    BY DEF Submit
  <2>2. e \in TextInputs
    <3>1. (nextText \in SkillTexts) \in BOOLEAN
      OBVIOUS
    <3> DEFINE named == nextText \in SkillTexts
    <3>2. named \in BOOLEAN /\ e = Text(nextText, named)
      BY <3>1
    <3> HIDE DEF named
    <3> QED BY <2>1, <3>2, InputsApart
  <2>3. /\ e \in Inputs /\ \A c \in Calls : e \notin {Finished(c)}
    BY <2>1, <2>2, InputsApart
  <2>4. pending \in Seq(Inputs) /\ pending' \in Seq(Inputs)
    BY <2>1, <2>2, <2>3, AppendIs, PrependIs DEF InputTyped
  <2>5. InterruptPending => InterruptPending'
    BY <2>1, <2>2, <2>3, <2>4, LongerInterrupts
  <2>6. \A c \in Calls : Len(Kept(pending', {Finished(c)})) = Len(Kept(pending, {Finished(c)}))
    BY <2>1, <2>2, <2>3, <2>4, AppendIs
  <2> QED
    BY <2>1, <2>2, <2>3, <2>4, <2>5, <2>6
    DEF Submit, agentVars, ownerVars, exitVars, Texts
<1>10. AgentTyped' /\ FileTyped' /\ OwnerTyped' /\ AgentInv'
  BY <1>1 DEF AgentTyped, FileTyped, Thens, OwnerTyped, AgentInv, Unsettled
<1>11. DurableInv'
  BY <1>1 DEF DurableInv
<1>12. InputTyped'
  BY <1>1, Nones, BoundsTyped DEF InputTyped
<1>13. CallTyped'
  BY <1>1, Nones DEF CallTyped
<1>14. CallInv'
  BY <1>1, Nones DEF CallInv
<1>15. QueueInv'
  <2>1. step[1] \in Nat /\ Len(queue) \in Nat /\ nextText \in Nat /\ Len(Kept(pending, TextInputs)) \in Nat
    BY TurnLeft DEF Steady, Typed
  <2>2. Len(pending) \in Nat /\ Capacity \in Nat /\ Len(pending') = Len(pending) + 1
    BY <1>1, BoundsTyped, AppendIs, PrependIs DEF InputTyped
  <2>3. preparing' # NoPreparation => preparing' = preparing /\ Len(pending') <= Capacity + 1
    BY <1>1, <2>2 DEF QueueInv
  <2>4. Len(pending') <= Capacity + 2
    BY <1>1, <2>2 DEF QueueInv
  <2>5. step'[1] + Len(queue') + (Len(Kept(pending, TextInputs)) + 1)
          + (IF preparing' = NoPreparation THEN 0 ELSE 1) < nextText'
    <3>1. step[1] + Len(queue) + Len(Kept(pending, TextInputs))
            + (IF preparing = NoPreparation THEN 0 ELSE 1) < nextText
      BY DEF QueueInv
    <3> QED BY <1>1, <2>1, <3>1
  <2> QED BY <1>1, <2>3, <2>4, <2>5, LongerKeeps DEF Steady, Typed
<1>16. SettledInv'
  BY <1>1, Nones DEF SettledInv
<1>17. EndInv'
  BY <1>1, Nones DEF EndInv, ToolsBusy
<1> QED
  BY <1>1, <1>10, <1>11, <1>12, <1>13, <1>14, <1>15, <1>16, <1>17

\* There is no room for a text, and it comes back.
LEMMA SubmitReturnedFails ==
  ASSUME Failed, Submit, ~(Len(pending) < Capacity)
  PROVE  Failed'
<1> USE DEF Failed, Steady, Typed
<1>1. /\ UNCHANGED <<phase, step, slot, queue, disk, journal, commit, after, pending, preparing,
                        starting, deferred, failing, active, compaction, spent, tools, shutdown,
                        call, error, ended, unanswered>>
      /\ nextText' = nextText + 1 /\ nextText \in 1..MaxTexts
      /\ returned' \in Seq(Texts)
  <2>1. nextText' = nextText + 1 /\ nextText \in Texts /\ returned' = Append(returned, nextText)
    BY DEF Submit
  <2>2. returned' \in Seq(Texts)
    <3>1. returned \in Seq(Texts)
      BY DEF InputTyped
    <3> QED BY <2>1, <3>1
  <2> QED
    BY <2>1, <2>2 DEF Submit, agentVars, ownerVars, exitVars, Texts
<1>10. AgentTyped' /\ FileTyped' /\ OwnerTyped' /\ CallTyped' /\ CallInv' /\ AgentInv' /\
  SettledInv'
  BY <1>1 DEF AgentTyped, FileTyped, Thens, OwnerTyped, CallTyped, CallInv, AgentInv, Unsettled,
    SettledInv
<1>11. DurableInv' /\ EndInv'
  BY <1>1 DEF DurableInv, EndInv, ToolsBusy
<1>12. InputTyped'
  BY <1>1, Nones, BoundsTyped DEF InputTyped
<1>13. QueueInv'
  <2>1. /\ step[1] \in Nat /\ Len(queue) \in Nat /\ nextText \in Nat
        /\ Len(Kept(pending, TextInputs)) \in Nat
    BY TurnLeft DEF Steady, Typed
  <2>2. step[1] + Len(queue) + Len(Kept(pending, TextInputs))
          + (IF preparing = NoPreparation THEN 0 ELSE 1) < nextText
    BY DEF QueueInv
  <2>3. step'[1] + Len(queue') + Len(Kept(pending', TextInputs))
          + (IF preparing' = NoPreparation THEN 0 ELSE 1) < nextText'
    BY <1>1, <2>1, <2>2
  <2> QED
    BY <1>1, <2>3 DEF QueueInv, Copies
<1> QED
  BY <1>1, <1>10, <1>11, <1>12, <1>13

\* A skill was read, and its text is the next to be taken.
LEMMA SkillReadKeeps ==
  ASSUME Alive, NEW found \in BOOLEAN, SkillLoaded(found), found, ~preparing.cancelled,
         NEW e, e = Text(preparing.text, FALSE)
  PROVE  Alive'
<1> USE DEF Alive, Lives, Steady, Typed, LiveInv
<1>1. /\ UNCHANGED <<phase, step, slot, queue, disk, journal, commit, after, starting, deferred,
                        failing, active, compaction, spent, tools, shutdown, call, error, ended,
                        unanswered, returned, nextText>>
      /\ call = "update" /\ shutdown = "open" /\ preparing # NoPreparation
      /\ preparing' = NoPreparation /\ pending' = <<e>> \o pending
      /\ e \in TextInputs /\ e \in Inputs /\ pending \in Seq(Inputs) /\ pending' \in Seq(Inputs)
      /\ InterruptPending => InterruptPending'
      /\ \A c \in Calls : Len(Kept(pending', {Finished(c)})) = Len(Kept(pending, {Finished(c)}))
  <2>1. /\ call = "update" /\ preparing # NoPreparation
        /\ preparing' = NoPreparation /\ pending' = <<e>> \o pending
    BY DEF SkillLoaded, Waiting
  <2>2. shutdown = "open"
    BY <2>1 DEF CallInv
  <2>3. e \in TextInputs
    <3>1. preparing.text \in Texts
      BY <2>1, BoundsTyped DEF InputTyped, Preparations, Texts
    <3> QED BY <3>1, InputsApart
  <2>4. /\ e \in Inputs /\ \A c \in Calls : e \notin {Finished(c)}
    BY <2>1, <2>3, InputsApart
  <2>5. pending \in Seq(Inputs) /\ pending' \in Seq(Inputs)
    BY <2>1, <2>3, <2>4, AppendIs, PrependIs DEF InputTyped
  <2>6. InterruptPending => InterruptPending'
    BY <2>1, <2>3, <2>4, <2>5, LongerInterrupts
  <2>7. \A c \in Calls : Len(Kept(pending', {Finished(c)})) = Len(Kept(pending, {Finished(c)}))
    BY <2>1, <2>3, <2>4, <2>5, PrependIs
  <2> QED
    BY <2>1, <2>2, <2>3, <2>4, <2>5, <2>6, <2>7
    DEF SkillLoaded, agentVars, ownerVars, exitVars
<1>10. AgentTyped' /\ FileTyped' /\ OwnerTyped' /\ CallTyped' /\ CallInv' /\ AgentInv' /\
  SettledInv'
  BY <1>1 DEF AgentTyped, FileTyped, Thens, OwnerTyped, CallTyped, CallInv, AgentInv, Unsettled,
    SettledInv
<1>11. DurableInv' /\ DueInv' /\ CommitInv'
  BY <1>1 DEF DurableInv, DueInv, Due, StopDue, Stopped, CommitInv
<1>12. SoloInv' /\ EffectInv' /\ AttemptInv'
  BY <1>1 DEF SoloInv, Due, StopDue, Streams, ToolsBusy, EffectInv, AttemptInv, NextDisk
<1>13. InputTyped'
  BY <1>1, Nones, RestTyped DEF InputTyped
<1>14. QueueInv'
  <2>1. step[1] \in Nat /\ Len(queue) \in Nat /\ nextText \in Nat /\ Len(Kept(pending, TextInputs)) \in Nat
    BY TurnLeft DEF Steady, Typed
  <2>2. Len(pending) \in Nat /\ Capacity \in Nat /\ Len(pending') = Len(pending) + 1
    BY <1>1, BoundsTyped, AppendIs, PrependIs DEF InputTyped
  <2>3. preparing' # NoPreparation => preparing' = preparing /\ Len(pending') <= Capacity + 1
    BY <1>1, <2>2 DEF QueueInv
  <2>4. Len(pending') <= Capacity + 2
    BY <1>1, <2>2 DEF QueueInv
  <2>5. step'[1] + Len(queue') + (Len(Kept(pending, TextInputs)) + 1)
          + (IF preparing' = NoPreparation THEN 0 ELSE 1) < nextText'
    <3>1. step[1] + Len(queue) + Len(Kept(pending, TextInputs))
            + (IF preparing = NoPreparation THEN 0 ELSE 1) < nextText
      BY DEF QueueInv
    <3> QED BY <1>1, <2>1, <3>1
  <2> QED BY <1>1, <2>3, <2>4, <2>5, LongerKeeps DEF Steady, Typed
<1>15. EndInv'
  BY <1>1, Nones DEF EndInv, ToolsBusy
<1>16. ToolInv'
  BY <1>1, Nones DEF ToolInv, Due, StopDue, Copies
<1>17. SummaryInv'
  BY <1>1, Nones DEF SummaryInv, Due, StopDue, Streams
<1>18. OwnInv'
  BY <1>1, Nones DEF OwnInv, InterruptPending, Copies
<1>19. ClosingInv'
  BY <1>1, Nones DEF ClosingInv, Due, StopDue
<1> QED
  BY <1>1, <1>10, <1>11, <1>12, <1>13, <1>14, <1>15, <1>16, <1>17, <1>18, <1>19

\* A skill could not be read, or its text was cancelled: it comes back.
LEMMA SkillGoneKeeps ==
  ASSUME Alive, NEW found \in BOOLEAN, SkillLoaded(found), ~(found /\ ~preparing.cancelled)
  PROVE  Alive'
<1> USE DEF Alive, Lives, Steady, Typed, LiveInv
<1>1. /\ UNCHANGED <<phase, step, slot, queue, disk, journal, commit, after, pending, starting,
                        deferred, failing, active, compaction, spent, tools, shutdown, call,
                        error, ended, unanswered, nextText>>
      /\ preparing # NoPreparation /\ preparing' = NoPreparation
      /\ returned' \in Seq(Texts)
  <2>1. /\ preparing # NoPreparation /\ preparing' = NoPreparation
        /\ returned' = Append(returned, preparing.text)
    BY DEF SkillLoaded
  <2>2. returned' \in Seq(Texts)
    <3>1. preparing.text \in Texts /\ returned \in Seq(Texts)
      BY <2>1, BoundsTyped DEF InputTyped, Preparations, Texts
    <3> QED BY <2>1, <3>1
  <2> QED
    BY <2>1, <2>2 DEF SkillLoaded, agentVars, ownerVars, exitVars
<1>10. AgentTyped' /\ FileTyped' /\ OwnerTyped' /\ CallTyped' /\ CallInv' /\ AgentInv' /\
  SettledInv'
  BY <1>1 DEF AgentTyped, FileTyped, Thens, OwnerTyped, CallTyped, CallInv, AgentInv, Unsettled,
    SettledInv
<1>11. DurableInv' /\ EndInv' /\ DueInv'
  BY <1>1 DEF DurableInv, EndInv, ToolsBusy, DueInv, Due, StopDue, Stopped
<1>12. CommitInv' /\ SoloInv' /\ ToolInv'
  BY <1>1 DEF CommitInv, Stopped, SoloInv, Due, StopDue, Streams, ToolsBusy, ToolInv, Copies
<1>13. EffectInv' /\ SummaryInv' /\ AttemptInv'
  BY <1>1 DEF EffectInv, ToolsBusy, SummaryInv, Due, StopDue, Streams, AttemptInv, NextDisk
<1>14. OwnInv' /\ ClosingInv'
  BY <1>1 DEF OwnInv, InterruptPending, Copies, ClosingInv, Due, StopDue
<1>15. InputTyped'
  BY <1>1, Nones, RestTyped DEF InputTyped
<1>16. QueueInv'
  <2>1. /\ step[1] \in Nat /\ Len(queue) \in Nat /\ nextText \in Nat
        /\ Len(Kept(pending, TextInputs)) \in Nat
    BY TurnLeft
  <2>2. step[1] + Len(queue) + Len(Kept(pending, TextInputs))
          + (IF preparing = NoPreparation THEN 0 ELSE 1) < nextText
    BY DEF QueueInv
  <2>3. step'[1] + Len(queue') + Len(Kept(pending', TextInputs))
          + (IF preparing' = NoPreparation THEN 0 ELSE 1) < nextText'
    BY <1>1, <2>1, <2>2
  <2> QED
    BY <1>1, <2>3 DEF QueueInv, Copies
<1> QED
  BY <1>1, <1>10, <1>11, <1>12, <1>13, <1>14, <1>15, <1>16

\* The queue of an interrupt: the results that wait, and the interrupt behind them.
LEMMA InterruptingIs ==
  ASSUME pending \in Seq(Inputs), pending' = Interrupting
  PROVE  /\ pending' \in Seq(Inputs) /\ Len(pending') = Len(Kept(pending, ResultInputs)) + 1
         /\ Len(Kept(pending', ResultInputs)) = Len(Kept(pending, ResultInputs))
         /\ Len(Kept(pending', TextInputs)) = 0 /\ InterruptPending'
         /\ \A c \in Calls : Len(Kept(pending', {Finished(c)})) = Len(Kept(pending, {Finished(c)}))
         /\ \A i, j \in DOMAIN pending' :
              i < j /\ pending'[i] = Interrupted => pending'[j] \notin ResultInputs
<1> DEFINE p == pending   k == Kept(p, ResultInputs)   q == Append(k, Interrupted)
<1>1. p \in Seq(Inputs) /\ pending' = q
  BY DEF Interrupting
<1> HIDE DEF p
<1>2. k \in Seq(Inputs)
  BY <1>1, CountTyped
<1>3. Interrupted \in Inputs /\ Interrupted \notin ResultInputs /\ Interrupted \notin TextInputs
      /\ Interrupted.kind = "interrupt"
      /\ \A c \in Calls : Finished(c) \in ResultInputs /\ Interrupted \notin {Finished(c)}
  BY InputsApart
<1>4. \A A : Len(Kept(k, A)) = Len(Kept(p, ResultInputs \cap A))
  BY <1>1, KeptKept
<1>5. \A i \in DOMAIN k : k[i] \in ResultInputs
  BY <1>1, KeptPlaces
<1> HIDE DEF k
<1>6. \A A : Len(Kept(q, A)) = IF Interrupted \in A THEN Len(Kept(k, A)) + 1 ELSE Len(Kept(k, A))
  BY <1>2, <1>3, CountAppend
<1>7. /\ q \in Seq(Inputs) /\ Len(q) = Len(k) + 1 /\ Len(k) \in Nat
      /\ DOMAIN q = 1..(Len(k) + 1) /\ DOMAIN k = 1..Len(k) /\ q[Len(k) + 1] = Interrupted
      /\ \A i \in DOMAIN k : q[i] = k[i]
  BY <1>2, <1>3
<1> HIDE DEF q
<1>8. Len(Kept(q, ResultInputs)) = Len(k)
  <2>1. ResultInputs \cap ResultInputs = ResultInputs
    OBVIOUS
  <2> QED BY <1>3, <1>4, <1>6, <2>1 DEF k
<1>9. Len(Kept(q, TextInputs)) = 0
  <2>1. ResultInputs \cap TextInputs = {}
    BY InputsApart
  <2>2. Inputs \cap {} = {} /\ Len(<<>>) = 0
    OBVIOUS
  <2>3. Kept(p, {}) = <<>>
    BY <1>1, <2>2, KeptNone
  <2> QED BY <1>3, <1>4, <1>6, <2>1, <2>2, <2>3
<1>10. \A c \in Calls : Len(Kept(q, {Finished(c)})) = Len(Kept(p, {Finished(c)}))
  <2> SUFFICES ASSUME NEW c \in Calls
               PROVE  Len(Kept(q, {Finished(c)})) = Len(Kept(p, {Finished(c)}))
    OBVIOUS
  <2>1. ResultInputs \cap {Finished(c)} = {Finished(c)}
    BY <1>3
  <2> QED BY <1>3, <1>4, <1>6, <2>1
<1>11. \A i, j \in DOMAIN q : i < j => q[i] \in ResultInputs
  BY <1>5, <1>7
<1>12. \A i, j \in DOMAIN q : i < j /\ q[i] = Interrupted => q[j] \notin ResultInputs
  BY <1>3, <1>11
<1>13. \E i \in DOMAIN q : q[i].kind = "interrupt"
  <2>1. Len(k) + 1 \in DOMAIN q
    BY <1>7
  <2> QED BY <1>3, <1>7, <2>1
<1>14. InterruptPending'
  BY <1>1, <1>13 DEF InterruptPending
<1>15. q \in Seq(Inputs) /\ Len(q) = Len(k) + 1
  BY <1>7
<1> QED BY <1>1, <1>8, <1>9, <1>10, <1>12, <1>14, <1>15 DEF p, k

\* A start that has begun, and what a summary leads to, are cancelled.
LEMMA CancelIs ==
  ASSUME starting \in Starts, compaction \in Summaries, starting.step = NoStep => starting = NoStart,
         CancelStarts, CancelContinuation
  PROVE  /\ starting' \in Starts /\ starting'.step = starting.step
         /\ (starting' = NoStart) <=> (starting = NoStart)
         /\ starting # NoStart => starting'.cancelled
         /\ compaction' \in Summaries /\ ((compaction' = NoCompaction) <=> (compaction = NoCompaction))
         /\ compaction = NoCompaction => compaction'.continuation = "none"
         /\ compaction # NoCompaction => compaction'.continuation = "cancelled"
         /\ compaction'.phase = compaction.phase /\ compaction'.step = compaction.step
         /\ compaction'.requested = compaction.requested
<1>1. /\ starting' \in Starts /\ starting'.step = starting.step
      /\ (starting' = NoStart) <=> (starting = NoStart)
      /\ starting # NoStart => starting'.cancelled
  <2>1. CASE starting = NoStart
    BY <2>1, RestTyped DEF CancelStarts
  <2>2. CASE starting # NoStart
    <3>1. starting' = [starting EXCEPT !.cancelled = TRUE]
      BY <2>2 DEF CancelStarts
    <3>2. starting' \in Starts /\ starting'.step = starting.step /\ starting'.cancelled
      BY <3>1 DEF Starts
    <3> QED BY <2>2, <3>2, Nones
  <2> QED BY <2>1, <2>2
<1>2. /\ compaction' \in Summaries
      /\ (compaction' = NoCompaction) <=> (compaction = NoCompaction)
      /\ compaction = NoCompaction => compaction'.continuation = "none"
      /\ compaction # NoCompaction => compaction'.continuation = "cancelled"
      /\ compaction'.phase = compaction.phase /\ compaction'.step = compaction.step
      /\ compaction'.requested = compaction.requested
  <2>1. CASE compaction = NoCompaction
    BY <2>1, RestingTyped DEF CancelContinuation
  <2>2. CASE compaction # NoCompaction
    <3>1. compaction' = [compaction EXCEPT !.continuation = "cancelled"]
      BY <2>2 DEF CancelContinuation
    <3>2. /\ compaction' \in Summaries /\ compaction'.continuation = "cancelled"
          /\ compaction'.phase = compaction.phase /\ compaction'.step = compaction.step
          /\ compaction'.requested = compaction.requested
      BY <3>1 DEF Summaries
    <3> QED BY <2>2, <3>2, Nones
  <2> QED BY <2>1, <2>2
<1> QED BY <1>1, <1>2

\* What the stopped owners give back.
LEMMA GivenBack ==
  ASSUME pending \in Seq(Inputs), returned \in Seq(Texts), preparing \in Preparations,
         preparing.text = 0 => preparing = NoPreparation
  PROVE  /\ returned \o TextsOf(pending) \in Seq(Texts)
         /\ returned \o PreparedText \o SkillTextsPending \in Seq(Texts)
         /\ returned \o PreparedText \o SkillTextsPending \o TextsOf(OthersPending) \in Seq(Texts)
         /\ returned \o PreparedText \o SkillTextsPending \o <<>> \in Seq(Texts)
<1>1. TextsOf(pending) \in Seq(Texts)
  BY TextsOfTyped
<1>2. SkillTextsPending \in Seq(Texts)
  <2> DEFINE k == Kept(pending, SkillInputs)
  <2>1. k \in Seq(Inputs)
    BY CountTyped
  <2> HIDE DEF k
  <2>2. TextsOf(k) \in Seq(Texts)
    BY <2>1, TextsOfTyped
  <2> QED BY <2>2 DEF SkillTextsPending, k
<1>3. TextsOf(OthersPending) \in Seq(Texts)
  <2> DEFINE k == OthersPending
  <2>1. k \in Seq(Inputs)
    BY CountTyped DEF OthersPending
  <2> HIDE DEF k
  <2>2. TextsOf(k) \in Seq(Texts)
    BY <2>1, TextsOfTyped
  <2> QED BY <2>2 DEF k
<1>4. PreparedText \in Seq(Texts)
  <2>1. CASE preparing = NoPreparation
    <3>1. <<>> \in Seq(Texts)
      OBVIOUS
    <3> QED BY <2>1, <3>1 DEF PreparedText
  <2>2. CASE preparing # NoPreparation
    <3>1. preparing.text \in Texts
      BY <2>2, BoundsTyped DEF Preparations, Texts
    <3>2. <<preparing.text>> \in Seq(Texts)
      BY <3>1
    <3> QED BY <2>2, <3>2 DEF PreparedText
  <2> QED BY <2>1, <2>2
<1> DEFINE a == TextsOf(pending)  b == PreparedText  d == SkillTextsPending  e == TextsOf(OthersPending)
<1>5. a \in Seq(Texts) /\ b \in Seq(Texts) /\ d \in Seq(Texts) /\ e \in Seq(Texts)
  BY <1>1, <1>2, <1>3, <1>4
<1> HIDE DEF a, b, d, e
<1>6. returned \o a \in Seq(Texts) /\ returned \o b \in Seq(Texts)
  BY <1>5
<1>7. (returned \o b) \o d \in Seq(Texts)
  BY <1>5, <1>6
<1>8. ((returned \o b) \o d) \o e \in Seq(Texts) /\ ((returned \o b) \o d) \o <<>> \in Seq(Texts)
  BY <1>5, <1>7
<1> QED BY <1>6, <1>7, <1>8 DEF a, b, d, e

\* An interrupt is accepted: it replaces what waits, but for results.
LEMMA SubmitInterruptKeeps ==
  ASSUME Alive, SubmitInterrupt
  PROVE  Alive'
<1> USE DEF Alive, Lives, Steady, Typed, LiveInv
<1>1. /\ UNCHANGED <<phase, step, slot, queue, disk, journal, commit, after, deferred, failing,
                        active, spent, tools, shutdown, error, ended, unanswered, nextText>>
      /\ call = "none" /\ shutdown = "open" /\ call' = "submit"
      /\ pending' \in Seq(Inputs) /\ returned' \in Seq(Texts)
      /\ preparing' \in Preparations /\ ((preparing' = NoPreparation) <=> (preparing = NoPreparation))
         /\ (preparing'.text = 0 => preparing' = NoPreparation)
      /\ starting' \in Starts /\ starting'.step = starting.step
      /\ ((starting' = NoStart) <=> (starting = NoStart)) /\ (starting # NoStart => starting'.cancelled)
      /\ compaction' \in Summaries /\ ((compaction' = NoCompaction) <=> (compaction = NoCompaction))
      /\ compaction = NoCompaction => compaction'.continuation = "none"
      /\ compaction # NoCompaction => compaction'.continuation = "cancelled"
      /\ compaction'.phase = compaction.phase /\ compaction'.step = compaction.step
         /\ compaction'.requested = compaction.requested
  <2>1. /\ call = "none" /\ shutdown = "open" /\ call' = "submit" /\ pending' = Interrupting
        /\ returned' = returned \o TextsOf(pending)
    BY DEF SubmitInterrupt
  <2>2. /\ starting' \in Starts /\ starting'.step = starting.step
        /\ (starting' = NoStart) <=> (starting = NoStart)
        /\ starting # NoStart => starting'.cancelled
        /\ compaction' \in Summaries /\ ((compaction' = NoCompaction) <=> (compaction = NoCompaction))
        /\ compaction = NoCompaction => compaction'.continuation = "none"
        /\ compaction # NoCompaction => compaction'.continuation = "cancelled"
        /\ compaction'.phase = compaction.phase /\ compaction'.step = compaction.step
        /\ compaction'.requested = compaction.requested
    <3>1. /\ starting \in Starts /\ compaction \in Summaries
          /\ starting.step = NoStep => starting = NoStart
          /\ CancelStarts /\ CancelContinuation
      BY DEF OwnerTyped, SubmitInterrupt
    <3> QED BY <3>1, CancelIs
  <2>3. pending' \in Seq(Inputs) /\ returned' \in Seq(Texts)
    BY <2>1, InterruptingIs, GivenBack DEF InputTyped
  <2>4. /\ preparing' \in Preparations /\ ((preparing' = NoPreparation) <=> (preparing = NoPreparation))
        /\ preparing'.text = 0 => preparing' = NoPreparation
    <3>1. CASE preparing = NoPreparation
      BY <3>1, RestTyped DEF SubmitInterrupt
    <3>2. CASE preparing # NoPreparation
      <4>1. preparing' = [preparing EXCEPT !.cancelled = TRUE] /\ preparing.text # 0
        BY <3>2 DEF SubmitInterrupt, InputTyped
      <4>2. preparing' \in Preparations /\ preparing'.text = preparing.text
        BY <4>1 DEF InputTyped, Preparations
      <4> QED BY <3>2, <4>1, <4>2, Nones
    <3> QED BY <3>1, <3>2
  <2> QED
    BY <2>1, <2>2, <2>3, <2>4
    DEF SubmitInterrupt, agentVars, exitVars
<1>2. /\ Len(pending') = Len(Kept(pending, ResultInputs)) + 1
      /\ Len(Kept(pending', ResultInputs)) = Len(Kept(pending, ResultInputs))
      /\ Len(Kept(pending', TextInputs)) = 0 /\ InterruptPending'
      /\ \A c \in Calls : Len(Kept(pending', {Finished(c)})) = Len(Kept(pending, {Finished(c)}))
      /\ \A i, j \in DOMAIN pending' :
           i < j /\ pending'[i] = Interrupted => pending'[j] \notin ResultInputs
  BY InterruptingIs DEF SubmitInterrupt, InputTyped
<1>10. AgentTyped' /\ FileTyped' /\ AgentInv'
  BY <1>1 DEF AgentTyped, FileTyped, Thens, AgentInv, Unsettled
<1>11. CommitInv'
  BY <1>1 DEF CommitInv, Stopped
<1>12. InputTyped'
  BY <1>1, Nones DEF InputTyped
<1>13. OwnerTyped'
  BY <1>1, Nones DEF OwnerTyped
<1>14. CallTyped'
  BY <1>1, Nones DEF CallTyped
<1>15. CallInv'
  BY <1>1, Nones DEF CallInv
<1>16. QueueInv'
  <2>1. /\ step[1] \in Nat /\ Len(queue) \in Nat /\ nextText \in Nat
        /\ Len(Kept(pending, TextInputs)) \in Nat
    BY TurnLeft DEF Steady, Typed
  <2>2. Len(Kept(pending, ResultInputs)) \in Nat /\ Capacity \in Nat
    BY CountTyped, BoundsTyped DEF InputTyped
  <2>3. Len(pending') <= Capacity + 1 /\ Len(pending') <= Capacity + 2
        /\ Len(Kept(pending', ResultInputs)) <= Capacity
    BY <1>2, <2>2 DEF QueueInv
  <2>4. step[1] + Len(queue) + Len(Kept(pending', TextInputs))
          + (IF preparing' = NoPreparation THEN 0 ELSE 1) < nextText
    <3>1. step[1] + Len(queue) + Len(Kept(pending, TextInputs))
            + (IF preparing = NoPreparation THEN 0 ELSE 1) < nextText
      BY DEF QueueInv
    <3> QED BY <1>1, <1>2, <2>1, <3>1
  <2>5. \A c \in Calls : Copies(Finished(c))' <= 1
    BY <1>2 DEF QueueInv, Copies
  <2> QED BY <1>1, <1>2, <2>3, <2>4, <2>5 DEF QueueInv
<1>17. DurableInv'
  BY <1>1, Nones DEF DurableInv
<1>18. SettledInv'
  BY <1>1, Nones DEF SettledInv
<1>19. EndInv'
  BY <1>1, Nones DEF EndInv, ToolsBusy
<1>20. DueInv'
  BY <1>1, Nones DEF DueInv, Due, StopDue, Stopped
<1>21. SoloInv'
  BY <1>1, Nones DEF SoloInv, Due, StopDue, Streams, ToolsBusy
<1>22. ToolInv'
  BY <1>1, Nones, <1>2 DEF ToolInv, Due, StopDue, Copies
<1>23. EffectInv'
  BY <1>1, Nones DEF EffectInv, ToolsBusy
<1>24. SummaryInv'
  BY <1>1, Nones DEF SummaryInv, Due, StopDue, Streams
<1>25. AttemptInv'
  BY <1>1, Nones DEF AttemptInv, Due, NextDisk
<1>26. OwnInv'
  BY <1>1, Nones, <1>2 DEF OwnInv, InterruptPending, Copies
<1>27. ClosingInv'
  BY <1>1, Nones DEF ClosingInv, Due, StopDue
<1> QED
  BY <1>1, <1>10, <1>11, <1>12, <1>13, <1>14, <1>15, <1>16, <1>17, <1>18, <1>19, <1>20, <1>21,
    <1>22, <1>23, <1>24, <1>25, <1>26, <1>27

\* The same with a failed journal.
LEMMA SubmitInterruptFails ==
  ASSUME Failed, SubmitInterrupt
  PROVE  Failed'
<1> USE DEF Failed, Steady, Typed
<1>1. /\ UNCHANGED <<phase, step, slot, queue, disk, journal, commit, after, deferred, failing,
                        active, spent, tools, shutdown, error, ended, unanswered, nextText>>
      /\ call = "none" /\ shutdown = "open" /\ call' = "submit"
      /\ pending' \in Seq(Inputs) /\ returned' \in Seq(Texts)
      /\ preparing' \in Preparations /\ ((preparing' = NoPreparation) <=> (preparing = NoPreparation))
         /\ (preparing'.text = 0 => preparing' = NoPreparation)
      /\ starting' \in Starts /\ starting'.step = starting.step
      /\ ((starting' = NoStart) <=> (starting = NoStart)) /\ (starting # NoStart => starting'.cancelled)
      /\ compaction' \in Summaries /\ ((compaction' = NoCompaction) <=> (compaction = NoCompaction))
      /\ compaction = NoCompaction => compaction'.continuation = "none"
      /\ compaction # NoCompaction => compaction'.continuation = "cancelled"
      /\ compaction'.phase = compaction.phase /\ compaction'.step = compaction.step
         /\ compaction'.requested = compaction.requested
  <2>1. /\ call = "none" /\ shutdown = "open" /\ call' = "submit" /\ pending' = Interrupting
        /\ returned' = returned \o TextsOf(pending)
    BY DEF SubmitInterrupt
  <2>2. /\ starting' \in Starts /\ starting'.step = starting.step
        /\ (starting' = NoStart) <=> (starting = NoStart)
        /\ starting # NoStart => starting'.cancelled
        /\ compaction' \in Summaries /\ ((compaction' = NoCompaction) <=> (compaction = NoCompaction))
        /\ compaction = NoCompaction => compaction'.continuation = "none"
        /\ compaction # NoCompaction => compaction'.continuation = "cancelled"
        /\ compaction'.phase = compaction.phase /\ compaction'.step = compaction.step
        /\ compaction'.requested = compaction.requested
    <3>1. /\ starting \in Starts /\ compaction \in Summaries
          /\ starting.step = NoStep => starting = NoStart
          /\ CancelStarts /\ CancelContinuation
      BY DEF OwnerTyped, SubmitInterrupt
    <3> QED BY <3>1, CancelIs
  <2>3. pending' \in Seq(Inputs) /\ returned' \in Seq(Texts)
    BY <2>1, InterruptingIs, GivenBack DEF InputTyped
  <2>4. /\ preparing' \in Preparations /\ ((preparing' = NoPreparation) <=> (preparing = NoPreparation))
        /\ preparing'.text = 0 => preparing' = NoPreparation
    <3>1. CASE preparing = NoPreparation
      BY <3>1, RestTyped DEF SubmitInterrupt
    <3>2. CASE preparing # NoPreparation
      <4>1. preparing' = [preparing EXCEPT !.cancelled = TRUE] /\ preparing.text # 0
        BY <3>2 DEF SubmitInterrupt, InputTyped
      <4>2. preparing' \in Preparations /\ preparing'.text = preparing.text
        BY <4>1 DEF InputTyped, Preparations
      <4> QED BY <3>2, <4>1, <4>2, Nones
    <3> QED BY <3>1, <3>2
  <2> QED
    BY <2>1, <2>2, <2>3, <2>4
    DEF SubmitInterrupt, agentVars, exitVars
<1>2. /\ Len(pending') = Len(Kept(pending, ResultInputs)) + 1
      /\ Len(Kept(pending', ResultInputs)) = Len(Kept(pending, ResultInputs))
      /\ Len(Kept(pending', TextInputs)) = 0 /\ InterruptPending'
      /\ \A c \in Calls : Len(Kept(pending', {Finished(c)})) = Len(Kept(pending, {Finished(c)}))
      /\ \A i, j \in DOMAIN pending' :
           i < j /\ pending'[i] = Interrupted => pending'[j] \notin ResultInputs
  BY InterruptingIs DEF SubmitInterrupt, InputTyped
<1>10. AgentTyped' /\ FileTyped' /\ AgentInv'
  BY <1>1 DEF AgentTyped, FileTyped, Thens, AgentInv, Unsettled
<1>11. InputTyped'
  BY <1>1, Nones DEF InputTyped
<1>12. OwnerTyped'
  BY <1>1, Nones DEF OwnerTyped
<1>13. CallTyped'
  BY <1>1, Nones DEF CallTyped
<1>14. CallInv'
  BY <1>1, Nones DEF CallInv
<1>15. QueueInv'
  <2>1. /\ step[1] \in Nat /\ Len(queue) \in Nat /\ nextText \in Nat
        /\ Len(Kept(pending, TextInputs)) \in Nat
    BY TurnLeft DEF Steady, Typed
  <2>2. Len(Kept(pending, ResultInputs)) \in Nat /\ Capacity \in Nat
    BY CountTyped, BoundsTyped DEF InputTyped
  <2>3. Len(pending') <= Capacity + 1 /\ Len(pending') <= Capacity + 2
        /\ Len(Kept(pending', ResultInputs)) <= Capacity
    BY <1>2, <2>2 DEF QueueInv
  <2>4. step[1] + Len(queue) + Len(Kept(pending', TextInputs))
          + (IF preparing' = NoPreparation THEN 0 ELSE 1) < nextText
    <3>1. step[1] + Len(queue) + Len(Kept(pending, TextInputs))
            + (IF preparing = NoPreparation THEN 0 ELSE 1) < nextText
      BY DEF QueueInv
    <3> QED BY <1>1, <1>2, <2>1, <3>1
  <2>5. \A c \in Calls : Copies(Finished(c))' <= 1
    BY <1>2 DEF QueueInv, Copies
  <2> QED BY <1>1, <1>2, <2>3, <2>4, <2>5 DEF QueueInv
<1>16. DurableInv'
  BY <1>1, Nones DEF DurableInv
<1>17. SettledInv'
  BY <1>1, Nones DEF SettledInv
<1>18. EndInv'
  BY <1>1, Nones DEF EndInv, ToolsBusy
<1> QED
  BY <1>1, <1>10, <1>11, <1>12, <1>13, <1>14, <1>15, <1>16, <1>17, <1>18

\* A shutdown is asked for, or asked for again: it cancels what was not dispatched.
LEMMA ShutdownKeeps ==
  ASSUME Alive, Shutdown
  PROVE  Alive'
<1> USE DEF Alive, Lives, Steady, Typed, LiveInv
<1>1. /\ UNCHANGED <<phase, step, slot, queue, disk, journal, commit, after, deferred, failing,
                        active, spent, tools, error, ended, unanswered, nextText>>
      /\ call = "none" /\ ended = "no" /\ call' = "shutdown" /\ preparing' = NoPreparation
      /\ shutdown' \in {"requested", "settling"} /\ (shutdown' = "settling" => shutdown = "settling")
      /\ Fewer /\ returned' \in Seq(Texts)
      /\ \A i \in DOMAIN pending' : pending'[i] \notin SkillInputs
      /\ compaction.requested => \A i \in DOMAIN pending' : pending'[i] \notin TextInputs
      /\ starting' \in Starts /\ starting'.step = starting.step
      /\ ((starting' = NoStart) <=> (starting = NoStart)) /\ (starting # NoStart => starting'.cancelled)
      /\ compaction' \in Summaries /\ ((compaction' = NoCompaction) <=> (compaction = NoCompaction))
      /\ compaction = NoCompaction => compaction'.continuation = "none"
      /\ compaction # NoCompaction => compaction'.continuation = "cancelled"
      /\ compaction'.phase = compaction.phase /\ compaction'.step = compaction.step
         /\ compaction'.requested = compaction.requested
  <2>1. /\ call = "none" /\ ended = "no" /\ call' = "shutdown" /\ preparing' = NoPreparation
        /\ shutdown' = IF shutdown = "open" THEN "requested" ELSE shutdown
        /\ returned' = returned \o PreparedText \o SkillTextsPending
                         \o (IF compaction.requested THEN TextsOf(OthersPending) ELSE <<>>)
        /\ pending' = Kept(pending, IF compaction.requested THEN Inputs \ TextInputs
                                                             ELSE Inputs \ SkillInputs)
    BY DEF Shutdown, ShutdownCallable, RequestedCompactionActive, Controls, OthersPending
  <2>2. /\ starting' \in Starts /\ starting'.step = starting.step
        /\ (starting' = NoStart) <=> (starting = NoStart)
        /\ starting # NoStart => starting'.cancelled
        /\ compaction' \in Summaries /\ ((compaction' = NoCompaction) <=> (compaction = NoCompaction))
        /\ compaction = NoCompaction => compaction'.continuation = "none"
        /\ compaction # NoCompaction => compaction'.continuation = "cancelled"
        /\ compaction'.phase = compaction.phase /\ compaction'.step = compaction.step
        /\ compaction'.requested = compaction.requested
    <3>1. /\ starting \in Starts /\ compaction \in Summaries
          /\ starting.step = NoStep => starting = NoStart
          /\ CancelStarts /\ CancelContinuation
      BY DEF OwnerTyped, Shutdown
    <3> QED BY <3>1, CancelIs
  <2>3. shutdown' \in {"requested", "settling"} /\ (shutdown' = "settling" => shutdown = "settling")
    BY <2>1 DEF CallTyped
  <2>4. returned' \in Seq(Texts)
    BY <2>1, GivenBack DEF InputTyped
  <2>5. Fewer
    BY <2>1, KeptFewer DEF InputTyped
  <2>6. \A i \in DOMAIN pending' : pending'[i] \in IF compaction.requested THEN Inputs \ TextInputs
                                                                        ELSE Inputs \ SkillInputs
    BY <2>1, KeptPlaces DEF InputTyped
  <2>7. /\ \A i \in DOMAIN pending' : pending'[i] \notin SkillInputs
        /\ compaction.requested => \A i \in DOMAIN pending' : pending'[i] \notin TextInputs
    BY <2>6, InputsApart
  <2> QED
    BY <2>1, <2>2, <2>3, <2>4, <2>5, <2>7
    DEF Shutdown, agentVars
<1>10. AgentTyped' /\ FileTyped' /\ AgentInv'
  BY <1>1 DEF AgentTyped, FileTyped, Thens, AgentInv, Unsettled
<1>11. CommitInv'
  BY <1>1 DEF CommitInv, Stopped
<1>12. InputTyped'
  BY <1>1, Nones, RestTyped DEF InputTyped, Fewer
<1>13. OwnerTyped'
  BY <1>1, Nones DEF OwnerTyped
<1>14. CallTyped'
  BY <1>1, Nones DEF CallTyped
<1>15. CallInv'
  BY <1>1, Nones DEF CallInv
<1>16. QueueInv'
  <2>1. /\ step[1] \in Nat /\ Len(queue) \in Nat /\ nextText \in Nat
        /\ Len(Kept(pending, TextInputs)) \in Nat /\ Len(Kept(pending', TextInputs)) \in Nat
        /\ Len(Kept(pending', TextInputs)) <= Len(Kept(pending, TextInputs))
    <3>1. pending' \in Seq(Inputs)
      BY <1>1 DEF Fewer
    <3>2. Len(Kept(pending', TextInputs)) \in Nat
      BY <3>1, CountTyped
    <3> QED BY <1>1, <3>2, TurnLeft DEF Fewer, Steady, Typed
  <2>2. step'[1] + Len(queue') + Len(Kept(pending', TextInputs))
          + (IF preparing' = NoPreparation THEN 0 ELSE 1) < nextText'
    <3>1. step[1] + Len(queue) + Len(Kept(pending, TextInputs))
            + (IF preparing = NoPreparation THEN 0 ELSE 1) < nextText
      BY DEF QueueInv
    <3> QED BY <1>1, <2>1, <3>1
  <2> QED BY <1>1, <2>2, FewerKeeps DEF Steady, Typed
<1>17. DurableInv'
  BY <1>1, Nones DEF DurableInv
<1>18. SettledInv'
  BY <1>1, Nones DEF SettledInv
<1>19. EndInv'
  BY <1>1, Nones DEF EndInv, ToolsBusy
<1>20. DueInv'
  BY <1>1, Nones DEF DueInv, Due, StopDue, Stopped
<1>21. SoloInv'
  BY <1>1, Nones DEF SoloInv, Due, StopDue, Streams, ToolsBusy
<1>22. ToolInv'
  <2>1. \A c \in Calls : /\ Len(Kept(pending, {Finished(c)})) \in Nat
                         /\ Len(Kept(pending', {Finished(c)})) \in Nat
                         /\ Len(Kept(pending', {Finished(c)})) <= Len(Kept(pending, {Finished(c)}))
    <3>1. pending' \in Seq(Inputs)
      BY <1>1 DEF Fewer
    <3> QED BY <1>1, <3>1, CountTyped DEF Fewer, InputTyped
  <2> SUFFICES ASSUME NEW c \in Calls
               PROVE  /\ tools[c] = "admission" => StopDue \/ slot[c] = "admission"
                      /\ tools[c] = "execution" => StopDue \/ slot[c] = "running"
                      /\ Len(Kept(pending', {Finished(c)})) > 0 =>
                           slot[c] = "running" /\ tools[c] = "none" /\ c \notin commit.reaction.calls
    BY <1>1 DEF ToolInv, Copies, StopDue, Due
  <2>2. Len(Kept(pending', {Finished(c)})) > 0 => Len(Kept(pending, {Finished(c)})) > 0
    BY <2>1
  <2> QED BY <2>2 DEF ToolInv, Copies
<1>23. EffectInv'
  BY <1>1, Nones DEF EffectInv, ToolsBusy
<1>24. SummaryInv'
  BY <1>1, Nones DEF SummaryInv, Due, StopDue, Streams
<1>25. AttemptInv'
  BY <1>1, Nones DEF AttemptInv, Due, NextDisk
<1>26. OwnInv'
  BY <1>1, Nones DEF OwnInv, InterruptPending, Copies
<1>27. ClosingInv'
  BY <1>1, Nones DEF ClosingInv, Due, StopDue, Fewer
<1> QED
  BY <1>1, <1>10, <1>11, <1>12, <1>13, <1>14, <1>15, <1>16, <1>17, <1>18, <1>19, <1>20, <1>21,
    <1>22, <1>23, <1>24, <1>25, <1>26, <1>27

\* The same with a failed journal.
LEMMA ShutdownFails ==
  ASSUME Failed, Shutdown
  PROVE  Failed'
<1> USE DEF Failed, Steady, Typed
<1>1. /\ UNCHANGED <<phase, step, slot, queue, disk, journal, commit, after, deferred, failing,
                        active, spent, tools, error, ended, unanswered, nextText>>
      /\ call = "none" /\ ended = "no" /\ call' = "shutdown" /\ preparing' = NoPreparation
      /\ shutdown' \in {"requested", "settling"} /\ (shutdown' = "settling" => shutdown = "settling")
      /\ Fewer /\ returned' \in Seq(Texts)
      /\ \A i \in DOMAIN pending' : pending'[i] \notin SkillInputs
      /\ compaction.requested => \A i \in DOMAIN pending' : pending'[i] \notin TextInputs
      /\ starting' \in Starts /\ starting'.step = starting.step
      /\ ((starting' = NoStart) <=> (starting = NoStart)) /\ (starting # NoStart => starting'.cancelled)
      /\ compaction' \in Summaries /\ ((compaction' = NoCompaction) <=> (compaction = NoCompaction))
      /\ compaction = NoCompaction => compaction'.continuation = "none"
      /\ compaction # NoCompaction => compaction'.continuation = "cancelled"
      /\ compaction'.phase = compaction.phase /\ compaction'.step = compaction.step
         /\ compaction'.requested = compaction.requested
  <2>1. /\ call = "none" /\ ended = "no" /\ call' = "shutdown" /\ preparing' = NoPreparation
        /\ shutdown' = IF shutdown = "open" THEN "requested" ELSE shutdown
        /\ returned' = returned \o PreparedText \o SkillTextsPending
                         \o (IF compaction.requested THEN TextsOf(OthersPending) ELSE <<>>)
        /\ pending' = Kept(pending, IF compaction.requested THEN Inputs \ TextInputs
                                                             ELSE Inputs \ SkillInputs)
    BY DEF Shutdown, ShutdownCallable, RequestedCompactionActive, Controls, OthersPending
  <2>2. /\ starting' \in Starts /\ starting'.step = starting.step
        /\ (starting' = NoStart) <=> (starting = NoStart)
        /\ starting # NoStart => starting'.cancelled
        /\ compaction' \in Summaries /\ ((compaction' = NoCompaction) <=> (compaction = NoCompaction))
        /\ compaction = NoCompaction => compaction'.continuation = "none"
        /\ compaction # NoCompaction => compaction'.continuation = "cancelled"
        /\ compaction'.phase = compaction.phase /\ compaction'.step = compaction.step
        /\ compaction'.requested = compaction.requested
    <3>1. /\ starting \in Starts /\ compaction \in Summaries
          /\ starting.step = NoStep => starting = NoStart
          /\ CancelStarts /\ CancelContinuation
      BY DEF OwnerTyped, Shutdown
    <3> QED BY <3>1, CancelIs
  <2>3. shutdown' \in {"requested", "settling"} /\ (shutdown' = "settling" => shutdown = "settling")
    BY <2>1 DEF CallTyped
  <2>4. returned' \in Seq(Texts)
    BY <2>1, GivenBack DEF InputTyped
  <2>5. Fewer
    BY <2>1, KeptFewer DEF InputTyped
  <2>6. \A i \in DOMAIN pending' : pending'[i] \in IF compaction.requested THEN Inputs \ TextInputs
                                                                        ELSE Inputs \ SkillInputs
    BY <2>1, KeptPlaces DEF InputTyped
  <2>7. /\ \A i \in DOMAIN pending' : pending'[i] \notin SkillInputs
        /\ compaction.requested => \A i \in DOMAIN pending' : pending'[i] \notin TextInputs
    BY <2>6, InputsApart
  <2> QED
    BY <2>1, <2>2, <2>3, <2>4, <2>5, <2>7
    DEF Shutdown, agentVars
<1>10. AgentTyped' /\ FileTyped' /\ AgentInv'
  BY <1>1 DEF AgentTyped, FileTyped, Thens, AgentInv, Unsettled
<1>11. InputTyped'
  BY <1>1, Nones, RestTyped DEF InputTyped, Fewer
<1>12. OwnerTyped'
  BY <1>1, Nones DEF OwnerTyped
<1>13. CallTyped'
  BY <1>1, Nones DEF CallTyped
<1>14. CallInv'
  BY <1>1, Nones DEF CallInv
<1>15. QueueInv'
  <2>1. /\ step[1] \in Nat /\ Len(queue) \in Nat /\ nextText \in Nat
        /\ Len(Kept(pending, TextInputs)) \in Nat /\ Len(Kept(pending', TextInputs)) \in Nat
        /\ Len(Kept(pending', TextInputs)) <= Len(Kept(pending, TextInputs))
    <3>1. pending' \in Seq(Inputs)
      BY <1>1 DEF Fewer
    <3>2. Len(Kept(pending', TextInputs)) \in Nat
      BY <3>1, CountTyped
    <3> QED BY <1>1, <3>2, TurnLeft DEF Fewer, Steady, Typed
  <2>2. step'[1] + Len(queue') + Len(Kept(pending', TextInputs))
          + (IF preparing' = NoPreparation THEN 0 ELSE 1) < nextText'
    <3>1. step[1] + Len(queue) + Len(Kept(pending, TextInputs))
            + (IF preparing = NoPreparation THEN 0 ELSE 1) < nextText
      BY DEF QueueInv
    <3> QED BY <1>1, <2>1, <3>1
  <2> QED BY <1>1, <2>2, FewerKeeps DEF Steady, Typed
<1>16. DurableInv'
  BY <1>1, Nones DEF DurableInv
<1>17. SettledInv'
  BY <1>1, Nones DEF SettledInv
<1>18. EndInv'
  BY <1>1, Nones DEF EndInv, ToolsBusy
<1> QED
  BY <1>1, <1>10, <1>11, <1>12, <1>13, <1>14, <1>15, <1>16, <1>17, <1>18

\* A call other than shutdown returns its error, and the runtime keeps what it has.
LEMMA ReturnErrorKeeps ==
  ASSUME Alive, ReturnError, call # "shutdown"
  PROVE  Alive'
<1> USE DEF Alive, Lives, Steady, Typed, LiveInv
<1>1. /\ UNCHANGED <<phase, step, slot, queue, disk, journal, commit, after, pending, preparing,
                        starting, deferred, failing, active, compaction, spent, tools, shutdown,
                        ended, unanswered, returned, nextText>>
      /\ call # "none" /\ error # "none" /\ call' = "none" /\ error' = "none" /\ commit = NoCommit
  <2>1. call # "none" /\ error # "none" /\ call' = "none" /\ error' = "none" /\ commit = NoCommit
    BY DEF ReturnError, CallInv
  <2> QED
    BY <2>1 DEF ReturnError, agentVars, ownerVars, inputVars, userVars, exitVars
<1>10. AgentTyped' /\ FileTyped' /\ InputTyped' /\ OwnerTyped' /\ AgentInv'
  BY <1>1 DEF AgentTyped, FileTyped, Thens, InputTyped, OwnerTyped, AgentInv, Unsettled
<1>11. QueueInv'
  BY <1>1 DEF QueueInv, Copies
<1>12. DurableInv' /\ EndInv' /\ CommitInv'
  BY <1>1 DEF DurableInv, EndInv, ToolsBusy, CommitInv, Stopped
<1>13. SoloInv' /\ ToolInv' /\ EffectInv'
  BY <1>1 DEF SoloInv, Due, StopDue, Streams, ToolsBusy, ToolInv, Copies, EffectInv
<1>14. SummaryInv' /\ AttemptInv' /\ OwnInv'
  BY <1>1 DEF SummaryInv, Due, StopDue, Streams, AttemptInv, NextDisk, OwnInv, InterruptPending,
    Copies
<1>15. ClosingInv'
  BY <1>1 DEF ClosingInv, Due, StopDue
<1>16. CallTyped'
  BY <1>1, Nones DEF CallTyped
<1>17. CallInv'
  BY <1>1, Nones DEF CallInv
<1>18. SettledInv'
  BY <1>1, Nones DEF SettledInv
<1>19. DueInv'
  BY <1>1, Nones DEF DueInv, Due, StopDue, Stopped
<1> QED
  BY <1>1, <1>10, <1>11, <1>12, <1>13, <1>14, <1>15, <1>16, <1>17, <1>18, <1>19

\* A shutdown returns its error: whatever is under way is joined and dropped.
LEMMA ReturnErrorEnds ==
  ASSUME Alive, ReturnError, call = "shutdown"
  PROVE  Steady'
<1> USE DEF Alive, Lives, Steady, Typed, LiveInv
<1>1. /\ UNCHANGED <<phase, step, slot, queue, disk, journal, commit, spent, unanswered,
                        nextText>>
      /\ call' = "none" /\ error' = "none" /\ commit = NoCommit
      /\ Fewer /\ returned' \in Seq(Texts) /\ \A i \in DOMAIN pending' : pending'[i] \notin SkillInputs
      /\ preparing' = NoPreparation /\ starting' = NoStart /\ deferred' = NoStep /\ failing' = NoStep
         /\ after' = "none" /\ active' = NoModel /\ compaction' = NoCompaction
      /\ tools' = [c \in Calls |-> "none"]
      /\ shutdown' \in {"open", "requested", "settling"} /\ ended' \in {"no", "failed"}
      /\ (shutdown' # "open" => shutdown # "open") /\ (ended' # "no" => shutdown' = "settling")
  <2>1. /\ call' = "none" /\ error' = "none" /\ commit = NoCommit /\ call # "none"
        /\ FinishFailedOwners
        /\ shutdown' = IF call = "shutdown" THEN "settling" ELSE shutdown
        /\ ended' = IF call = "shutdown" THEN "failed" ELSE ended
        /\ UNCHANGED commit
    BY DEF ReturnError, CallInv, Settled, Driving
  <2>2. \E A : pending' = Kept(pending, A) /\ \A e \in A : e \notin SkillInputs
    BY DEF ReturnError, OthersPending
  <2>3. returned' \in Seq(Texts)
    BY GivenBack DEF ReturnError, InputTyped
  <2>4. Fewer /\ \A i \in DOMAIN pending' : pending'[i] \notin SkillInputs
    BY <2>2, KeptFewer, KeptPlaces DEF InputTyped
  <2>5. /\ shutdown' \in {"open", "requested", "settling"} /\ ended' \in {"no", "failed"}
        /\ shutdown' # "open" => shutdown # "open"
        /\ ended' # "no" => shutdown' = "settling"
    BY <2>1 DEF CallInv, CallTyped
  <2> QED
    BY <2>1, <2>3, <2>4, <2>5 DEF FinishFailedOwners, agentVars
<1>10. AgentTyped' /\ AgentInv'
  BY <1>1 DEF AgentTyped, AgentInv, Unsettled
<1>11. FileTyped'
  BY <1>1, Nones DEF FileTyped, Thens
<1>12. InputTyped'
  BY <1>1, Nones, RestTyped DEF InputTyped, Fewer
<1>13. OwnerTyped'
  BY <1>1, Nones, RestTyped, RestingTyped, StepsTyped DEF OwnerTyped
<1>14. CallTyped'
  BY <1>1, Nones DEF CallTyped
<1>15. CallInv'
  BY <1>1, Nones DEF CallInv
<1>16. QueueInv'
  <2>1. /\ step[1] \in Nat /\ Len(queue) \in Nat /\ nextText \in Nat
        /\ Len(Kept(pending, TextInputs)) \in Nat /\ Len(Kept(pending', TextInputs)) \in Nat
        /\ Len(Kept(pending', TextInputs)) <= Len(Kept(pending, TextInputs))
    <3>1. pending' \in Seq(Inputs)
      BY <1>1 DEF Fewer
    <3>2. Len(Kept(pending', TextInputs)) \in Nat
      BY <3>1, CountTyped
    <3> QED BY <1>1, <3>2, TurnLeft DEF Fewer, Steady, Typed
  <2>2. step'[1] + Len(queue') + Len(Kept(pending', TextInputs))
          + (IF preparing' = NoPreparation THEN 0 ELSE 1) < nextText'
    <3>1. step[1] + Len(queue) + Len(Kept(pending, TextInputs))
            + (IF preparing = NoPreparation THEN 0 ELSE 1) < nextText
      BY DEF QueueInv
    <3> QED BY <1>1, <2>1, <3>1
  <2> QED BY <1>1, <2>2, FewerKeeps DEF Steady, Typed
<1>17. DurableInv'
  BY <1>1, Nones DEF DurableInv
<1>18. SettledInv'
  BY <1>1, Nones DEF SettledInv
<1>19. EndInv'
  BY <1>1, Nones DEF EndInv, ToolsBusy
<1> QED
  BY <1>1, <1>10, <1>11, <1>12, <1>13, <1>14, <1>15, <1>16, <1>17, <1>18, <1>19

\* With a failed journal every call does.
LEMMA ReturnErrorFails ==
  ASSUME Failed, ReturnError
  PROVE  Steady'
<1> USE DEF Failed, Steady, Typed
<1>1. /\ UNCHANGED <<phase, step, slot, queue, disk, journal, commit, spent, unanswered,
                        nextText>>
      /\ call' = "none" /\ error' = "none" /\ commit = NoCommit
      /\ Fewer /\ returned' \in Seq(Texts) /\ \A i \in DOMAIN pending' : pending'[i] \notin SkillInputs
      /\ preparing' = NoPreparation /\ starting' = NoStart /\ deferred' = NoStep /\ failing' = NoStep
         /\ after' = "none" /\ active' = NoModel /\ compaction' = NoCompaction
      /\ tools' = [c \in Calls |-> "none"]
      /\ shutdown' \in {"open", "requested", "settling"} /\ ended' \in {"no", "failed"}
      /\ (shutdown' # "open" => shutdown # "open") /\ (ended' # "no" => shutdown' = "settling")
  <2>1. /\ call' = "none" /\ error' = "none" /\ commit = NoCommit /\ call # "none"
        /\ FinishFailedOwners
        /\ shutdown' = IF call = "shutdown" THEN "settling" ELSE shutdown
        /\ ended' = IF call = "shutdown" THEN "failed" ELSE ended
        /\ UNCHANGED commit
    BY DEF ReturnError, CallInv, Settled, Driving
  <2>2. \E A : pending' = Kept(pending, A) /\ \A e \in A : e \notin SkillInputs
    BY DEF ReturnError, OthersPending
  <2>3. returned' \in Seq(Texts)
    BY GivenBack DEF ReturnError, InputTyped
  <2>4. Fewer /\ \A i \in DOMAIN pending' : pending'[i] \notin SkillInputs
    BY <2>2, KeptFewer, KeptPlaces DEF InputTyped
  <2>5. /\ shutdown' \in {"open", "requested", "settling"} /\ ended' \in {"no", "failed"}
        /\ shutdown' # "open" => shutdown # "open"
        /\ ended' # "no" => shutdown' = "settling"
    BY <2>1 DEF CallInv, CallTyped
  <2> QED
    BY <2>1, <2>3, <2>4, <2>5 DEF FinishFailedOwners, agentVars
<1>10. AgentTyped' /\ AgentInv'
  BY <1>1 DEF AgentTyped, AgentInv, Unsettled
<1>11. FileTyped'
  BY <1>1, Nones DEF FileTyped, Thens
<1>12. InputTyped'
  BY <1>1, Nones, RestTyped DEF InputTyped, Fewer
<1>13. OwnerTyped'
  BY <1>1, Nones, RestTyped, RestingTyped, StepsTyped DEF OwnerTyped
<1>14. CallTyped'
  BY <1>1, Nones DEF CallTyped
<1>15. CallInv'
  BY <1>1, Nones DEF CallInv
<1>16. QueueInv'
  <2>1. /\ step[1] \in Nat /\ Len(queue) \in Nat /\ nextText \in Nat
        /\ Len(Kept(pending, TextInputs)) \in Nat /\ Len(Kept(pending', TextInputs)) \in Nat
        /\ Len(Kept(pending', TextInputs)) <= Len(Kept(pending, TextInputs))
    <3>1. pending' \in Seq(Inputs)
      BY <1>1 DEF Fewer
    <3>2. Len(Kept(pending', TextInputs)) \in Nat
      BY <3>1, CountTyped
    <3> QED BY <1>1, <3>2, TurnLeft DEF Fewer, Steady, Typed
  <2>2. step'[1] + Len(queue') + Len(Kept(pending', TextInputs))
          + (IF preparing' = NoPreparation THEN 0 ELSE 1) < nextText'
    <3>1. step[1] + Len(queue) + Len(Kept(pending, TextInputs))
            + (IF preparing = NoPreparation THEN 0 ELSE 1) < nextText
      BY DEF QueueInv
    <3> QED BY <1>1, <2>1, <3>1
  <2> QED BY <1>1, <2>2, FewerKeeps DEF Steady, Typed
<1>17. DurableInv'
  BY <1>1, Nones DEF DurableInv
<1>18. SettledInv'
  BY <1>1, Nones DEF SettledInv
<1>19. EndInv'
  BY <1>1, Nones DEF EndInv, ToolsBusy
<1> QED
  BY <1>1, <1>10, <1>11, <1>12, <1>13, <1>14, <1>15, <1>16, <1>17, <1>18, <1>19

\* A call finds the journal failed, and the inputs of its failed commit handed back.
LEMMA ReturnFailedFails ==
  ASSUME Failed, ReturnFailed
  PROVE  Steady'
<1> USE DEF Failed, Steady, Typed
<1>1. /\ UNCHANGED <<phase, step, slot, queue, disk, journal, commit, spent, unanswered,
                        nextText>>
      /\ call' = "none" /\ error' = "none" /\ commit = NoCommit
      /\ Fewer /\ returned' \in Seq(Texts) /\ \A i \in DOMAIN pending' : pending'[i] \notin SkillInputs
      /\ preparing' = NoPreparation /\ starting' = NoStart /\ deferred' = NoStep /\ failing' = NoStep
         /\ after' = "none" /\ active' = NoModel /\ compaction' = NoCompaction
      /\ tools' = [c \in Calls |-> "none"]
      /\ shutdown' \in {"open", "requested", "settling"} /\ ended' \in {"no", "failed"}
      /\ (shutdown' # "open" => shutdown # "open") /\ (ended' # "no" => shutdown' = "settling")
  <2>1. /\ call' = "none" /\ error' = "none" /\ commit = NoCommit /\ call # "none"
        /\ FinishFailedOwners
        /\ shutdown' = IF call = "shutdown" THEN "settling" ELSE shutdown
        /\ ended' = IF call = "shutdown" THEN "failed" ELSE ended
        /\ UNCHANGED commit
    BY DEF ReturnFailed, CallInv, Settled, Driving
  <2>2. \E A : pending' = Kept(pending, A) /\ \A e \in A : e \notin SkillInputs
    <3>1. CASE preparing = NoPreparation
      <4>1. Inputs \cap {} = {}
        OBVIOUS
      <4>2. Kept(pending, {}) = <<>>
        BY <4>1, KeptNone DEF InputTyped
      <4>3. pending' = Kept(pending, {})
        BY <3>1, <4>2 DEF ReturnFailed
      <4> QED BY <4>3
    <3>2. CASE preparing # NoPreparation
      BY <3>2 DEF ReturnFailed, OthersPending
    <3> QED BY <3>1, <3>2
  <2>3. returned' \in Seq(Texts)
    BY GivenBack DEF ReturnFailed, InputTyped
  <2>4. Fewer /\ \A i \in DOMAIN pending' : pending'[i] \notin SkillInputs
    BY <2>2, KeptFewer, KeptPlaces DEF InputTyped
  <2>5. /\ shutdown' \in {"open", "requested", "settling"} /\ ended' \in {"no", "failed"}
        /\ shutdown' # "open" => shutdown # "open"
        /\ ended' # "no" => shutdown' = "settling"
    BY <2>1 DEF CallInv, CallTyped
  <2> QED
    BY <2>1, <2>3, <2>4, <2>5 DEF FinishFailedOwners, agentVars
<1>10. AgentTyped' /\ AgentInv'
  BY <1>1 DEF AgentTyped, AgentInv, Unsettled
<1>11. FileTyped'
  BY <1>1, Nones DEF FileTyped, Thens
<1>12. InputTyped'
  BY <1>1, Nones, RestTyped DEF InputTyped, Fewer
<1>13. OwnerTyped'
  BY <1>1, Nones, RestTyped, RestingTyped, StepsTyped DEF OwnerTyped
<1>14. CallTyped'
  BY <1>1, Nones DEF CallTyped
<1>15. CallInv'
  BY <1>1, Nones DEF CallInv
<1>16. QueueInv'
  <2>1. /\ step[1] \in Nat /\ Len(queue) \in Nat /\ nextText \in Nat
        /\ Len(Kept(pending, TextInputs)) \in Nat /\ Len(Kept(pending', TextInputs)) \in Nat
        /\ Len(Kept(pending', TextInputs)) <= Len(Kept(pending, TextInputs))
    <3>1. pending' \in Seq(Inputs)
      BY <1>1 DEF Fewer
    <3>2. Len(Kept(pending', TextInputs)) \in Nat
      BY <3>1, CountTyped
    <3> QED BY <1>1, <3>2, TurnLeft DEF Fewer, Steady, Typed
  <2>2. step'[1] + Len(queue') + Len(Kept(pending', TextInputs))
          + (IF preparing' = NoPreparation THEN 0 ELSE 1) < nextText'
    <3>1. step[1] + Len(queue) + Len(Kept(pending, TextInputs))
            + (IF preparing = NoPreparation THEN 0 ELSE 1) < nextText
      BY DEF QueueInv
    <3> QED BY <1>1, <2>1, <3>1
  <2> QED BY <1>1, <2>2, FewerKeeps DEF Steady, Typed
<1>17. DurableInv'
  BY <1>1, Nones DEF DurableInv
<1>18. SettledInv'
  BY <1>1, Nones DEF SettledInv
<1>19. EndInv'
  BY <1>1, Nones DEF EndInv, ToolsBusy
<1> QED
  BY <1>1, <1>10, <1>11, <1>12, <1>13, <1>14, <1>15, <1>16, <1>17, <1>18, <1>19

\* A request that is over is released with a failed journal too.
LEMMA ReleaseModelFails ==
  ASSUME Failed, ReleaseModel
  PROVE  Failed'
<1> USE DEF Failed, Steady, Typed
<1>1. /\ UNCHANGED <<phase, step, slot, queue, disk, journal, commit, pending, preparing,
                        starting, deferred, failing, compaction, spent, tools, shutdown, call,
                        ended, unanswered, returned, nextText>>
      /\ call # "none" /\ commit = NoCommit /\ active' = NoModel /\ error' \in {"none", "provider"}
      /\ after' = after \/ after' = "none"
  BY DEF ReleaseModel, agentVars, inputVars, userVars, exitVars
<1>10. AgentTyped' /\ InputTyped' /\ AgentInv'
  BY <1>1 DEF AgentTyped, InputTyped, AgentInv, Unsettled
<1>11. QueueInv'
  BY <1>1 DEF QueueInv, Copies
<1>12. FileTyped'
  BY <1>1, Nones DEF FileTyped, Thens
<1>13. OwnerTyped'
  BY <1>1, Nones, RestTyped DEF OwnerTyped
<1>14. CallTyped'
  BY <1>1, Nones DEF CallTyped
<1>15. CallInv'
  BY <1>1, Nones DEF CallInv
<1>16. DurableInv'
  BY <1>1, Nones DEF DurableInv
<1>17. SettledInv'
  BY <1>1, Nones DEF SettledInv
<1>18. EndInv'
  BY <1>1, Nones DEF EndInv, ToolsBusy
<1> QED
  BY <1>1, <1>10, <1>11, <1>12, <1>13, <1>14, <1>15, <1>16, <1>17, <1>18


-----------------------------------------------------------------------------
(* The invariant holds in every state.                                      *)

\* At the start nothing is under way and nothing waits.
LEMMA InitInv ==
  ASSUME Init
  PROVE  IInv
<1> USE DEF Init
<1>1. <<>> \in Seq(Texts)
  OBVIOUS
<1>2. <<>> \in Seq(Inputs)
  OBVIOUS
<1>3. \A A : Kept(pending, A) = <<>>
  BY KeptEmpty
<1>4. AgentTyped /\ FileTyped /\ InputTyped
  BY <1>1, <1>2, NoCommitTyped, RestTyped, StepsTyped, BoundsTyped
  DEF AgentTyped, FileTyped, InputTyped, Phases, Thens
<1>5. OwnerTyped
  BY RestTyped, RestingTyped, StepsTyped, BoundsTyped DEF OwnerTyped, Budgets
<1>6. CallTyped
  BY DEF CallTyped
<1>7. CallInv /\ AgentInv
  BY DEF CallInv, AgentInv, Unsettled, NoStep
<1>8. QueueInv
  BY <1>3, BoundsTyped DEF QueueInv, Copies, NoStep
<1>9. DurableInv /\ SettledInv /\ EndInv
  BY RestTyped, RestingTyped DEF DurableInv, SettledInv, EndInv
<1>10. DueInv /\ CommitInv /\ SoloInv
  BY RestTyped, RestingTyped, NoCommitTyped
  DEF DueInv, CommitInv, SoloInv, Due, StopDue, Stopped, ToolsBusy, Streams
<1>11. ToolInv /\ EffectInv
  BY <1>3, NoCommitTyped, NothingTyped DEF ToolInv, EffectInv, Copies
<1>12. SummaryInv /\ OwnInv /\ ClosingInv
  BY RestTyped, RestingTyped DEF SummaryInv, OwnInv, ClosingInv
<1>13. AttemptInv
  BY NoCommitTyped, RestTyped, NothingTyped DEF AttemptInv, NextDisk, Due
<1> QED
  BY <1>4, <1>5, <1>6, <1>7, <1>8, <1>9, <1>10, <1>11, <1>12, <1>13
  DEF IInv, Steady, Typed, LiveInv

\* A race the runtime answers with an internal error: a request that is refused for its context
\* once it has been joined. Nothing below holds past that answer.
LEMMA AliveStep ==
  ASSUME Alive, Next, "late_overflow" \notin Races
  PROVE  IInv'
<1>1. Alive' => IInv'
  BY DEF Alive, IInv
<1>2. Failed' => IInv'
  BY DEF Failed, IInv, Lives
<1>3. CASE FinishCommit
  BY <1>1, <1>2, <1>3, FinishCommitKeeps
<1>4. CASE StartModel \/ StartCompaction \/ RecoverContext \/ DeliverCompletion \/ ReleaseModel
  BY <1>1, <1>4, StartModelKeeps, StartCompactionKeeps, RecoverContextKeeps,
     DeliverCompletionKeeps, ReleaseModelKeeps
<1>5. CASE RouteDeferred \/ FinishStop \/ FinishCompaction \/ PublishCompaction \/ FailCompaction
  BY <1>1, <1>5, RouteDeferredKeeps, FinishStopKeeps, FinishCompactionKeeps,
     PublishCompactionKeeps, FailCompactionKeeps
<1>6. CASE CompleteCompactionFailure \/ TakeInput
  BY <1>1, <1>6, CompleteCompactionFailureKeeps, TakeInputKeeps
<1>7. CASE SettleShutdown
  BY <1>1, <1>7, SettleShutdownIdleKeeps, SettleShutdownKeeps
<1>8. CASE FinishShutdown
  <2>1. ended' = "clean"
    BY <1>8 DEF FinishShutdown
  <2> QED BY <2>1, <1>8, FinishShutdownEnds DEF IInv, Lives
<1>9. CASE ReturnError
  <2>1. CASE call # "shutdown"
    BY <1>1, <1>9, <2>1, ReturnErrorKeeps
  <2>2. CASE call = "shutdown"
    <3>1. ended' = "failed"
      BY <1>9, <2>2 DEF ReturnError
    <3> QED BY <1>9, <2>2, <3>1, ReturnErrorEnds DEF IInv, Lives
  <2> QED BY <2>1, <2>2
<1>10. CASE ReturnFailed
  BY <1>10 DEF ReturnFailed, Alive, Lives
<1>11. CASE Joins
  BY <1>1, <1>11, JoinModelKeeps, JoinCompactionKeeps DEF Joins
<1>12. CASE Answers
  BY <1>1, <1>12, CompactionEndsKeeps, ModelEndsKeeps, ToolResolvesKeeps DEF Answers
<1>13. CASE \E found \in BOOLEAN : SkillLoaded(found)
  BY <1>1, <1>13, SkillReadKeeps, SkillGoneKeeps
<1>14. CASE Writes
  BY <1>1, <1>14, WriterAppendsKeeps DEF Writes
<1>15. CASE Submit
  BY <1>1, <1>15, SubmitTakenKeeps, SubmitReturnedKeeps
<1>16. CASE SubmitInterrupt \/ NextUpdate \/ RequestCompaction \/ Shutdown
  BY <1>1, <1>16, SubmitInterruptKeeps, NextUpdateKeeps, RequestCompactionKeeps, ShutdownKeeps
<1>17. CASE Drop \/ Return \/ BeginRequestedCompaction
  BY <1>1, <1>17, DropKeeps, ReturnKeeps, BeginRequestedCompactionKeeps
<1> QED
  BY <1>3, <1>4, <1>5, <1>6, <1>7, <1>8, <1>9, <1>10, <1>11, <1>12, <1>13, <1>14, <1>15, <1>16,
     <1>17
  DEF Next, Drives, Arrivals, Entries

\* With a failed journal only what needs no commit is left.
LEMMA FailedSteps ==
  ASSUME Failed, Next
  PROVE  \/ ReleaseModel \/ ReturnError \/ ReturnFailed \/ Submit \/ SubmitInterrupt \/ NextUpdate
         \/ RequestCompaction \/ Shutdown \/ Drop
<1>1. journal # "open" /\ commit.written = "none"
  BY NoCommitTyped DEF Failed, Steady, CallInv
<1>2. ~After("none") /\ ~Stopping /\ ~Settling /\ ~Quiet /\ ~Waiting
  BY <1>1 DEF After, Uncommitted, Stopping, Settling, Quiet, Waiting
<1>3. ~FinishCommit /\ ~Writes
  BY <1>1 DEF FinishCommit, Writes, WriterAppends
<1>4. /\ ~StartModel /\ ~StartCompaction /\ ~RecoverContext /\ ~DeliverCompletion /\ ~RouteDeferred
      /\ ~FinishStop /\ ~FinishCompaction /\ ~PublishCompaction /\ ~FailCompaction
      /\ ~CompleteCompactionFailure /\ ~TakeInput /\ ~SettleShutdown /\ ~FinishShutdown
  BY <1>1, <1>2
  DEF StartModel, StartCompaction, RecoverContext, DeliverCompletion, RouteDeferred, FinishStop,
      FinishCompaction, PublishCompaction, FailCompaction, CompleteCompactionFailure, TakeInput,
      SettleShutdown, FinishShutdown, CanTake, Uncommitted, After
<1>5. ~Joins /\ ~Answers /\ ~(\E found \in BOOLEAN : SkillLoaded(found))
  BY <1>2 DEF Joins, JoinModel, JoinCompaction, Answers, CompactionEnds, ModelEnds, ToolResolves,
              SkillLoaded
<1>6. ~Return /\ ~BeginRequestedCompaction
  BY <1>2 DEF Return, BeginRequestedCompaction
<1> QED BY <1>3, <1>4, <1>5, <1>6 DEF Next, Drives, Arrivals, Entries

\* With a failed journal nothing comes alive again.
LEMMA FailedStep ==
  ASSUME Failed, Next
  PROVE  IInv'
<1>1. Failed' => IInv'
  BY DEF Failed, IInv, Lives
<1>2. journal' = journal => (Steady' => IInv')
  BY DEF Failed, IInv, Lives
<1>3. CASE ReleaseModel
  BY <1>1, <1>3, ReleaseModelFails
<1>4. CASE ReturnError
  <2>1. journal' = journal
    BY <1>4 DEF ReturnError, FinishFailedOwners
  <2> QED BY <1>2, <1>4, <2>1, ReturnErrorFails
<1>5. CASE ReturnFailed
  <2>1. journal' = journal
    BY <1>5 DEF ReturnFailed, FinishFailedOwners
  <2> QED BY <1>2, <1>5, <2>1, ReturnFailedFails
<1>6. CASE Submit
  BY <1>1, <1>6, SubmitTakenFails, SubmitReturnedFails
<1>7. CASE SubmitInterrupt \/ NextUpdate \/ RequestCompaction \/ Shutdown \/ Drop
  BY <1>1, <1>7, SubmitInterruptFails, NextUpdateFails, RequestCompactionFails, ShutdownFails,
     DropFails
<1> QED BY <1>3, <1>4, <1>5, <1>6, <1>7, FailedSteps

\* Once the shutdown has returned no entry point is called any more.
LEMMA EndedStops ==
  ASSUME Steady, ended # "no"
  PROVE  ~Next
<1>1. call = "none" /\ shutdown # "open" /\ commit.written = "none"
  BY NoCommitTyped DEF Steady, CallInv
<1>2. /\ ~FinishCommit /\ ~ReleaseModel /\ ~FinishStop /\ ~ReturnError /\ ~Writes /\ ~Drop
  BY <1>1 DEF FinishCommit, ReleaseModel, FinishStop, ReturnError, Writes, WriterAppends, Drop
<1>3. ~Driving
  BY <1>1 DEF Driving
<1>4. /\ ~StartModel /\ ~StartCompaction /\ ~RecoverContext /\ ~DeliverCompletion /\ ~RouteDeferred
      /\ ~FinishCompaction /\ ~PublishCompaction /\ ~FailCompaction
      /\ ~CompleteCompactionFailure /\ ~TakeInput /\ ~SettleShutdown /\ ~FinishShutdown
      /\ ~ReturnFailed
  BY <1>3
  DEF StartModel, StartCompaction, RecoverContext, DeliverCompletion, RouteDeferred,
      FinishCompaction, PublishCompaction, FailCompaction, CompleteCompactionFailure, TakeInput,
      SettleShutdown, FinishShutdown, ReturnFailed, Settling, Quiet, Settled, After
<1>5. ~Joins /\ ~Answers /\ ~(\E found \in BOOLEAN : SkillLoaded(found))
  BY <1>3 DEF Joins, JoinModel, JoinCompaction, Answers, CompactionEnds, ModelEnds, ToolResolves,
              SkillLoaded, Stopping, After, Waiting, Quiet, Settled
<1>6. /\ ~Return /\ ~BeginRequestedCompaction /\ ~Submit /\ ~SubmitInterrupt /\ ~NextUpdate
      /\ ~RequestCompaction /\ ~Shutdown
  BY <1>1, <1>3 DEF Return, BeginRequestedCompaction, Submit, SubmitInterrupt, NextUpdate,
                    RequestCompaction, Shutdown, ShutdownCallable, Quiet, Settled
<1> QED BY <1>2, <1>4, <1>5, <1>6 DEF Next, Drives, Arrivals, Entries

\* Nothing of the invariant changes where nothing changes.
LEMMA StutterKeeps ==
  ASSUME IInv, UNCHANGED vars
  PROVE  IInv'
<1> USE DEF vars
<1>1. Typed'
  BY DEF IInv, Steady, Typed, AgentTyped, FileTyped, InputTyped, OwnerTyped, CallTyped
<1>2. CallInv' /\ AgentInv' /\ QueueInv' /\ DurableInv' /\ SettledInv' /\ EndInv'
  BY DEF IInv, Steady, CallInv, AgentInv, Unsettled, QueueInv, Copies, DurableInv, SettledInv,
         EndInv, ToolsBusy
<1>3. Lives => LiveInv'
  <2> HAVE Lives
  <2>1. DueInv' /\ CommitInv' /\ SoloInv'
    BY DEF IInv, LiveInv, DueInv, CommitInv, SoloInv, Due, StopDue, Stopped, ToolsBusy, Streams
  <2>2. ToolInv' /\ EffectInv' /\ SummaryInv'
    BY DEF IInv, LiveInv, ToolInv, EffectInv, SummaryInv, Due, StopDue, Copies, ToolsBusy, Streams
  <2>3. AttemptInv' /\ OwnInv' /\ ClosingInv'
    BY DEF IInv, LiveInv, AttemptInv, NextDisk, OwnInv, ClosingInv, Due, StopDue, InterruptPending,
           Copies
  <2> QED BY <2>1, <2>2, <2>3 DEF LiveInv
<1> QED BY <1>1, <1>2, <1>3 DEF IInv, Steady, Lives

\* Every step keeps the invariant.
LEMMA NextInv ==
  ASSUME IInv, [Next]_vars, "late_overflow" \notin Races
  PROVE  IInv'
<1>1. CASE UNCHANGED vars
  BY <1>1, StutterKeeps
<1>2. CASE Next /\ Lives
  BY <1>2, AliveStep DEF IInv, Alive
<1>3. CASE Next /\ journal # "open" /\ ended = "no"
  BY <1>3, FailedStep DEF IInv, Failed
<1>4. CASE Next /\ ended # "no"
  BY <1>4, EndedStops DEF IInv
<1> QED BY <1>1, <1>2, <1>3, <1>4 DEF Lives

-----------------------------------------------------------------------------
(* The properties.                                                          *)

\* However the calls of the owner are dropped and resumed, the runtime is in one of the states the
\* invariant describes.
THEOREM Invariant ==
  ASSUME "late_overflow" \notin Races
  PROVE  Spec => []IInv
<1>1. Init => IInv
  BY InitInv
<1>2. IInv /\ [Next]_vars => IInv'
  BY NextInv
<1> QED BY <1>1, <1>2, PTL DEF Spec

\* The state keeps its type, the pending queue its bound, a failed journal takes no commit, and no
\* internal error of runtime.rs, model.rs or compaction.rs arises, unless a joined request may
\* still be refused for its context.
THEOREM NeverConfusedHolds ==
  ASSUME "late_overflow" \notin Races
  PROVE  Spec => []NeverConfused
<1>1. IInv => NeverConfused
  <2> HAVE IInv
  <2>1. TypeOK
    BY DEF IInv, Steady, Typed, AgentTyped, FileTyped, InputTyped, OwnerTyped, CallTyped, CallInv,
           QueueInv, TypeOK, Phases, Commits, Preparations, Starts, Models
  <2>2. error # "confused"
    BY DEF IInv, Steady, Typed, CallTyped
  <2> QED BY <2>1, <2>2 DEF NeverConfused
<1> QED BY <1>1, Invariant, PTL

\* JRN-7: no request, no summary and no tool of the open batch is under way whose authorization is
\* not in the session file, however the calls between are dropped.
THEOREM StartsDurableHolds ==
  ASSUME "late_overflow" \notin Races
  PROVE  Spec => []StartsDurable
<1>1. IInv => StartsDurable
  BY DEF IInv, Steady, DurableInv, StartsDurable, CompactionRunning
<1> QED BY <1>1, Invariant, PTL

\* While the runtime is open, something it owns will continue the turn and answer each open call.
THEOREM TurnOwnedHolds ==
  ASSUME "late_overflow" \notin Races
  PROVE  Spec => []TurnOwned
<1>1. IInv => TurnOwned
  <2> SUFFICES ASSUME IInv, shutdown = "open", journal = "open", ~InterruptPending,
                      error = "none"
               PROVE  /\ phase = "streaming" => StepOwned
                      /\ phase = "working" =>
                           /\ \E c \in Calls : Unsettled(c)
                           /\ \A c \in Calls \ unanswered : Unsettled(c) => CallOwned(c)
    BY DEF TurnOwned
  <2>1. OwnInv /\ ended = "no"
    BY DEF IInv, Steady, CallInv, Lives, LiveInv
  <2>2. phase = "streaming" => StepOwned
    BY <2>1, NoCommitTyped, NothingTyped DEF OwnInv, StepOwned
  <2>3. phase = "working" => \E c \in Calls : Unsettled(c)
    BY DEF IInv, Steady, AgentInv
  <2>4. ASSUME NEW c \in Calls \ unanswered, Unsettled(c) PROVE CallOwned(c)
    <3>1. Copies(Finished(c)) > 0 => \E i \in DOMAIN pending : pending[i] = Finished(c)
      BY CountSome DEF IInv, Steady, Typed, InputTyped, Copies
    <3> QED BY <2>1, <2>4, <3>1 DEF OwnInv, Unsettled, CallOwned
  <2> QED BY <2>2, <2>3, <2>4
<1> QED BY <1>1, Invariant, PTL

\* What ends the runtime leaves it without a request.
Emptied == ended # "no" => active = NoModel

\* Every step keeps that.
LEMMA EmptiedKeeps ==
  ASSUME IInv, Emptied, [Next]_vars, "late_overflow" \notin Races
  PROVE  Emptied'
<1>1. CASE UNCHANGED vars
  BY <1>1 DEF vars, Emptied
<1>2. CASE Next /\ ended # "no"
  BY <1>2, EndedStops DEF IInv
<1>3. CASE FinishShutdown
  <2>1. ended' = "clean"
    BY <1>3 DEF FinishShutdown
  <2> QED BY <2>1, NextInv DEF IInv, Steady, EndInv, Emptied
<1>4. CASE ReturnError /\ ended = "no"
  BY <1>4 DEF ReturnError, FinishFailedOwners, Emptied, exitVars
<1>5. CASE ReturnFailed
  BY <1>5 DEF ReturnFailed, FinishFailedOwners, Emptied
<1>6. CASE Drives /\ ~FinishShutdown /\ ~ReturnError /\ ~ReturnFailed /\ ended = "no"
  <2>1. ended' = ended
    <3>1. CASE FinishCommit \/ StartModel \/ StartCompaction \/ RecoverContext \/ DeliverCompletion
      BY <3>1 DEF FinishCommit, StartModel, StartCompaction, RecoverContext, DeliverCompletion,
                  exitVars
    <3>2. CASE ReleaseModel \/ RouteDeferred \/ FinishStop \/ FinishCompaction \/ PublishCompaction
      BY <3>2 DEF ReleaseModel, RouteDeferred, FinishStop, FinishCompaction, PublishCompaction,
                  exitVars
    <3>3. CASE FailCompaction \/ CompleteCompactionFailure \/ TakeInput \/ SettleShutdown
      BY <3>3 DEF FailCompaction, CompleteCompactionFailure, TakeInput, SettleShutdown, exitVars
    <3> QED BY <1>6, <3>1, <3>2, <3>3 DEF Drives
  <2> QED BY <1>6, <2>1 DEF Emptied
<1>7. CASE (Joins \/ Arrivals \/ Writes) /\ ended = "no"
  BY <1>7 DEF Joins, JoinModel, JoinCompaction, Arrivals, Answers, CompactionEnds, ModelEnds,
              ToolResolves, SkillLoaded, Writes, WriterAppends, exitVars, Emptied
<1>8. CASE Entries /\ ended = "no"
  BY <1>8 DEF Entries, Submit, SubmitInterrupt, NextUpdate, RequestCompaction, Shutdown, Drop,
              Return, BeginRequestedCompaction, exitVars, Emptied
<1> QED BY <1>1, <1>2, <1>3, <1>4, <1>5, <1>6, <1>7, <1>8 DEF Next, Drives

\* TIM-2: every attempt the file has open is owned by what will record its terminal, and a request
\* that is over is being settled.
THEOREM AttemptsOwnedHolds ==
  ASSUME "late_overflow" \notin Races
  PROVE  Spec => []AttemptsOwned
<1>1. Init => Emptied
  BY DEF Init, Emptied
<1>2. IInv /\ Emptied /\ [Next]_vars => Emptied'
  BY EmptiedKeeps
<1>3. IInv /\ Emptied => AttemptsOwned
  <2> HAVE IInv /\ Emptied
  <2>1. ASSUME Lives, NEW s \in Steps, NEW kind \in {"model", "summary"},
               Attempt(kind, s) \in disk
        PROVE  AttemptOwned(kind, s) \/ s \in unanswered
    <3>1. CASE commit.written # "none"
      BY <3>1 DEF AttemptOwned
    <3>2. CASE commit.written = "none"
      <4>1. NextDisk = disk /\ AttemptInv
        BY <2>1, <3>2 DEF NextDisk, IInv, LiveInv
      <4>2. CASE kind = "model"
        BY <2>1, <3>2, <4>1, <4>2 DEF AttemptInv, AttemptOwned
      <4>3. CASE kind = "summary"
        <5>1. compaction.phase \in {"authorizing", "running"} /\ s = compaction.step
          BY <2>1, <3>2, <4>1, <4>3 DEF AttemptInv
        <5> QED BY <4>3, <5>1, RestingTyped DEF AttemptOwned
      <4> QED BY <2>1, <4>2, <4>3
    <3> QED BY <3>1, <3>2
  <2>2. ASSUME active.settlement = "ended", call = "none"
        PROVE  commit # NoCommit \/ after = "SettleModel" \/ after \in Stops
    <3>1. ended = "no"
      BY <2>2, RestTyped DEF Emptied
    <3>2. CASE journal = "open"
      <4>1. DueInv
        BY <3>1, <3>2 DEF IInv, Lives, LiveInv
      <4> QED BY <2>2, <4>1, NoCommitTyped DEF DueInv, Due, Stopped, Stops, IInv, Steady, Typed,
                                               OwnerTyped, Models
    <3>3. CASE journal # "open"
      BY <2>2, <3>3 DEF IInv, Steady, SettledInv
    <3> QED BY <3>2, <3>3
  <2> QED BY <2>1, <2>2 DEF AttemptsOwned, Lives
<1> QED BY <1>1, <1>2, <1>3, Invariant, PTL DEF Spec

\* LIVE-3: a shutdown that returns without an error has ended the turn, in the file too, and owns
\* nothing.
THEOREM CleanShutdownHolds ==
  ASSUME "late_overflow" \notin Races
  PROVE  Spec => []CleanShutdown
<1>1. IInv => CleanShutdown
  <2> SUFFICES ASSUME IInv, ended = "clean"
               PROVE  /\ phase = "idle" /\ queue = <<>> /\ TextsOf(pending) = <<>>
                      /\ active = NoModel /\ compaction = NoCompaction /\ starting = NoStart
                      /\ ~ToolsBusy
                      /\ \A n \in Texts : Opened(n) \notin disk
                      /\ \A s \in Steps \ unanswered, kind \in {"model", "summary"} :
                           Attempt(kind, s) \notin disk
    BY DEF CleanShutdown
  <2>1. EndInv /\ pending \in Seq(Inputs)
    BY DEF IInv, Steady, Typed, InputTyped
  <2>2. TextsOf(pending) = <<>>
    <3>1. Len(Kept(pending, TextInputs)) = 0
      BY <2>1, CountSome, CountTyped DEF EndInv
    <3>2. TextsOf(pending) \in Seq(Texts) /\ Len(TextsOf(pending)) = 0
      BY <2>1, <3>1, TextsOfTyped
    <3> QED BY <3>2
  <2> QED BY <2>1, <2>2 DEF EndInv
<1> QED BY <1>1, Invariant, PTL


-----------------------------------------------------------------------------
(* What a step may never do, with or without the races.                     *)

ToolsTyped == tools \in [Calls -> {"none", "admission", "execution"}]

NoToolStarts == \A c \in Calls : tools'[c] = "execution" => tools[c] = "execution"
NoRequestStarts == active' = NoModel \/ active # NoModel

\* The end of a commit starts a tool only while the turn is permitted to go on, and no request.
LEMMA FinishCommitStarts ==
  ASSUME ToolsTyped, FinishCommit
  PROVE  /\ ToolsTyped' /\ NoRequestStarts
         /\ shutdown # "open" \/ InterruptPending => NoToolStarts
<1>1. CASE commit.written # "ok"
  BY <1>1 DEF FinishCommit, ownerVars, ToolsTyped, NoToolStarts, NoRequestStarts
<1>2. CASE commit.written = "ok" /\ commit.reaction.effect = "run"
  <2>1. UNCHANGED active
    BY <1>2 DEF FinishCommit, ApplyReaction, ownerVars
  <2>2. PICK c \in commit.reaction.calls : StartAuthorizedTool(c)
    BY <1>2 DEF FinishCommit, ApplyReaction
  <2>3. tools' = tools \/ (Permitted /\ tools' = [tools EXCEPT ![c] = "execution"])
    BY <2>2 DEF StartAuthorizedTool
  <2> QED BY <2>1, <2>3 DEF ToolsTyped, NoToolStarts, NoRequestStarts, Permitted
<1>3. CASE commit.written = "ok" /\ commit.reaction.effect = "admit"
  BY <1>3 DEF FinishCommit, ApplyReaction, ownerVars, ToolsTyped, NoToolStarts, NoRequestStarts
<1>4. CASE commit.written = "ok" /\ commit.reaction.effect \notin {"run", "admit"}
  BY <1>4 DEF FinishCommit, ApplyReaction, RouteModelCall, ownerVars, ToolsTyped, NoToolStarts,
              NoRequestStarts
<1> QED BY <1>1, <1>2, <1>3, <1>4

\* What any step starts.
LEMMA StepStarts ==
  ASSUME ToolsTyped, [Next]_vars
  PROVE  /\ ToolsTyped'
         /\ shutdown # "open" \/ InterruptPending => NoToolStarts
         /\ shutdown # "open" \/ starting.cancelled => NoRequestStarts
<1> USE DEF ToolsTyped, NoToolStarts, NoRequestStarts
<1>1. CASE UNCHANGED vars
  BY <1>1 DEF vars
<1>2. CASE FinishCommit
  BY <1>2, FinishCommitStarts
<1>3. CASE StartModel
  BY <1>3 DEF StartModel
<1>4. CASE StartCompaction \/ RouteDeferred \/ PublishCompaction \/ CompleteCompactionFailure
  BY <1>4 DEF StartCompaction, RouteDeferred, RouteModelCall, PublishCompaction,
              CompleteCompactionFailure
<1>5. CASE RecoverContext
  BY <1>5 DEF RecoverContext
<1>6. CASE DeliverCompletion
  <2>1. active # NoModel
    BY <1>6, RestTyped DEF DeliverCompletion
  <2> QED BY <1>6, <2>1 DEF DeliverCompletion
<1>7. CASE ReleaseModel
  BY <1>7 DEF ReleaseModel
<1>8. CASE FinishStop \/ ReturnError \/ ReturnFailed
  BY <1>8 DEF FinishStop, ReturnError, ReturnFailed, FinishFailedOwners, ownerVars
<1>9. CASE FinishCompaction \/ FailCompaction
  BY <1>9 DEF FinishCompaction, FailCompaction, ownerVars
<1>10. CASE TakeInput \/ SettleShutdown \/ FinishShutdown
  BY <1>10 DEF TakeInput, SettleShutdown, FinishShutdown, ownerVars
<1>11. CASE \E outcome \in {"stopped", "failed", "overflow", "abnormal", "cancelled"} :
              JoinModel(outcome)
  <2>1. active # NoModel
    BY <1>11, RestTyped DEF JoinModel, ModelRunning
  <2> QED BY <1>11, <2>1 DEF JoinModel
<1>12. CASE \E outcome \in {"stopped", "calls", "failed", "overflow", "abnormal"} :
              ModelEnds(outcome)
  <2>1. active # NoModel
    BY <1>12, RestTyped DEF ModelEnds, ModelRunning
  <2> QED BY <1>12, <2>1 DEF ModelEnds
<1>13. CASE \E complete \in BOOLEAN : JoinCompaction(complete) \/ CompactionEnds(complete)
  BY <1>13 DEF JoinCompaction, CompactionEnds
<1>14. CASE \E c \in Calls, admitted \in BOOLEAN : ToolResolves(c, admitted)
  BY <1>14 DEF ToolResolves, ownerVars
<1>15. CASE \E found \in BOOLEAN : SkillLoaded(found)
  BY <1>15 DEF SkillLoaded, ownerVars
<1>16. CASE Writes
  BY <1>16 DEF Writes, WriterAppends, ownerVars
<1>17. CASE Entries
  BY <1>17 DEF Entries, Submit, SubmitInterrupt, NextUpdate, RequestCompaction, Shutdown, Drop,
               Return, BeginRequestedCompaction, ownerVars
<1> QED
  BY <1>1, <1>2, <1>3, <1>4, <1>5, <1>6, <1>7, <1>8, <1>9, <1>10, <1>11, <1>12, <1>13, <1>14,
     <1>15, <1>16, <1>17
  DEF Next, Drives, Joins, Arrivals, Answers

\* PER-9, LIVE-3: no tool starts once an interrupt is accepted or shutdown is requested, a start that
\* was recorded before is not dispatched then, and shutdown dispatches no model step.
THEOREM StopHoldsAlways == Spec => StopHolds
<1>1. Init => ToolsTyped
  BY DEF Init, ToolsTyped
<1>2. ToolsTyped /\ [Next]_vars => ToolsTyped'
  BY StepStarts
<1>3. ToolsTyped /\ [Next]_vars =>
        [/\ (shutdown # "open" \/ InterruptPending) =>
              \A c \in Calls : tools'[c] = "execution" => tools[c] = "execution"
         /\ (shutdown # "open" \/ starting.cancelled) => (active' = NoModel \/ active # NoModel)]_vars
  BY StepStarts DEF NoToolStarts, NoRequestStarts
<1> QED BY <1>1, <1>2, <1>3, PTL DEF Spec, StopHolds
=============================================================================
