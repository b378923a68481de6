--------------------------- MODULE LiveTexts_proofs ---------------------------
(***************************************************************************)
(* No text a caller submits to the live runtime is lost, whichever of its   *)
(* calls are dropped: proved by counting how often each text occurs in the  *)
(* queue, in what is handed back and in the records on their way to the     *)
(* file, step by step.                                                      *)
(***************************************************************************)
EXTENDS LiveRuntime_proofs

-----------------------------------------------------------------------------
(* Where the texts are.                                                     *)

\* As often as a value occurs, so many are kept of it.
LEMMA OccurrencesKept ==
  ASSUME NEW S, NEW s \in Seq(S), NEW t
  PROVE  Occurrences(t, s) = Len(Kept(s, {t}))
<1> DEFINE At(u) == {i \in 1..Len(u) : u[i] = t}
           T == {u \in Seq(S) : IsFiniteSet(At(u)) /\ Cardinality(At(u)) = Len(Kept(u, {t}))}
<1>1. <<>> \in T
  <2>1. <<>> \in Seq(S) /\ Kept(<<>>, {t}) = <<>> /\ Len(<<>>) = 0
    BY KeptEmpty
  <2>2. At(<<>>) = {}
    OBVIOUS
  <2> QED BY <2>1, <2>2, FS_EmptySet
<1>2. ASSUME NEW u \in T, NEW e \in S PROVE Append(u, e) \in T
  <2>1. /\ Kept(Append(u, e), {t}) = IF e \in {t} THEN Append(Kept(u, {t}), e) ELSE Kept(u, {t})
        /\ Kept(u, {t}) \in Seq(S \cap {t})
    BY KeptAppend, KeptTyped
  <2>2. Append(u, e) \in Seq(S) /\ Len(u) \in Nat /\ Len(u) + 1 \notin At(u)
    OBVIOUS
  <2>3. At(Append(u, e)) = IF e = t THEN At(u) \cup {Len(u) + 1} ELSE At(u)
    OBVIOUS
  <2>4. IsFiniteSet(At(u)) /\ Cardinality(At(u)) = Len(Kept(u, {t}))
    OBVIOUS
  <2> HIDE DEF At
  <2>5. CASE e = t
    <3>1. Len(Kept(Append(u, e), {t})) = Len(Kept(u, {t})) + 1
      BY <2>1, <2>5
    <3>2. /\ IsFiniteSet(At(u) \cup {Len(u) + 1})
          /\ Cardinality(At(u) \cup {Len(u) + 1}) = Cardinality(At(u)) + 1
      BY <2>2, <2>4, FS_AddElement
    <3> QED BY <2>2, <2>3, <2>4, <2>5, <3>1, <3>2
  <2>6. CASE e # t
    <3>1. Len(Kept(Append(u, e), {t})) = Len(Kept(u, {t}))
      BY <2>1, <2>6
    <3> QED BY <2>2, <2>3, <2>4, <2>6, <3>1
  <2> QED BY <2>5, <2>6
<1>3. T = Seq(S)
  <2>1. T \in SUBSET Seq(S)
    OBVIOUS
  <2> HIDE DEF T
  <2> QED BY <1>1, <1>2, <2>1, AllSequences
<1>4. s \in T
  <2> HIDE DEF T
  <2> QED BY <1>3
<1>5. At(s) = {i \in DOMAIN s : s[i] = t}
  OBVIOUS
<1>6. Cardinality(At(s)) = Len(Kept(s, {t}))
  BY <1>4
<1> QED BY <1>5, <1>6 DEF Occurrences

Asks(t) == {e \in TextInputs : e.text = t}

\* A text occurs among the texts of the pending queue as often as an entry asks for it.
LEMMA TextsKept ==
  ASSUME NEW p \in Seq(Inputs), NEW t
  PROVE  Len(Kept(TextsOf(p), {t})) = Len(Kept(p, Asks(t)))
<1> DEFINE T == {u \in Seq(Inputs) : Len(Kept(TextsOf(u), {t})) = Len(Kept(u, Asks(t)))}
<1>1. <<>> \in T
  <2>1. <<>> \in Seq(Inputs) /\ Kept(<<>>, TextInputs) = <<>> /\ Kept(<<>>, Asks(t)) = <<>>
        /\ Kept(<<>>, {t}) = <<>>
    BY KeptEmpty
  <2>2. TextsOf(<<>>) = <<>>
    BY <2>1 DEF TextsOf
  <2> QED BY <2>1, <2>2
<1>2. ASSUME NEW u \in T, NEW e \in Inputs PROVE Append(u, e) \in T
  <2>1. u \in Seq(Inputs) /\ Append(u, e) \in Seq(Inputs)
        /\ Len(Kept(TextsOf(u), {t})) = Len(Kept(u, Asks(t)))
    OBVIOUS
  <2>2. /\ Kept(Append(u, e), TextInputs)
             = IF e \in TextInputs THEN Append(Kept(u, TextInputs), e) ELSE Kept(u, TextInputs)
        /\ Kept(u, TextInputs) \in Seq(TextInputs)
    <3>1. Kept(u, TextInputs) \in Seq(Inputs \cap TextInputs) /\ Inputs \cap TextInputs = TextInputs
      BY <2>1, KeptTyped DEF Inputs
    <3> QED BY <2>1, <3>1, KeptAppend
  <2>3. /\ Kept(Append(u, e), Asks(t))
             = IF e \in Asks(t) THEN Append(Kept(u, Asks(t)), e) ELSE Kept(u, Asks(t))
        /\ Kept(u, Asks(t)) \in Seq(Inputs)
    BY <2>1, KeptAppend, CountTyped
  <2>4. CASE e \in TextInputs
    <3> DEFINE k == Kept(u, TextInputs)
    <3>1. k \in Seq(TextInputs) /\ Kept(Append(u, e), TextInputs) = Append(k, e)
      BY <2>2, <2>4
    <3>2. TextsOf(Append(u, e)) = [i \in DOMAIN Append(k, e) |-> Append(k, e)[i].text]
      BY <3>1 DEF TextsOf
    <3>3. TextsOf(u) = [i \in DOMAIN k |-> k[i].text]
      BY DEF TextsOf
    <3>4. e.text \in Texts
      BY <2>4 DEF TextInputs
    <3>5. TextsOf(u) \in Seq(Texts) /\ TextsOf(Append(u, e)) \in Seq(Texts)
      BY <2>1, TextsOfTyped
    <3> HIDE DEF k
    <3>6. TextsOf(Append(u, e)) = Append(TextsOf(u), e.text)
      <4>1. DOMAIN k = 1..Len(k) /\ DOMAIN Append(k, e) = 1..(Len(k) + 1) /\ Len(k) \in Nat
            /\ Append(k, e)[Len(k) + 1] = e /\ \A i \in 1..Len(k) : Append(k, e)[i] = k[i]
        BY <2>4, <3>1
      <4>2. Len(TextsOf(u)) = Len(k) /\ Len(TextsOf(Append(u, e))) = Len(k) + 1
        BY <3>2, <3>3, <3>5, <4>1
      <4>3. \A i \in 1..(Len(k) + 1) : TextsOf(Append(u, e))[i] = Append(TextsOf(u), e.text)[i]
        <5> TAKE i \in 1..(Len(k) + 1)
        <5>1. CASE i \in 1..Len(k)
          BY <3>2, <3>3, <3>4, <3>5, <4>1, <4>2, <5>1
        <5>2. CASE i = Len(k) + 1
          BY <3>2, <3>4, <3>5, <4>1, <4>2, <5>2
        <5>3. i \in 1..Len(k) \/ i = Len(k) + 1
          BY <4>1
        <5> QED BY <5>1, <5>2, <5>3
      <4>4. /\ Append(TextsOf(u), e.text) \in Seq(Texts)
            /\ Len(Append(TextsOf(u), e.text)) = Len(k) + 1
        BY <3>4, <3>5, <4>2
      <4> QED BY <3>5, <4>2, <4>3, <4>4
    <3>7. /\ Kept(Append(TextsOf(u), e.text), {t})
               = IF e.text \in {t} THEN Append(Kept(TextsOf(u), {t}), e.text)
                                   ELSE Kept(TextsOf(u), {t})
          /\ Kept(TextsOf(u), {t}) \in Seq(Texts \cap {t})
      <4> DEFINE v == TextsOf(u)  d == e.text
      <4>1. v \in Seq(Texts) /\ d \in Texts
        BY <3>4, <3>5
      <4> HIDE DEF v, d
      <4>2. Kept(Append(v, d), {t}) = IF d \in {t} THEN Append(Kept(v, {t}), d) ELSE Kept(v, {t})
        BY <4>1, KeptAppend
      <4>3. Kept(v, {t}) \in Seq(Texts \cap {t})
        BY <4>1, KeptTyped
      <4> QED BY <4>2, <4>3 DEF v, d
    <3>8. e \in Asks(t) <=> e.text = t
      BY <2>4 DEF Asks
    <3>9. CASE e.text = t
      <4>1. Len(Kept(Append(TextsOf(u), e.text), {t})) = Len(Kept(TextsOf(u), {t})) + 1
        BY <3>7, <3>9, <3>4
      <4>2. Len(Kept(Append(u, e), Asks(t))) = Len(Kept(u, Asks(t))) + 1
        BY <2>3, <3>8, <3>9
      <4> QED BY <2>1, <3>6, <4>1, <4>2
    <3>10. CASE e.text # t
      BY <2>1, <2>3, <3>6, <3>7, <3>8, <3>10
    <3> QED BY <3>9, <3>10
  <2>5. CASE e \notin TextInputs
    <3>1. TextsOf(Append(u, e)) = TextsOf(u)
      BY <2>2, <2>5 DEF TextsOf
    <3>2. Kept(Append(u, e), Asks(t)) = Kept(u, Asks(t))
      BY <2>3, <2>5 DEF Asks
    <3> QED BY <2>1, <3>1, <3>2
  <2> QED BY <2>4, <2>5
<1>3. T = Seq(Inputs)
  <2>1. T \in SUBSET Seq(Inputs)
    OBVIOUS
  <2> HIDE DEF T
  <2> QED BY <1>1, <1>2, <2>1, AllSequences
<1> QED BY <1>3

\* What is kept of two sequences of texts is counted in each.
LEMMA TextsConcat ==
  ASSUME NEW a \in Seq(Texts), NEW b \in Seq(Texts), NEW t
  PROVE  /\ a \o b \in Seq(Texts)
         /\ Len(Kept(a \o b, {t})) = Len(Kept(a, {t})) + Len(Kept(b, {t}))
<1>1. /\ Kept(a \o b, {t}) = Kept(a, {t}) \o Kept(b, {t})
      /\ Kept(a, {t}) \in Seq(Texts \cap {t}) /\ Kept(b, {t}) \in Seq(Texts \cap {t})
  <2>1. Kept(a \o b, {t}) = Kept(a, {t}) \o Kept(b, {t})
    BY KeptConcat
  <2>2. Kept(a, {t}) \in Seq(Texts \cap {t}) /\ Kept(b, {t}) \in Seq(Texts \cap {t})
    BY KeptTyped
  <2> QED BY <2>1, <2>2
<1> DEFINE x == Kept(a, {t})  y == Kept(b, {t})
<1>2. x \in Seq(Texts \cap {t}) /\ y \in Seq(Texts \cap {t})
  BY <1>1
<1> HIDE DEF x, y
<1>3. Len(x \o y) = Len(x) + Len(y)
  BY <1>2
<1> QED BY <1>1, <1>3 DEF x, y

\* One text more is counted, if it is the one.
LEMMA TextsOne ==
  ASSUME NEW a \in Seq(Texts), NEW u \in Texts, NEW t
  PROVE  /\ Append(a, u) \in Seq(Texts)
         /\ Len(Kept(Append(a, u), {t})) = Len(Kept(a, {t})) + (IF u = t THEN 1 ELSE 0)
         /\ Len(Kept(<<u>>, {t})) = (IF u = t THEN 1 ELSE 0)
<1>1. /\ Kept(Append(a, u), {t}) = IF u \in {t} THEN Append(Kept(a, {t}), u) ELSE Kept(a, {t})
      /\ Kept(a, {t}) \in Seq(Texts \cap {t})
      /\ Kept(<<u>>, {t}) = IF u \in {t} THEN <<u>> ELSE <<>>
  BY KeptAppend, KeptTyped, KeptOne
<1>2. CASE u = t
  <2>1. /\ Len(Append(Kept(a, {t}), u)) = Len(Kept(a, {t})) + 1 /\ Len(<<u>>) = 1
    BY <1>1, <1>2
  <2> QED BY <1>1, <1>2, <2>1
<1>3. CASE u # t
  BY <1>1, <1>3
<1> QED BY <1>2, <1>3

\* How often a text waits, is queued, was handed back, is prepared; how often the commit has it to hand
\* back and would, if its write fails; and whether the commit or the file opens its turn.
Waits(t) == Len(Kept(pending, Asks(t)))
Queued(t) == Len(Kept(queue, {t}))
Handed(t) == Len(Kept(returned, {t}))
Prepared(t) == IF preparing.text = t THEN 1 ELSE 0
Owed(t) == Len(Kept(commit.reaction.back, {t}))
Told(t) == Len(Kept(commit.rejected, {t}))
Opens(t) == IF Said(t) \in commit.reaction.adds THEN 1 ELSE 0
InFile(t) == IF Said(t) \in disk THEN 1 ELSE 0

\* The commit whose failure hands nothing back is one that does not fail.
SureCommit == commit.then = "CompleteCompactionFailure"

TextAt(t) ==
  /\ t >= nextText =>
       /\ Waits(t) = 0 /\ Queued(t) = 0 /\ Handed(t) = 0 /\ Prepared(t) = 0
       /\ Owed(t) = 0 /\ Opens(t) = 0 /\ InFile(t) = 0
  /\ t < nextText =>
       LET places == Waits(t) + Queued(t) + Handed(t) + Prepared(t) + Owed(t) + InFile(t)
                     + (IF Opens(t) = 1 /\ InFile(t) = 0 THEN 1 ELSE 0)
       IN places = 1 \/ (journal = "unknown" /\ InFile(t) = 1 /\ places = 2)
  /\ ~SureCommit => Told(t) = Opens(t) + Owed(t)
  /\ Opens(t) = 1 => /\ commit.written \in {"no", "refused"} => InFile(t) = 0
                     /\ commit.written = "ok" => InFile(t) = 1
  /\ Said(t) \notin commit.reaction.clears

TextInv ==
  /\ \A t \in Texts : TextAt(t)
  /\ SureCommit => commit.written \in {"no", "ok"}

\* A commit that has nothing to do with texts.
Blank ==
  /\ commit'.rejected = <<>> /\ commit'.reaction.back = <<>>
  /\ \A t : Said(t) \notin commit'.reaction.adds /\ Said(t) \notin commit'.reaction.clears
  /\ commit'.then = "CompleteCompactionFailure" => commit'.written = "no"

\* What it comes to for each text.
LEMMA BlankIs ==
  ASSUME Blank
  PROVE  \A t : Owed(t)' = 0 /\ Told(t)' = 0 /\ Opens(t)' = 0 /\ Said(t) \notin commit'.reaction.clears
<1>1. \A t : Kept(<<>>, {t}) = <<>>
  BY KeptEmpty
<1>2. Len(<<>>) = 0
  OBVIOUS
<1> QED BY <1>1, <1>2 DEF Blank, Owed, Told, Opens

\* No commit has one.
LEMMA NoneOwed ==
  ASSUME commit = NoCommit
  PROVE  \A t : Owed(t) = 0 /\ Told(t) = 0 /\ Opens(t) = 0
<1>1. \A t : Kept(<<>>, {t}) = <<>>
  BY KeptEmpty
<1>2. Len(<<>>) = 0 /\ commit.rejected = <<>> /\ commit.reaction.back = <<>>
      /\ commit.reaction.adds = {}
  BY NoCommitTyped, NothingTyped
<1> QED BY <1>1, <1>2 DEF Owed, Told, Opens

LEMMA NoneOfFive ==
  ASSUME NEW a \in Nat, NEW b \in Nat, NEW c \in Nat, NEW d \in Nat, NEW e \in Nat,
         a + b + c + d + e = 0
  PROVE  a = 0 /\ b = 0 /\ c = 0 /\ d = 0 /\ e = 0
OBVIOUS

\* The counts are numbers.
LEMMA Counted ==
  ASSUME Typed, NEW t
  PROVE  /\ Waits(t) \in Nat /\ Queued(t) \in Nat /\ Handed(t) \in Nat
         /\ Owed(t) \in Nat /\ Told(t) \in Nat
         /\ Prepared(t) \in {0, 1} /\ Opens(t) \in {0, 1} /\ InFile(t) \in {0, 1}
<1>1. /\ pending \in Seq(Inputs) /\ queue \in Seq(Texts) /\ returned \in Seq(Texts)
      /\ commit.reaction.back \in Seq(Texts) /\ commit.rejected \in Seq(Texts)
  BY DEF Typed, AgentTyped, InputTyped, FileTyped, Commits, Reactions
<1>2. ASSUME NEW s \in Seq(Texts) PROVE Len(Kept(s, {t})) \in Nat
  <2>1. Kept(s, {t}) \in Seq(Texts \cap {t})
    BY KeptTyped
  <2> QED BY <2>1
<1>3. Waits(t) \in Nat
  BY <1>1, CountTyped DEF Waits
<1> QED BY <1>1, <1>2, <1>3 DEF Queued, Handed, Owed, Told, Prepared, Opens, InFile

\* A step that has nothing to do with texts.
Plain ==
  /\ UNCHANGED <<queue, returned, preparing, nextText, disk, journal>> /\ \A t : Waits(t)' = Waits(t)
  /\ commit' = commit \/ (commit = NoCommit /\ Blank)

\* It leaves them where they are.
LEMMA PlainKeeps ==
  ASSUME Typed, TextInv, Plain
  PROVE  TextInv'
<1>1. CASE commit' = commit
  <2>1. ASSUME NEW t \in Texts PROVE TextAt(t)'
    <3>1. /\ Waits(t)' = Waits(t) /\ Queued(t)' = Queued(t) /\ Handed(t)' = Handed(t)
          /\ Prepared(t)' = Prepared(t) /\ InFile(t)' = InFile(t)
          /\ Owed(t)' = Owed(t) /\ Told(t)' = Told(t) /\ Opens(t)' = Opens(t)
          /\ nextText' = nextText /\ journal' = journal /\ SureCommit' = SureCommit
      BY <1>1 DEF Plain, Queued, Handed, Prepared, InFile, Owed, Told, Opens, SureCommit
    <3>2. TextAt(t)
      BY DEF TextInv
    <3> QED BY <1>1, <3>1, <3>2 DEF TextAt
  <2> QED BY <1>1, <2>1 DEF TextInv, SureCommit
<1>2. CASE commit = NoCommit /\ Blank
  <2>1. ASSUME NEW t \in Texts PROVE TextAt(t)'
    <3>1. /\ Waits(t)' = Waits(t) /\ Queued(t)' = Queued(t) /\ Handed(t)' = Handed(t)
          /\ Prepared(t)' = Prepared(t) /\ InFile(t)' = InFile(t)
          /\ nextText' = nextText /\ journal' = journal
      BY DEF Plain, Queued, Handed, Prepared, InFile
    <3>2. /\ Owed(t)' = 0 /\ Told(t)' = 0 /\ Opens(t)' = 0
          /\ Said(t) \notin commit'.reaction.clears
      BY <1>2, BlankIs
    <3>3. TextAt(t) /\ Owed(t) = 0 /\ Opens(t) = 0
      BY <1>2, NoneOwed DEF TextInv
    <3> QED BY <3>1, <3>2, <3>3, Counted DEF TextAt
  <2>2. SureCommit' => commit'.written \in {"no", "ok"}
    BY <1>2 DEF Blank, SureCommit
  <2> QED BY <2>1, <2>2 DEF TextInv
<1> QED BY <1>1, <1>2 DEF Plain

\* The queue comes back with the commit that ends the turn.
LEMMA QueueReturns ==
  ASSUME Typed, TextInv, commit = NoCommit, queue' = <<>>,
         NEW rejected, NEW then, Begun({}, CloseTurn, "none", {}, queue, rejected, then),
         rejected = queue \/ then = "CompleteCompactionFailure",
         UNCHANGED <<returned, preparing, nextText, disk, journal>>,
         \A t : Waits(t)' = Waits(t)
  PROVE  TextInv'
<1>1. ASSUME NEW t \in Texts PROVE TextAt(t)'
  <2>1. /\ Waits(t)' = Waits(t) /\ Handed(t)' = Handed(t)
        /\ Prepared(t)' = Prepared(t) /\ InFile(t)' = InFile(t)
        /\ nextText' = nextText /\ journal' = journal
    BY DEF Handed, Prepared, InFile
  <2>2. Queued(t)' = 0 /\ Opens(t)' = 0 /\ Owed(t)' = Queued(t)
    <3>1. Kept(<<>>, {t}) = <<>> /\ Len(<<>>) = 0
      BY KeptEmpty
    <3> QED BY <3>1 DEF Begun, Queued, Opens, Owed
  <2>3. ~SureCommit' => Told(t)' = Queued(t)
    BY DEF Begun, SureCommit, Told, Queued
  <2>4. Said(t) \notin commit'.reaction.clears
    BY FactsApart DEF Begun, CloseTurn
  <2>5. TextAt(t) /\ Owed(t) = 0 /\ Opens(t) = 0
    BY NoneOwed DEF TextInv
  <2> QED BY <2>1, <2>2, <2>3, <2>4, <2>5, Counted DEF TextAt
<1>2. SureCommit' => commit'.written \in {"no", "ok"}
  BY DEF Begun
<1> QED BY <1>1, <1>2 DEF TextInv

\* A text that waits or is queued opens its turn.
LEMMA TurnOpensKeeps ==
  ASSUME Typed, TextInv, commit = NoCommit, journal = "open",
         NEW u \in Texts, NEW clears, TurnOpens(u, queue', clears), clears \in {{}, CloseTurn},
         UNCHANGED <<returned, preparing, nextText, disk, journal>>,
         \A t : Waits(t)' + Queued(t)' + (IF t = u THEN 1 ELSE 0) = Waits(t) + Queued(t),
         \A t : Waits(t)' \in Nat /\ Queued(t)' \in Nat
  PROVE  TextInv'
<1>1. ASSUME NEW t \in Texts PROVE TextAt(t)'
  <2>1. /\ Handed(t)' = Handed(t)
        /\ Prepared(t)' = Prepared(t) /\ InFile(t)' = InFile(t)
        /\ nextText' = nextText /\ journal' = "open"
    BY DEF Handed, Prepared, InFile
  <2>2. Owed(t)' = 0 /\ Opens(t)' = (IF t = u THEN 1 ELSE 0)
    <3>1. Kept(<<>>, {t}) = <<>> /\ Len(<<>>) = 0
      BY KeptEmpty
    <3>2. Owed(t)' = 0
      BY <3>1 DEF TurnOpens, Begun, Owed
    <3>3. commit'.reaction.adds = {Said(u), Opened(step[1] + 1)}
      BY DEF TurnOpens, Begun
    <3>4. Said(t) \in commit'.reaction.adds <=> t = u
      BY <3>3, FactsApart
    <3> QED BY <3>2, <3>4 DEF Opens
  <2>3. Told(t)' = (IF t = u THEN 1 ELSE 0)
    <3>1. Kept(<<u>>, {t}) = IF u \in {t} THEN <<u>> ELSE <<>>
      BY KeptOne
    <3>2. Len(<<u>>) = 1 /\ Len(<<>>) = 0
      OBVIOUS
    <3> QED BY <3>1, <3>2 DEF TurnOpens, Begun, Told
  <2>4. Said(t) \notin commit'.reaction.clears
    BY FactsApart DEF TurnOpens, Begun, CloseTurn
  <2>5. TextAt(t) /\ Owed(t) = 0 /\ Opens(t) = 0
    BY NoneOwed DEF TextInv
  <2>6. commit'.written = "no"
    BY DEF TurnOpens, Begun
  <2>7. /\ Waits(t)' + Queued(t)' + (IF t = u THEN 1 ELSE 0) = Waits(t) + Queued(t)
        /\ Waits(t)' \in Nat /\ Queued(t)' \in Nat
    OBVIOUS
  <2>8. CASE t = u
    <3>1. /\ Waits(t) \in Nat /\ Queued(t) \in Nat /\ Handed(t) \in Nat
          /\ Prepared(t) \in {0, 1} /\ InFile(t) \in {0, 1}
      BY Counted
    <3>2. Waits(t)' + Queued(t)' + 1 = Waits(t) + Queued(t)
      BY <2>7, <2>8
    <3>3. t < nextText
      <4>1. nextText \in Nat /\ t \in Nat
        BY BoundsTyped DEF Typed, InputTyped, Texts
      <4> QED BY <2>5, <2>7, <3>1, <3>2, <4>1 DEF TextAt
    <3>4. /\ Handed(t) = 0 /\ Prepared(t) = 0 /\ InFile(t) = 0
          /\ Waits(t)' + Queued(t)' = 0
      BY <2>5, <2>7, <3>1, <3>2, <3>3 DEF TextAt
    <3>5. nextText \in Nat /\ t \in Nat
      BY BoundsTyped DEF Typed, InputTyped, Texts
    <3> QED BY <2>1, <2>2, <2>3, <2>4, <2>6, <2>7, <2>8, <3>3, <3>4, <3>5 DEF TextAt
  <2>9. CASE t # u
    <3>1. /\ Waits(t) \in Nat /\ Queued(t) \in Nat /\ Handed(t) \in Nat
          /\ Prepared(t) \in {0, 1} /\ InFile(t) \in {0, 1}
      BY Counted
    <3>2. Waits(t)' + Queued(t)' = Waits(t) + Queued(t)
      BY <2>7, <2>9
    <3>3. Opens(t)' = 0 /\ Owed(t)' = 0 /\ Told(t)' = 0
      BY <2>2, <2>3, <2>9
    <3> QED BY <2>1, <2>4, <2>5, <2>6, <2>7, <3>1, <3>2, <3>3 DEF TextAt
  <2> QED BY <2>8, <2>9
<1>2. SureCommit' => commit'.written \in {"no", "ok"}
  BY DEF TurnOpens, Begun
<1> QED BY <1>1, <1>2 DEF TextInv

\* A write comes to what it comes to.
LEMMA WritesText ==
  ASSUME Typed, TextInv, NEW outcome \in {"ok", "refused", "unknown"}, WriterAppends(outcome),
         "failing_fails" \notin Races
  PROVE  TextInv'
<1>1. ASSUME NEW t \in Texts PROVE TextAt(t)'
  <2>1. /\ Waits(t)' = Waits(t) /\ Queued(t)' = Queued(t) /\ Handed(t)' = Handed(t)
        /\ Prepared(t)' = Prepared(t)
        /\ nextText' = nextText /\ journal' = journal
    BY DEF WriterAppends, agentVars, inputVars, userVars, Waits, Queued, Handed, Prepared
  <2>2. /\ commit' = [commit EXCEPT !.written = outcome] /\ commit \in Commits
        /\ commit.written = "no"
    BY DEF WriterAppends, Typed, FileTyped
  <2>3. /\ commit'.written = outcome /\ commit'.reaction = commit.reaction
        /\ commit'.rejected = commit.rejected /\ commit'.then = commit.then
    BY <2>2 DEF Commits
  <2>4. /\ Owed(t)' = Owed(t) /\ Told(t)' = Told(t) /\ Opens(t)' = Opens(t)
        /\ Said(t) \notin commit'.reaction.clears /\ SureCommit' = SureCommit
    BY <2>3 DEF Owed, Told, Opens, TextInv, TextAt, SureCommit
  <2>5. TextAt(t)
    BY DEF TextInv
  <2>6. Opens(t) = 0 => InFile(t)' = InFile(t)
    BY <2>5 DEF Opens, InFile, TextAt, WriterAppends
  <2>7. Opens(t) = 1 => /\ InFile(t) = 0 /\ InFile(t)' \in {0, 1}
                        /\ outcome = "ok" => InFile(t)' = 1
                        /\ outcome = "refused" => InFile(t)' = 0
    <3>1. outcome = "refused" => disk' = disk
      BY DEF WriterAppends
    <3>2. outcome = "ok" => disk' = (disk \ commit.reaction.clears) \cup commit.reaction.adds
      BY DEF WriterAppends
    <3>3. Opens(t) = 1 => InFile(t) = 0
      BY <2>2, <2>5 DEF TextAt
    <3> QED BY <3>1, <3>2, <3>3 DEF Opens, InFile
  <2>8. CASE Opens(t) = 0
    BY <2>1, <2>4, <2>5, <2>6, <2>8, Counted DEF TextAt
  <2>9. CASE Opens(t) = 1
    BY <2>1, <2>3, <2>4, <2>5, <2>7, <2>9, Counted DEF TextAt
  <2> QED BY <2>8, <2>9, Counted
<1>2. SureCommit' => commit'.written \in {"no", "ok"}
  <2>1. commit' = [commit EXCEPT !.written = outcome] /\ commit \in Commits
    BY DEF WriterAppends, Typed, FileTyped
  <2>2. commit'.written = outcome /\ commit'.then = commit.then
    BY <2>1 DEF Commits
  <2>3. SureCommit => outcome = "ok"
    BY DEF WriterAppends, SureCommit
  <2> QED BY <2>2, <2>3 DEF SureCommit
<1> QED BY <1>1, <1>2 DEF TextInv

\* No commit, and one that only adds or clears something else than texts, is such a commit.
LEMMA BlankForms ==
  /\ commit' = NoCommit => Blank
  /\ \A F, then : (\A t : Said(t) \notin F) /\ Begin(Adds(F), <<>>, then) => Blank
  /\ \A F, then : (\A t : Said(t) \notin F) /\ Begin(Clears(F), <<>>, then) => Blank
<1>1. commit' = NoCommit => Blank
  BY Nones DEF Blank
<1>2. ASSUME NEW F, NEW then, \A t : Said(t) \notin F, Begin(Adds(F), <<>>, then) PROVE Blank
  BY <1>2 DEF Begin, Adds, Nothing, Blank
<1>3. ASSUME NEW F, NEW then, \A t : Said(t) \notin F, Begin(Clears(F), <<>>, then) PROVE Blank
  BY <1>3 DEF Begin, Clears, Nothing, Blank
<1> QED BY <1>1, <1>2, <1>3

\* So is the one of an attempt.
LEMMA AttemptBlank ==
  /\ \A s, kind, then : Begin(Adds({Attempt(kind, s)}), <<>>, then) => Blank
  /\ \A s, kind, then : Begin(Clears({Attempt(kind, s)}), <<>>, then) => Blank
<1>1. \A s, kind, t : Said(t) # Attempt(kind, s)
  BY DEF Said, Attempt
<1> QED BY <1>1, BlankForms

\* A step that is routed has nothing to do with texts.
LEMMA RouteBlank ==
  /\ \A s, held : Authorize(s, held) => Blank
  /\ \A s, trigger, base, budget, held : BeginCompaction(s, trigger, base, budget, held) => Blank
  /\ \A s, held : RouteModelCall(s, held) => Blank
<1>1. ASSUME NEW s, NEW held, Authorize(s, held) PROVE Blank
  <2>1. commit' = NoCommit \/ Begin(Adds({Attempt("model", s)}), <<>>, "StartModel")
    BY <1>1 DEF Authorize
  <2> QED BY <2>1, AttemptBlank, BlankForms
<1>2. ASSUME NEW s, NEW trigger, NEW base, NEW budget, NEW held,
             BeginCompaction(s, trigger, base, budget, held)
      PROVE  Blank
  <2>1. \/ Begin(Adds({Attempt("summary", s)}), <<>>, "StartCompaction")
        \/ Authorize(s, held)
        \/ commit' = NoCommit
    BY <1>2 DEF BeginCompaction, StartAttempt
  <2> QED BY <2>1, <1>1, AttemptBlank, BlankForms
<1>3. ASSUME NEW s, NEW held, RouteModelCall(s, held) PROVE Blank
  <2>1. \/ commit' = NoCommit
        \/ Authorize(s, held)
        \/ \E pressure \in {"fits", "soft", "hard"} :
             BeginCompaction(s, pressure, after, SpentIn(s[1]), held)
    BY <1>3 DEF RouteModelCall
  <2> QED BY <2>1, <1>1, <1>2, BlankForms
<1> QED BY <1>1, <1>2, <1>3

\* A result that is added to the pending queue is no text.
LEMMA ResultWaits ==
  ASSUME pending \in Seq(Inputs), NEW c \in Calls, pending' = Append(pending, Finished(c))
  PROVE  \A t : Waits(t)' = Waits(t)
<1>1. Finished(c) \in Inputs /\ Finished(c) \notin TextInputs
  BY InputsApart DEF Inputs
<1>2. ASSUME NEW t PROVE Len(Kept(Append(pending, Finished(c)), Asks(t))) = Len(Kept(pending, Asks(t)))
  BY <1>1, CountAppend DEF Asks
<1> QED BY <1>2 DEF Waits

\* What a written commit hands back is handed back.
LEMMA AppliesText ==
  ASSUME Typed, TextInv, FinishCommit, commit.written = "ok"
  PROVE  TextInv'
<1>1. /\ UNCHANGED <<queue, preparing, nextText, disk, journal>>
      /\ returned' = returned \o commit.reaction.back
      /\ pending \in Seq(Inputs) /\ returned \in Seq(Texts) /\ commit \in Commits
      /\ commit.reaction.back \in Seq(Texts) /\ commit.reaction.calls \in SUBSET Calls
  BY DEF FinishCommit, ApplyReaction, agentVars, Typed, InputTyped, FileTyped, Commits, Reactions
<1>2. Blank /\ \A t : Waits(t)' = Waits(t)
  <2>1. CASE commit.reaction.effect = "none"
    BY <2>1, BlankForms DEF FinishCommit, ApplyReaction, Waits
  <2>2. CASE commit.reaction.effect = "call"
    BY <2>2, RouteBlank DEF FinishCommit, ApplyReaction, Waits
  <2>3. CASE commit.reaction.effect = "admit"
    BY <2>3, BlankForms DEF FinishCommit, ApplyReaction, Waits
  <2>4. CASE commit.reaction.effect = "run"
    <3>1. PICK c \in commit.reaction.calls : StartAuthorizedTool(c)
      BY <2>4 DEF FinishCommit, ApplyReaction
    <3>2. commit' = NoCommit /\ (pending' = pending \/ pending' = Append(pending, Finished(c)))
      BY <3>1 DEF StartAuthorizedTool
    <3>3. c \in Calls
      BY <1>1
    <3> QED BY <1>1, <3>2, <3>3, BlankForms, ResultWaits DEF Waits
  <2> QED BY <2>1, <2>2, <2>3, <2>4 DEF FinishCommit, ApplyReaction
<1>3. ASSUME NEW t \in Texts PROVE TextAt(t)'
  <2>1. /\ Waits(t)' = Waits(t) /\ Queued(t)' = Queued(t)
        /\ Prepared(t)' = Prepared(t) /\ InFile(t)' = InFile(t)
        /\ nextText' = nextText /\ journal' = journal
    BY <1>1, <1>2 DEF Queued, Prepared, InFile
  <2>2. /\ Owed(t)' = 0 /\ Told(t)' = 0 /\ Opens(t)' = 0
        /\ Said(t) \notin commit'.reaction.clears
    BY <1>2, BlankIs
  <2>3. Handed(t)' = Handed(t) + Owed(t)
    BY <1>1, TextsConcat DEF Handed, Owed
  <2>4. TextAt(t)
    BY DEF TextInv
  <2> QED BY <2>1, <2>2, <2>3, <2>4, Counted DEF TextAt
<1>4. SureCommit' => commit'.written \in {"no", "ok"}
  BY <1>2 DEF Blank, SureCommit
<1> QED BY <1>3, <1>4 DEF TextInv

\* What a failed commit would have opened or handed back is handed back; only a write of unknown outcome
\* may be in the file nevertheless.
LEMMA FailsText ==
  ASSUME Typed, TextInv, FinishCommit, commit.written # "ok", journal = "open"
  PROVE  TextInv'
<1>1. /\ UNCHANGED <<queue, preparing, nextText, disk, pending>>
      /\ returned' = returned \o commit.rejected /\ commit' = NoCommit
      /\ journal' = commit.written /\ commit.written \in {"refused", "unknown"}
      /\ returned \in Seq(Texts) /\ commit.rejected \in Seq(Texts)
  BY DEF FinishCommit, agentVars, Typed, InputTyped, FileTyped, Commits
<1>2. Blank
  BY <1>1, BlankForms
<1>3. ~SureCommit
  BY <1>1 DEF TextInv
<1>4. ASSUME NEW t \in Texts PROVE TextAt(t)'
  <2>1. /\ Waits(t)' = Waits(t) /\ Queued(t)' = Queued(t)
        /\ Prepared(t)' = Prepared(t) /\ InFile(t)' = InFile(t)
        /\ nextText' = nextText
    BY <1>1 DEF Waits, Queued, Prepared, InFile
  <2>2. /\ Owed(t)' = 0 /\ Told(t)' = 0 /\ Opens(t)' = 0
        /\ Said(t) \notin commit'.reaction.clears
    BY <1>2, BlankIs
  <2>3. Handed(t)' = Handed(t) + Told(t)
    BY <1>1, TextsConcat DEF Handed, Told
  <2>4. TextAt(t)
    BY DEF TextInv
  <2>5. Told(t) = Opens(t) + Owed(t)
    BY <1>3, <2>4 DEF TextAt
  <2>6. /\ nextText \in Nat /\ t \in Nat
    BY BoundsTyped DEF Typed, InputTyped, Texts
  <2>7. CASE t >= nextText
    BY <2>1, <2>2, <2>3, <2>4, <2>5, <2>6, <2>7, Counted DEF TextAt
  <2>10. /\ Waits(t) \in Nat /\ Queued(t) \in Nat /\ Handed(t) \in Nat /\ Owed(t) \in Nat
         /\ Prepared(t) \in {0, 1} /\ InFile(t) \in {0, 1} /\ Opens(t) \in {0, 1}
    BY Counted
  <2>8. CASE t < nextText /\ Opens(t) = 0
    <3>1. Waits(t) + Queued(t) + Handed(t) + Prepared(t) + Owed(t) + InFile(t) = 1
      BY <2>4, <2>8, <2>10 DEF TextAt
    <3>2. /\ Waits(t)' \in Nat /\ Queued(t)' \in Nat /\ Handed(t)' \in Nat
          /\ Prepared(t)' \in Nat /\ InFile(t)' \in Nat
          /\ Waits(t)' + Queued(t)' + Handed(t)' + Prepared(t)' + Owed(t)' + InFile(t)' = 1
      BY <2>1, <2>2, <2>3, <2>5, <2>8, <2>10, <3>1
    <3> QED BY <2>1, <2>2, <2>3, <2>6, <2>8, <2>10, <3>2 DEF TextAt
  <2>9. CASE t < nextText /\ Opens(t) = 1
    <3>1. InFile(t) = 1 => Waits(t) + Queued(t) + Handed(t) + Prepared(t) + Owed(t) = 0
      BY <2>4, <2>9, <2>10 DEF TextAt
    <3>2. CASE InFile(t) = 0
      <4>1. Waits(t) = 0 /\ Queued(t) = 0 /\ Handed(t) = 0 /\ Prepared(t) = 0 /\ Owed(t) = 0
        BY <2>4, <2>9, <2>10, <3>2 DEF TextAt
      <4> QED BY <2>1, <2>2, <2>3, <2>5, <2>6, <2>9, <3>2, <4>1 DEF TextAt
    <3>3. CASE InFile(t) = 1
      <4>1. Waits(t) = 0 /\ Queued(t) = 0 /\ Handed(t) = 0 /\ Prepared(t) = 0 /\ Owed(t) = 0
        <5>1. Waits(t) + Queued(t) + Handed(t) + Prepared(t) + Owed(t) = 0
          BY <3>1, <3>3
        <5>2. Prepared(t) \in Nat
          BY <2>10
        <5> QED BY <2>10, <5>1, <5>2, NoneOfFive
      <4>2. commit.written = "unknown"
        BY <1>1, <2>4, <2>9, <3>3 DEF TextAt
      <4> QED BY <1>1, <2>1, <2>2, <2>3, <2>5, <2>6, <2>9, <3>3, <4>1, <4>2 DEF TextAt
    <3> QED BY <2>10, <3>2, <3>3
  <2> QED BY <2>6, <2>7, <2>8, <2>9, Counted
<1>5. SureCommit' => commit'.written \in {"no", "ok"}
  BY <1>2 DEF Blank, SureCommit
<1> QED BY <1>4, <1>5 DEF TextInv

\* They are numbers in the next state too.
LEMMA CountedNext ==
  ASSUME Typed', NEW t
  PROVE  Waits(t)' \in Nat /\ Queued(t)' \in Nat /\ Handed(t)' \in Nat /\ Prepared(t)' \in {0, 1}
<1>1. pending' \in Seq(Inputs) /\ queue' \in Seq(Texts) /\ returned' \in Seq(Texts)
  BY DEF Typed, AgentTyped, InputTyped
<1>2. ASSUME NEW s \in Seq(Texts) PROVE Len(Kept(s, {t})) \in Nat
  <2>1. Kept(s, {t}) \in Seq(Texts \cap {t})
    BY KeptTyped
  <2> QED BY <2>1
<1>3. Waits(t)' \in Nat
  BY <1>1, CountTyped DEF Waits
<1> QED BY <1>1, <1>2, <1>3 DEF Queued, Handed, Prepared

\* Texts that go from one place of the runtime to another are in one place again.
LEMMA MovesKeep ==
  ASSUME Typed, Typed', TextInv, UNCHANGED <<commit, disk, journal, nextText>>,
         \A t \in Texts : Waits(t)' + Queued(t)' + Handed(t)' + Prepared(t)'
                            = Waits(t) + Queued(t) + Handed(t) + Prepared(t)
  PROVE  TextInv'
<1>1. ASSUME NEW t \in Texts PROVE TextAt(t)'
  <2>1. /\ Owed(t)' = Owed(t) /\ Told(t)' = Told(t) /\ Opens(t)' = Opens(t)
        /\ InFile(t)' = InFile(t) /\ SureCommit' = SureCommit
    BY DEF Owed, Told, Opens, InFile, SureCommit
  <2>2. TextAt(t) /\ nextText \in Nat /\ t \in Nat
    BY BoundsTyped DEF TextInv, Typed, InputTyped, Texts
  <2>3. /\ Waits(t)' \in Nat /\ Queued(t)' \in Nat /\ Handed(t)' \in Nat /\ Prepared(t)' \in {0, 1}
    BY CountedNext
  <2>4. /\ Waits(t) \in Nat /\ Queued(t) \in Nat /\ Handed(t) \in Nat /\ Prepared(t) \in {0, 1}
        /\ Owed(t) \in Nat /\ Opens(t) \in {0, 1} /\ InFile(t) \in {0, 1}
    BY Counted
  <2>5. CASE t >= nextText
    <3>1. /\ Waits(t) = 0 /\ Queued(t) = 0 /\ Handed(t) = 0 /\ Prepared(t) = 0
          /\ Owed(t) = 0 /\ Opens(t) = 0 /\ InFile(t) = 0
      BY <2>2, <2>5 DEF TextAt
    <3>2. Waits(t)' + Queued(t)' + Handed(t)' + Prepared(t)' = 0
      BY <3>1
    <3>3. Waits(t)' = 0 /\ Queued(t)' = 0 /\ Handed(t)' = 0 /\ Prepared(t)' = 0
      <4> DEFINE w == Waits(t)'  q == Queued(t)'  h == Handed(t)'  p == Prepared(t)'
      <4>1. w \in Nat /\ q \in Nat /\ h \in Nat /\ p \in Nat /\ w + q + h + p = 0
        BY <2>3, <3>2
      <4> HIDE DEF w, q, h, p
      <4>2. w = 0 /\ q = 0 /\ h = 0 /\ p = 0
        BY <4>1
      <4> QED BY <4>2 DEF w, q, h, p
    <3> QED BY <2>1, <2>2, <2>5, <3>1, <3>3 DEF TextAt
  <2>6. CASE t < nextText
    <3>1. Waits(t)' + Queued(t)' + Handed(t)' + Prepared(t)' + Owed(t) + InFile(t)
            = Waits(t) + Queued(t) + Handed(t) + Prepared(t) + Owed(t) + InFile(t)
      BY <2>3, <2>4
    <3> QED BY <2>1, <2>2, <2>6, <3>1 DEF TextAt
  <2> QED BY <2>2, <2>5, <2>6
<1>2. SureCommit' => commit'.written \in {"no", "ok"}
  BY DEF TextInv, SureCommit
<1> QED BY <1>1, <1>2 DEF TextInv

\* What the first input asks for waits no more.
LEMMA HeadWaits ==
  ASSUME pending \in Seq(Inputs), pending # <<>>, pending' = Tail(pending)
  PROVE  /\ Head(pending) \in Inputs
         /\ \A t : Waits(t)' \in Nat
         /\ \A t : Waits(t) = Waits(t)' + (IF Head(pending) \in Asks(t) THEN 1 ELSE 0)
<1>1. /\ \A A : Len(Kept(pending, A)) = IF Head(pending) \in A THEN Len(Kept(pending', A)) + 1
                                                              ELSE Len(Kept(pending', A))
      /\ pending' \in Seq(Inputs) /\ Head(pending) \in Inputs
  BY TailFewer DEF Fewer
<1>2. ASSUME NEW t PROVE Len(Kept(pending', Asks(t))) \in Nat
  BY <1>1, CountTyped
<1> QED BY <1>1, <1>2 DEF Waits

\* The next queued text is queued no more.
LEMMA HeadQueued ==
  ASSUME queue \in Seq(Texts), queue # <<>>, queue' = Tail(queue)
  PROVE  /\ Head(queue) \in Texts
         /\ \A t : Queued(t)' \in Nat
         /\ \A t : Queued(t) = Queued(t)' + (IF t = Head(queue) THEN 1 ELSE 0)
<1>1. Head(queue) \in Texts /\ Tail(queue) \in Seq(Texts)
  OBVIOUS
<1>2. ASSUME NEW t PROVE Len(Kept(Tail(queue), {t})) \in Nat
  <2>1. Kept(Tail(queue), {t}) \in Seq(Texts \cap {t})
    <3> DEFINE r == Tail(queue)
    <3>1. r \in Seq(Texts)
      BY <1>1
    <3> HIDE DEF r
    <3>2. Kept(r, {t}) \in Seq(Texts \cap {t})
      BY <3>1, KeptTyped
    <3> QED BY <3>2 DEF r
  <2> QED BY <2>1
<1>3. ASSUME NEW t
      PROVE  Len(Kept(queue, {t})) = IF Head(queue) \in {t} THEN Len(Kept(Tail(queue), {t})) + 1
                                                            ELSE Len(Kept(Tail(queue), {t}))
  <2>1. \A A : Len(Kept(queue, A)) = IF Head(queue) \in A THEN Len(Kept(Tail(queue), A)) + 1
                                                         ELSE Len(Kept(Tail(queue), A))
    <3> TAKE A
    <3> QED BY KeptHead
  <2> QED BY <2>1
<1>4. \A t : Queued(t)' = Len(Kept(Tail(queue), {t})) /\ Queued(t) = Len(Kept(queue, {t}))
  BY DEF Queued
<1>5. ASSUME NEW t PROVE Queued(t)' \in Nat
  BY <1>2, <1>4
<1>6. ASSUME NEW t PROVE Queued(t) = Queued(t)' + (IF t = Head(queue) THEN 1 ELSE 0)
  <2>1. Len(Kept(queue, {t})) = IF Head(queue) \in {t} THEN Queued(t)' + 1 ELSE Queued(t)'
    BY <1>3, <1>4
  <2>2. Queued(t) = IF Head(queue) = t THEN Queued(t)' + 1 ELSE Queued(t)'
    BY <1>4, <2>1
  <2> QED BY <1>5, <2>2
<1> QED BY <1>1, <1>5, <1>6

\* A turn that ends, for the next queued one or for none.
LEMMA TurnEndsText ==
  ASSUME Typed, TextInv, commit = NoCommit, journal = "open",
         \/ TurnEnds
         \/ queue # <<>> /\ TurnOpens(Head(queue), Tail(queue), CloseTurn),
         UNCHANGED <<returned, preparing, nextText, disk, journal>>, \A t : Waits(t)' = Waits(t)
  PROVE  TextInv'
<1>1. CASE TurnEnds
  BY <1>1, QueueReturns DEF TurnEnds
<1>2. CASE queue # <<>> /\ TurnOpens(Head(queue), Tail(queue), CloseTurn)
  <2>1. queue' = Tail(queue) /\ queue \in Seq(Texts)
    BY <1>2 DEF TurnOpens, Typed, AgentTyped
  <2> DEFINE u == Head(queue)
  <2>2. /\ u \in Texts /\ \A t : Queued(t)' \in Nat
        /\ \A t : Queued(t) = Queued(t)' + (IF t = u THEN 1 ELSE 0)
    BY <1>2, <2>1, HeadQueued
  <2>3. TurnOpens(u, queue', CloseTurn)
    BY <1>2, <2>1
  <2> HIDE DEF u
  <2>4. \A t : Waits(t)' \in Nat /\ Waits(t) \in Nat
    BY Counted
  <2>5. \A t : Waits(t)' + Queued(t)' + (IF t = u THEN 1 ELSE 0) = Waits(t) + Queued(t)
    BY <2>2, <2>4
  <2>6. CloseTurn \in {{}, CloseTurn}
    OBVIOUS
  <2> QED BY <2>2, <2>3, <2>4, <2>5, <2>6, TurnOpensKeeps
<1> QED BY <1>1, <1>2

\* A commit of a turn that goes on has nothing to do with texts.
LEMMA BegunBlank ==
  ASSUME NEW clears, NEW effect, NEW calls, Begun({}, clears, effect, calls, <<>>, <<>>, "none"),
         \A t : Said(t) \notin clears
  PROVE  Blank
BY DEF Begun, Blank

\* A call that is settled ends the turn, or has nothing to do with texts.
LEMMA SettledText ==
  ASSUME Steady, TextInv, commit = NoCommit, journal = "open", NEW c \in Calls, CallSettled(c),
         UNCHANGED <<returned, preparing, nextText, disk, journal>>, \A t : Waits(t)' = Waits(t)
  PROVE  TextInv'
<1>1. /\ Typed /\ step \in Steps /\ queue \in Seq(Texts)
      /\ queue # <<>> => step[1] + 1 <= MaxTexts
  BY TurnLeft DEF Steady, Typed, AgentTyped
<1>2. \/ TurnEnds
      \/ queue # <<>> /\ TurnOpens(Head(queue), Tail(queue), CloseTurn)
      \/ StepGoesOn
      \/ CallDone(c)
  BY <1>1, CallSettledIs
<1>3. CASE TurnEnds \/ (queue # <<>> /\ TurnOpens(Head(queue), Tail(queue), CloseTurn))
  BY <1>1, <1>3, TurnEndsText
<1>4. CASE StepGoesOn
  <2>1. \A t : Said(t) \notin {Audited(d) : d \in Calls}
    BY FactsApart
  <2>2. Blank
    BY <1>4, <2>1, BegunBlank DEF StepGoesOn
  <2> QED BY <1>1, <1>4, <2>2, PlainKeeps DEF StepGoesOn, Plain
<1>5. CASE CallDone(c)
  <2>1. Blank
    BY <1>5, BegunBlank DEF CallDone
  <2> QED BY <1>1, <1>5, <2>1, PlainKeeps DEF CallDone, Plain
<1> QED BY <1>2, <1>3, <1>4, <1>5

\* So does a completion that is delivered.
LEMMA DeliverText ==
  ASSUME Steady, TextInv, DeliverCompletion
  PROVE  TextInv'
<1>1. /\ Typed /\ step \in Steps /\ queue \in Seq(Texts)
      /\ queue # <<>> => step[1] + 1 <= MaxTexts
  BY TurnLeft DEF Steady, Typed, AgentTyped
<1>2. /\ commit = NoCommit /\ journal = "open"
      /\ UNCHANGED <<returned, preparing, nextText, disk, journal, pending>>
  BY DEF DeliverCompletion, Settling, After, Uncommitted, inputVars, userVars
<1>3. \A t : Waits(t)' = Waits(t)
  BY <1>2 DEF Waits
<1>4. CASE active.outcome # "cancelled" /\ Streams(active.step)
  <2>1. CompletedStep(active.outcome)
    BY <1>4 DEF DeliverCompletion
  <2>2. \/ TurnEnds
        \/ queue # <<>> /\ TurnOpens(Head(queue), Tail(queue), CloseTurn)
        \/ \E asked \in SUBSET Calls : BatchAsked(asked)
    BY <1>1, <2>1, CompletedStepIs
  <2>3. CASE TurnEnds \/ (queue # <<>> /\ TurnOpens(Head(queue), Tail(queue), CloseTurn))
    BY <1>1, <1>2, <1>3, <2>3, TurnEndsText
  <2>4. CASE \E asked \in SUBSET Calls : BatchAsked(asked)
    <3>1. PICK asked \in SUBSET Calls : BatchAsked(asked)
      BY <2>4
    <3>2. Blank
      BY <3>1, BegunBlank DEF BatchAsked
    <3> QED BY <1>1, <1>2, <1>3, <3>1, <3>2, PlainKeeps DEF BatchAsked, Plain
  <2> QED BY <2>2, <2>3, <2>4
<1>5. CASE ~(active.outcome # "cancelled" /\ Streams(active.step))
  <2>1. UNCHANGED <<queue, commit>>
    BY <1>5 DEF DeliverCompletion, agentVars
  <2> QED BY <1>1, <1>2, <1>3, <2>1, PlainKeeps DEF Plain
<1> QED BY <1>4, <1>5

\* A turn that is aborted.
LEMMA AbortText ==
  ASSUME Typed, TextInv, commit = NoCommit, NEW then \in Thens, NEW keepsTexts \in BOOLEAN,
         AbortTurn(then, keepsTexts), keepsTexts \/ then = "CompleteCompactionFailure",
         UNCHANGED <<returned, preparing, nextText, disk, journal>>, \A t : Waits(t)' = Waits(t)
  PROVE  TextInv'
<1> DEFINE rejected == IF keepsTexts THEN queue ELSE <<>>
<1>1. queue' = <<>> /\ Begun({}, CloseTurn, "none", {}, queue, rejected, then)
  BY AbortIs DEF Typed, AgentTyped
<1>2. rejected = queue \/ then = "CompleteCompactionFailure"
  OBVIOUS
<1> HIDE DEF rejected
<1> QED BY <1>1, <1>2, QueueReturns

\* The next input is taken: a text is prepared, opens its turn, is queued or comes back.
LEMMA TakeText ==
  ASSUME Alive, TakeInput, Typed', TextInv
  PROVE  TextInv'
<1> DEFINE e == Head(pending)
<1>1. /\ Typed /\ Steady /\ commit = NoCommit /\ journal = "open" /\ preparing = NoPreparation
      /\ e \in Inputs /\ UNCHANGED <<disk, journal, nextText>>
      /\ pending \in Seq(Inputs) /\ pending # <<>> /\ pending' = Tail(pending)
      /\ queue \in Seq(Texts) /\ returned \in Seq(Texts)
      /\ e \in TextInputs => step[1] + 1 <= MaxTexts
  BY TakenIs DEF Alive, Lives, Steady, Typed, AgentTyped, InputTyped, TakeInput
<1>2. /\ \A t : Waits(t)' \in Nat
      /\ \A t : Waits(t) = Waits(t)' + (IF e \in Asks(t) THEN 1 ELSE 0)
  BY <1>1, HeadWaits
<1>3. e \in TextInputs \/ e \in ResultInputs \/ e = Interrupted
  BY <1>1, InputsApart
<1>4. CASE e \in TextInputs
  <2> DEFINE u == e.text
  <2>1. e.kind = "text" /\ e.skill \in BOOLEAN /\ u \in Texts
    BY <1>4, InputsApart
  <2>2. \A t : Waits(t) = Waits(t)' + (IF t = u THEN 1 ELSE 0)
    BY <1>2, <1>4 DEF Asks
  <2>3. \A t \in Texts : Prepared(t) = 0
    BY <1>1, Nones, BoundsTyped DEF Prepared, Texts
  <2>4. CASE e.skill
    <3>1. /\ \/ preparing' = [text |-> u, cancelled |-> FALSE] /\ UNCHANGED returned
             \/ returned' = Append(returned, u) /\ UNCHANGED preparing
          /\ UNCHANGED <<queue, commit>>
      BY <2>1, <2>4 DEF TakeInput, PrepareSkillInput, agentVars
    <3> HIDE DEF u
    <3>2. ASSUME NEW t \in Texts
          PROVE  Waits(t)' + Queued(t)' + Handed(t)' + Prepared(t)'
                   = Waits(t) + Queued(t) + Handed(t) + Prepared(t)
      <4>1. Queued(t)' = Queued(t)
        BY <3>1 DEF Queued
      <4>2. /\ Waits(t)' \in Nat /\ Queued(t) \in Nat /\ Handed(t) \in Nat
            /\ Waits(t) = Waits(t)' + (IF t = u THEN 1 ELSE 0) /\ Prepared(t) = 0
        BY <1>1, <1>2, <2>2, <2>3, Counted
      <4>3. CASE preparing' = [text |-> u, cancelled |-> FALSE] /\ UNCHANGED returned
        <5>1. Prepared(t)' = (IF t = u THEN 1 ELSE 0) /\ Handed(t)' = Handed(t)
          BY <4>3 DEF Prepared, Handed
        <5> QED BY <4>1, <4>2, <5>1
      <4>4. CASE returned' = Append(returned, u) /\ UNCHANGED preparing
        <5>1. Handed(t)' = Handed(t) + (IF u = t THEN 1 ELSE 0)
          <6>1. Len(Kept(Append(returned, u), {t})) = Len(Kept(returned, {t})) + (IF u = t THEN 1 ELSE 0)
            <7>1. returned \in Seq(Texts) /\ u \in Texts
              BY <1>1, <2>1
            <7> QED BY <7>1, TextsOne
          <6> QED BY <4>4, <6>1 DEF Handed
        <5>2. Prepared(t)' = 0
          BY <4>2, <4>4 DEF Prepared
        <5> QED BY <4>1, <4>2, <5>1, <5>2
      <4> QED BY <3>1, <4>3, <4>4
    <3> QED BY <1>1, <3>1, <3>2, MovesKeep
  <2>5. CASE ~e.skill /\ phase = "idle"
    <3>1. /\ OpenTurn(u, Nothing, <<u>>) /\ UNCHANGED <<queue, preparing, returned>>
      BY <2>1, <2>5 DEF TakeInput, HandleInput
    <3>2. {} \in SUBSET Facts /\ step \in Steps
      BY <1>1 DEF Typed, AgentTyped
    <3> HIDE DEF u
    <3>3. TurnOpens(u, queue', {})
      BY <1>1, <1>4, <2>1, <3>1, <3>2, NothingTyped, OpenTurnIs
    <3>4. \A t : Queued(t)' = Queued(t) /\ Queued(t) \in Nat
      BY <1>1, <3>1, Counted DEF Queued
    <3>5. \A t : Waits(t)' + Queued(t)' + (IF t = u THEN 1 ELSE 0) = Waits(t) + Queued(t)
      BY <1>2, <2>2, <3>4
    <3>6. \A t : Waits(t)' \in Nat /\ Queued(t)' \in Nat
      BY <1>2, <3>4
    <3>7. {} \in {{}, CloseTurn}
      OBVIOUS
    <3> QED BY <1>1, <2>1, <3>1, <3>3, <3>5, <3>6, <3>7, TurnOpensKeeps
  <2>6. CASE ~e.skill /\ phase # "idle"
    <3>1. queue' = Append(queue, u) /\ UNCHANGED <<preparing, returned, commit>>
      BY <2>1, <2>6 DEF TakeInput, HandleInput
    <3> HIDE DEF u
    <3>2. ASSUME NEW t \in Texts
          PROVE  Waits(t)' + Queued(t)' + Handed(t)' + Prepared(t)'
                   = Waits(t) + Queued(t) + Handed(t) + Prepared(t)
      <4>1. Queued(t)' = Queued(t) + (IF u = t THEN 1 ELSE 0)
        <5>1. Len(Kept(Append(queue, u), {t})) = Len(Kept(queue, {t})) + (IF u = t THEN 1 ELSE 0)
          <6>1. queue \in Seq(Texts) /\ u \in Texts
            BY <1>1, <2>1
          <6> QED BY <6>1, TextsOne
        <5> QED BY <3>1, <5>1 DEF Queued
      <4>2. Handed(t)' = Handed(t) /\ Prepared(t)' = Prepared(t)
        BY <3>1 DEF Handed, Prepared
      <4>3. /\ Waits(t)' \in Nat /\ Queued(t) \in Nat /\ Handed(t) \in Nat
            /\ Waits(t) = Waits(t)' + (IF t = u THEN 1 ELSE 0) /\ Prepared(t) = 0
        BY <1>1, <1>2, <2>2, <2>3, Counted
      <4> QED BY <4>1, <4>2, <4>3
    <3> QED BY <1>1, <3>1, <3>2, MovesKeep
  <2> QED BY <2>1, <2>4, <2>5, <2>6
<1>5. CASE e \in ResultInputs \/ e = Interrupted
  <2>1. \A t : Waits(t)' = Waits(t)
    <3>1. e \notin TextInputs
      BY <1>5, InputsApart
    <3> QED BY <1>2, <3>1 DEF Asks
  <2>2. HandleInput(e) /\ e.kind # "text" /\ UNCHANGED <<preparing, returned>>
    <3>1. e.kind # "text"
      BY <1>5, InputsApart
    <3> QED BY <3>1 DEF TakeInput, HandleInput
  <2>3. CASE UNCHANGED <<agentVars, commit>>
    BY <1>1, <2>1, <2>2, <2>3, PlainKeeps DEF Plain, agentVars
  <2>4. CASE AbortTurn("Interrupt", TRUE)
    <3>1. "Interrupt" \in Thens /\ TRUE \in BOOLEAN
      BY DEF Thens
    <3> QED BY <1>1, <2>1, <2>2, <2>4, <3>1, AbortText
  <2>5. CASE e.kind = "finished" /\ CallSettled(e.call)
    <3>1. e.call \in Calls
      BY <1>5, <2>5, InputsApart
    <3> DEFINE c == e.call
    <3>2. c \in Calls /\ CallSettled(c)
      BY <2>5, <3>1
    <3> HIDE DEF c
    <3> QED BY <1>1, <2>1, <2>2, <3>2, SettledText
  <2> QED BY <2>2, <2>3, <2>4, <2>5 DEF HandleInput
<1> QED BY <1>3, <1>4, <1>5

\* What is prepared is one text, or none.
LEMMA PreparedCounts ==
  ASSUME Typed, NEW t \in Texts
  PROVE  PreparedText \in Seq(Texts) /\ Len(Kept(PreparedText, {t})) = Prepared(t)
<1>1. CASE preparing = NoPreparation
  <2>1. <<>> \in Seq(Texts) /\ Kept(<<>>, {t}) = <<>> /\ Len(<<>>) = 0
    BY KeptEmpty
  <2>2. Prepared(t) = 0
    BY <1>1, Nones, BoundsTyped DEF Prepared, Texts
  <2> QED BY <1>1, <2>1, <2>2 DEF PreparedText
<1>2. CASE preparing # NoPreparation
  <2> DEFINE u == preparing.text
  <2>1. u \in Texts
    BY <1>2, BoundsTyped DEF Typed, InputTyped, Preparations, Texts
  <2>2. PreparedText = <<u>> /\ Prepared(t) = IF u = t THEN 1 ELSE 0
    BY <1>2 DEF PreparedText, Prepared
  <2>3. <<>> \in Seq(Texts)
    OBVIOUS
  <2> HIDE DEF u
  <2>4. <<u>> \in Seq(Texts)
    BY <2>1
  <2>5. Len(Kept(<<u>>, {t})) = IF u = t THEN 1 ELSE 0
    BY <2>1, <2>3, TextsOne
  <2> QED BY <2>2, <2>4, <2>5
<1> QED BY <1>1, <1>2

\* The texts of a part of the queue.
LEMMA PartCounts ==
  ASSUME pending \in Seq(Inputs), NEW A, NEW t
  PROVE  /\ Kept(pending, A) \in Seq(Inputs) /\ TextsOf(Kept(pending, A)) \in Seq(Texts)
         /\ Len(Kept(TextsOf(Kept(pending, A)), {t})) = Len(Kept(pending, A \cap Asks(t)))
         /\ Len(Kept(Kept(pending, A), Asks(t))) = Len(Kept(pending, A \cap Asks(t)))
         /\ Len(Kept(pending, A \cap Asks(t))) \in Nat
<1> DEFINE k == Kept(pending, A)
<1>1. k \in Seq(Inputs) /\ Len(Kept(pending, A \cap Asks(t))) \in Nat
  BY CountTyped
<1>2. Kept(k, Asks(t)) = Kept(pending, A \cap Asks(t))
  BY KeptKept
<1> HIDE DEF k
<1>3. TextsOf(k) \in Seq(Texts)
  BY <1>1, TextsOfTyped
<1>4. Len(Kept(TextsOf(k), {t})) = Len(Kept(k, Asks(t)))
  BY <1>1, TextsKept
<1> QED BY <1>1, <1>2, <1>3, <1>4 DEF k

\* A text that waits asks for a skill or it does not.
LEMMA SplitCounts ==
  ASSUME Typed, NEW t
  PROVE  /\ SkillTextsPending \in Seq(Texts) /\ TextsOf(OthersPending) \in Seq(Texts)
         /\ Len(Kept(SkillTextsPending, {t})) \in Nat /\ Len(Kept(OthersPending, Asks(t))) \in Nat
         /\ Len(Kept(TextsOf(OthersPending), {t})) = Len(Kept(OthersPending, Asks(t)))
         /\ Len(Kept(SkillTextsPending, {t})) + Len(Kept(OthersPending, Asks(t))) = Waits(t)
<1> DEFINE A == SkillInputs \cap Asks(t)   B == (Inputs \ SkillInputs) \cap Asks(t)
<1>1. pending \in Seq(Inputs)
  BY DEF Typed, InputTyped
<1>2. A \cap B = {} /\ A \cup B = Asks(t)
  BY InputsApart DEF Asks
<1>3. /\ SkillTextsPending \in Seq(Texts)
      /\ Len(Kept(SkillTextsPending, {t})) = Len(Kept(pending, A))
      /\ Len(Kept(pending, A)) \in Nat
  BY <1>1, PartCounts DEF SkillTextsPending
<1>4. /\ TextsOf(OthersPending) \in Seq(Texts)
      /\ Len(Kept(TextsOf(OthersPending), {t})) = Len(Kept(pending, B))
      /\ Len(Kept(OthersPending, Asks(t))) = Len(Kept(pending, B))
      /\ Len(Kept(pending, B)) \in Nat
  BY <1>1, PartCounts DEF OthersPending
<1> HIDE DEF A, B
<1>5. Len(Kept(pending, A \cup B)) = Len(Kept(pending, A)) + Len(Kept(pending, B))
  BY <1>1, <1>2, KeptCounts
<1>6. Waits(t) = Len(Kept(pending, A)) + Len(Kept(pending, B))
  BY <1>2, <1>5 DEF Waits
<1> QED BY <1>3, <1>4, <1>6

\* The runtime gives back what it was preparing and the skill texts that waited.
LEMMA StopsKeep ==
  ASSUME Typed, Typed', TextInv, UNCHANGED <<commit, disk, journal, nextText, queue>>,
         preparing' = NoPreparation, pending' = OthersPending,
         returned' = returned \o PreparedText \o SkillTextsPending
  PROVE  TextInv'
<1>1. ASSUME NEW t \in Texts
      PROVE  Waits(t)' + Queued(t)' + Handed(t)' + Prepared(t)'
               = Waits(t) + Queued(t) + Handed(t) + Prepared(t)
  <2> DEFINE a == PreparedText  b == SkillTextsPending  r == returned \o a
  <2>1. /\ a \in Seq(Texts) /\ Len(Kept(a, {t})) = Prepared(t)
    BY PreparedCounts
  <2>2. /\ b \in Seq(Texts) /\ Len(Kept(b, {t})) \in Nat /\ Len(Kept(OthersPending, Asks(t))) \in Nat
        /\ Len(Kept(b, {t})) + Len(Kept(OthersPending, Asks(t))) = Waits(t)
    BY SplitCounts
  <2>3. returned \in Seq(Texts) /\ returned' = r \o b
    BY DEF Typed, InputTyped
  <2> HIDE DEF a, b
  <2>4. r \in Seq(Texts) /\ Len(Kept(r, {t})) = Len(Kept(returned, {t})) + Len(Kept(a, {t}))
    BY <2>1, <2>3, TextsConcat
  <2> HIDE DEF r
  <2>5. Len(Kept(r \o b, {t})) = Len(Kept(r, {t})) + Len(Kept(b, {t}))
    BY <2>2, <2>4, TextsConcat
  <2>6. Handed(t)' = Handed(t) + Prepared(t) + Len(Kept(b, {t}))
    BY <2>1, <2>3, <2>4, <2>5 DEF Handed
  <2>7. Waits(t)' = Len(Kept(OthersPending, Asks(t))) /\ Queued(t)' = Queued(t)
    BY DEF Waits, Queued
  <2>8. Prepared(t)' = 0
    BY Nones, BoundsTyped DEF Prepared, Texts
  <2>9. /\ Waits(t) \in Nat /\ Queued(t) \in Nat /\ Handed(t) \in Nat /\ Prepared(t) \in {0, 1}
    BY Counted
  <2> DEFINE x == Len(Kept(b, {t}))  y == Len(Kept(OthersPending, Asks(t)))
  <2>10. /\ Waits(t)' = y /\ Handed(t)' = Handed(t) + Prepared(t) + x
         /\ x \in Nat /\ y \in Nat /\ x + y = Waits(t)
    BY <2>2, <2>6, <2>7
  <2> HIDE DEF x, y
  <2> QED BY <2>7, <2>8, <2>9, <2>10
<1> QED BY <1>1, MovesKeep

\* An error that is returned ends what the runtime owns, or nothing.
LEMMA ReturnErrorText ==
  ASSUME Typed, Typed', TextInv, ReturnError
  PROVE  TextInv'
<1>1. CASE call = "shutdown" \/ journal # "open"
  BY <1>1, StopsKeep DEF ReturnError, FinishFailedOwners, agentVars
<1>2. CASE ~(call = "shutdown" \/ journal # "open")
  <2>1. UNCHANGED <<commit, disk, journal, nextText, queue, pending, preparing, returned>>
    BY <1>2 DEF ReturnError, agentVars, inputVars, userVars
  <2> QED BY <2>1, PlainKeeps DEF Plain, Waits
<1> QED BY <1>1, <1>2

\* So does a failed journal.
LEMMA ReturnFailedText ==
  ASSUME Typed, Typed', TextInv, ReturnFailed
  PROVE  TextInv'
<1>1. /\ UNCHANGED <<commit, disk, journal, nextText, queue>> /\ preparing' = NoPreparation
      /\ pending \in Seq(Inputs) /\ returned \in Seq(Texts)
  BY DEF ReturnFailed, FinishFailedOwners, agentVars, Typed, InputTyped
<1>2. CASE preparing # NoPreparation
  BY <1>1, <1>2, StopsKeep DEF ReturnFailed
<1>3. CASE preparing = NoPreparation
  <2>1. ASSUME NEW t \in Texts
        PROVE  Waits(t)' + Queued(t)' + Handed(t)' + Prepared(t)'
                 = Waits(t) + Queued(t) + Handed(t) + Prepared(t)
    <3>1. pending' = <<>> /\ returned' = returned \o TextsOf(pending)
      BY <1>3 DEF ReturnFailed
    <3>2. Waits(t)' = 0
      <4>1. Kept(<<>>, Asks(t)) = <<>> /\ Len(<<>>) = 0
        BY KeptEmpty
      <4> QED BY <3>1, <4>1 DEF Waits
    <3> DEFINE a == TextsOf(pending)
    <3>3. a \in Seq(Texts)
      BY <1>1, TextsOfTyped
    <3>4. Len(Kept(a, {t})) = Waits(t)
      BY <1>1, TextsKept DEF Waits
    <3> HIDE DEF a
    <3>5. Len(Kept(returned \o a, {t})) = Len(Kept(returned, {t})) + Len(Kept(a, {t}))
      BY <1>1, <3>3, TextsConcat
    <3>6. Handed(t)' = Handed(t) + Waits(t)
      BY <3>1, <3>4, <3>5 DEF Handed, a
    <3>7. Queued(t)' = Queued(t) /\ Prepared(t)' = Prepared(t)
      BY <1>1, <1>3 DEF Queued, Prepared
    <3> QED BY <3>2, <3>6, <3>7, Counted
  <2> QED BY <1>1, <2>1, MovesKeep
<1> QED BY <1>2, <1>3

\* A shutdown that is asked for gives back what it will not take any more.
LEMMA ShutdownText ==
  ASSUME Typed, Typed', TextInv, Shutdown
  PROVE  TextInv'
<1>1. /\ UNCHANGED <<commit, disk, journal, nextText, queue>> /\ preparing' = NoPreparation
      /\ pending \in Seq(Inputs) /\ returned \in Seq(Texts)
  BY DEF Shutdown, agentVars, Typed, InputTyped
<1>2. ASSUME NEW t \in Texts
      PROVE  Waits(t)' + Queued(t)' + Handed(t)' + Prepared(t)'
               = Waits(t) + Queued(t) + Handed(t) + Prepared(t)
  <2> DEFINE a == PreparedText  b == SkillTextsPending
             c == IF RequestedCompactionActive THEN TextsOf(OthersPending) ELSE <<>>
             r == returned \o a  s == r \o b
             x == Len(Kept(b, {t}))  y == Len(Kept(OthersPending, Asks(t)))
             z == Len(Kept(c, {t}))
  <2>1. /\ a \in Seq(Texts) /\ Len(Kept(a, {t})) = Prepared(t)
    BY PreparedCounts
  <2>2. b \in Seq(Texts) /\ x \in Nat /\ y \in Nat /\ x + y = Waits(t)
    BY SplitCounts
  <2>3. returned' = s \o c
    BY DEF Shutdown
  <2>4. c \in Seq(Texts) /\ Waits(t)' \in Nat /\ Waits(t)' + z = y
    <3>1. CASE RequestedCompactionActive
      <4>1. c = TextsOf(OthersPending) /\ c \in Seq(Texts) /\ z = y
        BY <3>1, SplitCounts
      <4>2. pending' = Kept(pending, Inputs \ TextInputs)
        BY <3>1 DEF Shutdown, Controls
      <4>3. (Inputs \ TextInputs) \cap Asks(t) = {} /\ Inputs \cap {} = {} /\ Len(<<>>) = 0
        BY DEF Asks
      <4>4. Kept(pending, {}) = <<>>
        BY <1>1, <4>3, KeptNone
      <4>5. Len(Kept(Kept(pending, Inputs \ TextInputs), Asks(t)))
              = Len(Kept(pending, (Inputs \ TextInputs) \cap Asks(t)))
        BY <1>1, PartCounts
      <4>6. Waits(t)' = 0
        BY <4>2, <4>3, <4>4, <4>5 DEF Waits
      <4> HIDE DEF x, y, z, c
      <4> QED BY <2>2, <4>1, <4>6
    <3>2. CASE ~RequestedCompactionActive
      <4>1. c = <<>> /\ <<>> \in Seq(Texts) /\ Len(<<>>) = 0 /\ Kept(<<>>, {t}) = <<>>
        BY <3>2, KeptEmpty
      <4>2. z = 0
        BY <4>1
      <4>3. Waits(t)' = y
        BY <3>2 DEF Shutdown, Waits
      <4> HIDE DEF x, y, z, c
      <4> QED BY <2>2, <4>1, <4>2, <4>3
    <3> QED BY <3>1, <3>2
  <2> HIDE DEF a, b, c, y
  <2>5. r \in Seq(Texts) /\ Len(Kept(r, {t})) = Len(Kept(returned, {t})) + Len(Kept(a, {t}))
    BY <1>1, <2>1, TextsConcat
  <2> HIDE DEF r
  <2>6. s \in Seq(Texts) /\ Len(Kept(s, {t})) = Len(Kept(r, {t})) + x
    BY <2>2, <2>5, TextsConcat
  <2> HIDE DEF s
  <2>7. Len(Kept(s \o c, {t})) = Len(Kept(s, {t})) + z
    BY <2>4, <2>6, TextsConcat
  <2>8. Handed(t)' = Handed(t) + Prepared(t) + x + z
    BY <2>1, <2>3, <2>5, <2>6, <2>7 DEF Handed
  <2>9. Prepared(t)' = 0 /\ Queued(t)' = Queued(t)
    BY <1>1, Nones, BoundsTyped DEF Prepared, Queued, Texts
  <2>10. /\ Waits(t) \in Nat /\ Queued(t) \in Nat /\ Handed(t) \in Nat /\ Prepared(t) \in {0, 1}
    BY Counted
  <2>11. z \in Nat
    <3>1. \A u \in Seq(Texts) : Len(Kept(u, {t})) \in Nat
      <4> TAKE u \in Seq(Texts)
      <4>1. Kept(u, {t}) \in Seq(Texts \cap {t})
        BY KeptTyped
      <4> QED BY <4>1
    <3> QED BY <2>4, <3>1
  <2> HIDE DEF x, z
  <2> DEFINE w == Waits(t)'  h == Handed(t)'  p == Prepared(t)'  q == Queued(t)'
  <2>12. /\ w \in Nat /\ h = Handed(t) + Prepared(t) + x + z /\ p = 0 /\ q = Queued(t)
         /\ w + z = y /\ x + y = Waits(t) /\ x \in Nat /\ y \in Nat /\ z \in Nat
    BY <2>2, <2>4, <2>8, <2>9, <2>11
  <2> HIDE DEF w, h, p, q
  <2>13. w + q + h + p = Waits(t) + Queued(t) + Handed(t) + Prepared(t)
    BY <2>10, <2>12
  <2> QED BY <2>13 DEF w, h, p, q
<1> QED BY <1>1, <1>2, MovesKeep

\* An interrupt gives back the texts that wait.
LEMMA InterruptText ==
  ASSUME Typed, Typed', TextInv, SubmitInterrupt
  PROVE  TextInv'
<1>1. /\ UNCHANGED <<commit, disk, journal, nextText, queue>>
      /\ pending \in Seq(Inputs) /\ returned \in Seq(Texts)
      /\ pending' = Interrupting /\ returned' = returned \o TextsOf(pending)
  BY DEF SubmitInterrupt, agentVars, Typed, InputTyped
<1>2. preparing'.text = preparing.text
  <2>1. preparing \in Preparations
    BY DEF Typed, InputTyped
  <2> QED BY <2>1 DEF SubmitInterrupt, Preparations
<1>3. ASSUME NEW t \in Texts
      PROVE  Waits(t)' + Queued(t)' + Handed(t)' + Prepared(t)'
               = Waits(t) + Queued(t) + Handed(t) + Prepared(t)
  <2>1. Waits(t)' = 0
    <3>1. pending' \in Seq(Inputs) /\ Len(Kept(pending', TextInputs)) = 0
      BY <1>1, InterruptingIs
    <3>2. Asks(t) \subseteq TextInputs
      BY DEF Asks
    <3>3. Len(Kept(pending', Asks(t))) <= 0
      BY <3>1, <3>2, CountPart
    <3>4. Len(Kept(pending', Asks(t))) \in Nat
      BY <3>1, CountTyped
    <3> QED BY <3>3, <3>4 DEF Waits
  <2> DEFINE a == TextsOf(pending)
  <2>2. a \in Seq(Texts)
    BY <1>1, TextsOfTyped
  <2>3. Len(Kept(a, {t})) = Waits(t)
    BY <1>1, TextsKept DEF Waits
  <2> HIDE DEF a
  <2>4. Len(Kept(returned \o a, {t})) = Len(Kept(returned, {t})) + Len(Kept(a, {t}))
    BY <1>1, <2>2, TextsConcat
  <2>5. Handed(t)' = Handed(t) + Waits(t)
    BY <1>1, <2>3, <2>4 DEF Handed, a
  <2>6. Queued(t)' = Queued(t) /\ Prepared(t)' = Prepared(t)
    BY <1>1, <1>2 DEF Queued, Prepared
  <2> QED BY <2>1, <2>5, <2>6, Counted
<1> QED BY <1>1, <1>3, MovesKeep

\* A skill that was read lets its text wait again; one that was not gives it back.
LEMMA SkillText ==
  ASSUME Typed, Typed', TextInv, NEW found, SkillLoaded(found)
  PROVE  TextInv'
<1> DEFINE u == preparing.text
<1>1. /\ UNCHANGED <<commit, disk, journal, nextText, queue>> /\ preparing' = NoPreparation
      /\ pending \in Seq(Inputs) /\ returned \in Seq(Texts) /\ preparing # NoPreparation
      /\ \/ pending' = <<Text(u, FALSE)>> \o pending /\ returned' = returned
         \/ returned' = Append(returned, u) /\ pending' = pending
  BY DEF SkillLoaded, agentVars, Typed, InputTyped
<1>2. u \in Texts
  BY <1>1, BoundsTyped DEF Typed, InputTyped, Preparations, Texts
<1>3. ASSUME NEW t \in Texts
      PROVE  Waits(t)' + Queued(t)' + Handed(t)' + Prepared(t)'
               = Waits(t) + Queued(t) + Handed(t) + Prepared(t)
  <2>1. /\ Queued(t)' = Queued(t) /\ Prepared(t)' = 0
        /\ Prepared(t) = IF u = t THEN 1 ELSE 0
    BY <1>1, Nones, BoundsTyped DEF Queued, Prepared, Texts
  <2>2. /\ Waits(t) \in Nat /\ Queued(t) \in Nat /\ Handed(t) \in Nat
    BY Counted
  <2> HIDE DEF u
  <2>3. CASE pending' = <<Text(u, FALSE)>> \o pending /\ returned' = returned
    <3> DEFINE e == Text(u, FALSE)
    <3>1. e \in Inputs /\ (e \in Asks(t) <=> u = t)
      BY <1>2, InputsApart DEF Asks
    <3> HIDE DEF e
    <3>2. pending' = <<e>> \o pending
      BY <2>3 DEF e
    <3>3. \A A : Len(Kept(pending', A))
                   = IF e \in A THEN Len(Kept(pending, A)) + 1 ELSE Len(Kept(pending, A))
      BY <1>1, <3>1, <3>2, PrependIs
    <3>4. Waits(t)' = IF u = t THEN Waits(t) + 1 ELSE Waits(t)
      BY <3>1, <3>3 DEF Waits
    <3>5. Handed(t)' = Handed(t)
      BY <2>3 DEF Handed
    <3> QED BY <2>1, <2>2, <3>4, <3>5
  <2>4. CASE returned' = Append(returned, u) /\ pending' = pending
    <3>1. Handed(t)' = Handed(t) + (IF u = t THEN 1 ELSE 0)
      BY <1>1, <1>2, <2>4, TextsOne DEF Handed
    <3>2. Waits(t)' = Waits(t)
      BY <2>4 DEF Waits
    <3> QED BY <2>1, <2>2, <3>1, <3>2
  <2> QED BY <1>1, <2>3, <2>4 DEF u
<1> QED BY <1>1, <1>3, MovesKeep

\* A text that arrives is in one place, and the others stay.
LEMMA ArrivesKeeps ==
  ASSUME Typed, Typed', TextInv, UNCHANGED <<commit, disk, journal, queue, preparing>>,
         nextText \in Texts, nextText' = nextText + 1,
         \A t \in Texts : Waits(t)' + Handed(t)'
                            = Waits(t) + Handed(t) + (IF t = nextText THEN 1 ELSE 0)
  PROVE  TextInv'
<1>1. ASSUME NEW t \in Texts PROVE TextAt(t)'
  <2>1. /\ Owed(t)' = Owed(t) /\ Told(t)' = Told(t) /\ Opens(t)' = Opens(t)
        /\ InFile(t)' = InFile(t) /\ SureCommit' = SureCommit
        /\ Queued(t)' = Queued(t) /\ Prepared(t)' = Prepared(t)
    BY DEF Owed, Told, Opens, InFile, SureCommit, Queued, Prepared
  <2>2. TextAt(t) /\ nextText \in Nat /\ t \in Nat
    BY BoundsTyped DEF TextInv, Texts
  <2>3. Waits(t)' \in Nat /\ Handed(t)' \in Nat
    BY CountedNext
  <2>4. /\ Waits(t) \in Nat /\ Queued(t) \in Nat /\ Handed(t) \in Nat /\ Prepared(t) \in {0, 1}
        /\ Owed(t) \in Nat /\ Opens(t) \in {0, 1} /\ InFile(t) \in {0, 1}
    BY Counted
  <2> DEFINE w == Waits(t)'  h == Handed(t)'
  <2>5. /\ w \in Nat /\ h \in Nat
        /\ w + h = Waits(t) + Handed(t) + (IF t = nextText THEN 1 ELSE 0)
    BY <2>3
  <2>6. CASE t > nextText
    <3>1. /\ Waits(t) = 0 /\ Queued(t) = 0 /\ Handed(t) = 0 /\ Prepared(t) = 0
          /\ Owed(t) = 0 /\ Opens(t) = 0 /\ InFile(t) = 0
      BY <2>2, <2>6 DEF TextAt
    <3>2. w = 0 /\ h = 0
      <4> HIDE DEF w, h
      <4> QED BY <2>2, <2>5, <2>6, <3>1
    <3> QED BY <2>1, <2>2, <2>6, <3>1, <3>2 DEF TextAt
  <2>7. CASE t = nextText
    <3>1. /\ Waits(t) = 0 /\ Queued(t) = 0 /\ Handed(t) = 0 /\ Prepared(t) = 0
          /\ Owed(t) = 0 /\ Opens(t) = 0 /\ InFile(t) = 0
      BY <2>2, <2>7 DEF TextAt
    <3>2. w + h = 1
      <4> HIDE DEF w, h
      <4> QED BY <2>5, <2>7, <3>1
    <3>3. /\ Waits(t)' \in Nat /\ Handed(t)' \in Nat /\ Waits(t)' + Handed(t)' = 1
          /\ Queued(t)' = 0 /\ Prepared(t)' = 0 /\ Owed(t)' = 0 /\ InFile(t)' = 0 /\ Opens(t)' = 0
      BY <2>1, <2>3, <3>1, <3>2
    <3> QED BY <2>1, <2>2, <2>7, <3>1, <3>3 DEF TextAt
  <2>8. CASE t < nextText
    <3>1. w + h = Waits(t) + Handed(t)
      <4> HIDE DEF w, h
      <4> QED BY <2>2, <2>4, <2>5, <2>8
    <3>2. /\ Waits(t)' \in Nat /\ Handed(t)' \in Nat
          /\ Waits(t)' + Handed(t)' = Waits(t) + Handed(t)
      BY <2>3, <3>1
    <3> DEFINE q == Queued(t)'  p == Prepared(t)'  o == Owed(t)'  f == InFile(t)'
    <3>3. /\ q = Queued(t) /\ p = Prepared(t) /\ o = Owed(t) /\ f = InFile(t)
      BY <2>1
    <3>4. w + q + h + p + o + f
            = Waits(t) + Queued(t) + Handed(t) + Prepared(t) + Owed(t) + InFile(t)
      <4> HIDE DEF w, h, q, p, o, f
      <4> QED BY <2>4, <2>5, <3>1, <3>3
    <3> QED BY <2>1, <2>2, <2>4, <2>8, <3>2, <3>4 DEF TextAt
  <2> QED BY <2>2, <2>6, <2>7, <2>8
<1>2. SureCommit' => commit'.written \in {"no", "ok"}
  BY DEF TextInv, SureCommit
<1> QED BY <1>1, <1>2 DEF TextInv

\* A submitted text waits, or comes back at once.
LEMMA SubmitText ==
  ASSUME Typed, Typed', TextInv, Submit
  PROVE  TextInv'
<1>1. /\ UNCHANGED <<commit, disk, journal, queue, preparing>>
      /\ nextText \in Texts /\ nextText' = nextText + 1
      /\ pending \in Seq(Inputs) /\ returned \in Seq(Texts)
      /\ \/ pending' = Append(pending, Text(nextText, nextText \in SkillTexts)) /\ returned' = returned
         \/ returned' = Append(returned, nextText) /\ pending' = pending
  BY DEF Submit, agentVars, Typed, InputTyped
<1>2. ASSUME NEW t \in Texts
      PROVE  Waits(t)' + Handed(t)' = Waits(t) + Handed(t) + (IF t = nextText THEN 1 ELSE 0)
  <2>1. /\ Waits(t) \in Nat /\ Handed(t) \in Nat
    BY Counted
  <2>2. CASE pending' = Append(pending, Text(nextText, nextText \in SkillTexts)) /\ returned' = returned
    <3> DEFINE b == nextText \in SkillTexts   e == Text(nextText, b)
    <3>1. b \in BOOLEAN
      OBVIOUS
    <3>2. pending' = Append(pending, e)
      BY <2>2
    <3> HIDE DEF b
    <3>3. e \in Inputs /\ (e \in Asks(t) <=> nextText = t)
      BY <1>1, <3>1, InputsApart DEF Asks
    <3> HIDE DEF e
    <3>4. Len(Kept(Append(pending, e), Asks(t)))
            = IF e \in Asks(t) THEN Len(Kept(pending, Asks(t))) + 1 ELSE Len(Kept(pending, Asks(t)))
      BY <1>1, <3>3, CountAppend
    <3>5. Waits(t)' = IF nextText = t THEN Waits(t) + 1 ELSE Waits(t)
      BY <3>2, <3>3, <3>4 DEF Waits
    <3>6. Handed(t)' = Handed(t)
      BY <2>2 DEF Handed
    <3> QED BY <2>1, <3>5, <3>6
  <2>3. CASE returned' = Append(returned, nextText) /\ pending' = pending
    <3>1. Handed(t)' = Handed(t) + (IF nextText = t THEN 1 ELSE 0)
      BY <1>1, <2>3, TextsOne DEF Handed
    <3>2. Waits(t)' = Waits(t)
      BY <2>3 DEF Waits
    <3> QED BY <2>1, <3>1, <3>2
  <2> QED BY <1>1, <2>2, <2>3
<1> QED BY <1>1, <1>2, ArrivesKeeps

\* The driver's steps that are about no text.
LEMMA DrivesPlain ==
  ASSUME Typed, TextInv,
         \/ StartModel \/ StartCompaction \/ RecoverContext \/ ReleaseModel \/ RouteDeferred
         \/ FinishStop \/ PublishCompaction \/ CompleteCompactionFailure \/ FinishShutdown
  PROVE  TextInv'
<1>1. UNCHANGED <<queue, returned, preparing, nextText, disk, journal, pending>>
  BY DEF StartModel, StartCompaction, RecoverContext, ReleaseModel, RouteDeferred, FinishStop,
         PublishCompaction, CompleteCompactionFailure, FinishShutdown, agentVars, inputVars, userVars
<1>2. commit' = commit \/ (commit = NoCommit /\ Blank)
  <2>1. CASE StartModel
    <3>1. \/ Begin(Clears({Attempt("model", starting.step)}), <<>>, "none")
          \/ commit' = commit
      BY <2>1 DEF StartModel
    <3> QED BY <2>1, <3>1, AttemptBlank DEF StartModel, After, Uncommitted
  <2>2. CASE StartCompaction
    <3>1. \/ Begin(Clears({Attempt("summary", compaction.step)}), <<>>, "FinishCompaction")
          \/ commit' = commit
      BY <2>2 DEF StartCompaction
    <3> QED BY <2>2, <3>1, AttemptBlank DEF StartCompaction, After, Uncommitted
  <2>3. CASE RecoverContext
    <3>1. commit = NoCommit
      BY <2>3 DEF RecoverContext, Settling, After, Uncommitted
    <3>2. \/ \E budget : BeginCompaction(active.step, "context", "none", budget, deferred)
          \/ commit' = commit
      BY <2>3 DEF RecoverContext
    <3> QED BY <3>1, <3>2, RouteBlank
  <2>4. CASE RouteDeferred
    <3>1. commit = NoCommit /\ RouteModelCall(deferred, NoStep)
      BY <2>4 DEF RouteDeferred, After, Uncommitted
    <3> QED BY <3>1, RouteBlank
  <2>5. CASE PublishCompaction
    <3>1. commit = NoCommit /\ (commit' = commit \/ Authorize(compaction.step, deferred))
      BY <2>5 DEF PublishCompaction, After, Uncommitted
    <3> QED BY <3>1, RouteBlank
  <2>6. CASE ReleaseModel \/ FinishStop \/ CompleteCompactionFailure \/ FinishShutdown
    BY <2>6 DEF ReleaseModel, FinishStop, CompleteCompactionFailure, FinishShutdown
  <2> QED BY <2>1, <2>2, <2>3, <2>4, <2>5, <2>6
<1> QED BY <1>1, <1>2, PlainKeeps DEF Plain, Waits

\* The end of a summary, which may be the end of the turn.
LEMMA CompactionText ==
  ASSUME Typed, TextInv, FinishCompaction \/ FailCompaction
  PROVE  TextInv'
<1>1. /\ UNCHANGED <<returned, preparing, nextText, disk, journal, pending>>
      /\ commit = NoCommit
  BY DEF FinishCompaction, FailCompaction, After, Uncommitted, inputVars, userVars
<1>2. \/ UNCHANGED <<agentVars, commit>>
      \/ Begin(Nothing, <<>>, "PublishCompaction") /\ UNCHANGED agentVars
      \/ Authorize(compaction.step, deferred) /\ UNCHANGED agentVars
      \/ AbortTurn("CompleteCompactionFailure", FALSE)
  <2>1. CASE FinishCompaction
    BY <2>1 DEF FinishCompaction
  <2>2. CASE FailCompaction
    BY <2>2 DEF FailCompaction
  <2> QED BY <2>1, <2>2
<1>3. \A t : Waits(t)' = Waits(t)
  BY <1>1 DEF Waits
<1>4. CASE UNCHANGED <<agentVars, commit>>
  BY <1>1, <1>3, <1>4, PlainKeeps DEF Plain, agentVars
<1>5. CASE Begin(Nothing, <<>>, "PublishCompaction") /\ UNCHANGED agentVars
  <2>1. Blank
    BY <1>5 DEF Begin, Nothing, Blank
  <2> QED BY <1>1, <1>3, <1>5, <2>1, PlainKeeps DEF Plain, agentVars
<1>6. CASE Authorize(compaction.step, deferred) /\ UNCHANGED agentVars
  <2>1. Blank
    BY <1>6, RouteBlank
  <2> QED BY <1>1, <1>3, <1>6, <2>1, PlainKeeps DEF Plain, agentVars
<1>7. CASE AbortTurn("CompleteCompactionFailure", FALSE)
  <2>1. "CompleteCompactionFailure" \in Thens /\ FALSE \in BOOLEAN
    BY DEF Thens
  <2> QED BY <1>1, <1>3, <1>7, <2>1, AbortText
<1> QED BY <1>2, <1>4, <1>5, <1>6, <1>7

\* A shutdown ends the turn that is open.
LEMMA SettleText ==
  ASSUME Typed, TextInv, SettleShutdown
  PROVE  TextInv'
<1>1. /\ UNCHANGED <<returned, preparing, nextText, disk, journal, pending>>
      /\ commit = NoCommit
      /\ AbortTurn("Shutdown", TRUE) \/ UNCHANGED <<agentVars, commit>>
  BY DEF SettleShutdown, Quiet, Settled, inputVars, userVars
<1>2. \A t : Waits(t)' = Waits(t)
  BY <1>1 DEF Waits
<1>3. CASE AbortTurn("Shutdown", TRUE)
  <2>1. "Shutdown" \in Thens /\ TRUE \in BOOLEAN
    BY DEF Thens
  <2> QED BY <1>1, <1>2, <1>3, <2>1, AbortText
<1>4. CASE UNCHANGED <<agentVars, commit>>
  BY <1>1, <1>2, <1>4, PlainKeeps DEF Plain, agentVars
<1> QED BY <1>1, <1>3, <1>4

\* A tool that answers may end the turn.
LEMMA ToolText ==
  ASSUME Steady, TextInv, NEW c \in Calls, NEW admitted, ToolResolves(c, admitted)
  PROVE  TextInv'
<1>1. /\ UNCHANGED <<returned, preparing, nextText, disk, journal, pending>>
      /\ commit = NoCommit /\ journal = "open" /\ Typed
  BY DEF ToolResolves, Waiting, Quiet, Settled, inputVars, userVars, Steady
<1>2. \A t : Waits(t)' = Waits(t)
  BY <1>1 DEF Waits
<1>3. CASE CallSettled(c)
  BY <1>1, <1>2, <1>3, SettledText
<1>4. CASE UNCHANGED <<agentVars, commit>>
  BY <1>1, <1>2, <1>4, PlainKeeps DEF Plain, agentVars
<1>5. CASE /\ Begin([Adds({Audited(c)}) EXCEPT !.effect = "run", !.calls = {c}], <<>>, "none")
           /\ UNCHANGED <<phase, step, queue>>
  <2>1. \A t : Said(t) # Audited(c)
    BY FactsApart
  <2>2. Blank
    BY <1>5, <2>1 DEF Begin, Adds, Nothing, Blank
  <2> QED BY <1>1, <1>2, <1>5, <2>2, PlainKeeps DEF Plain
<1> QED BY <1>3, <1>4, <1>5 DEF ToolResolves

\* What the owner waits for, but the tools, is about no text.
LEMMA AnswersPlain ==
  ASSUME Typed, TextInv, NEW outcome, NEW complete,
         \/ JoinModel(outcome) \/ ModelEnds(outcome)
         \/ JoinCompaction(complete) \/ CompactionEnds(complete)
  PROVE  TextInv'
<1>1. /\ UNCHANGED <<queue, returned, preparing, nextText, disk, journal, pending>>
      /\ commit = NoCommit
  BY DEF JoinModel, ModelEnds, JoinCompaction, CompactionEnds, agentVars, inputVars, userVars,
         Stopping, After, Uncommitted, Waiting, Quiet, Settled
<1>2. \/ commit' = commit
      \/ \E then : Begin(Clears({Attempt("model", active.step)}), <<>>, then)
      \/ Begin(Clears({Attempt("summary", compaction.step)}), <<>>, "FinishCompaction")
  BY DEF JoinModel, ModelEnds, JoinCompaction, CompactionEnds, RetainResult, CompactionOver
<1>3. commit' = commit \/ Blank
  BY <1>2, AttemptBlank
<1> QED BY <1>1, <1>3, PlainKeeps DEF Plain, Waits

\* So are the entry points that ask for nothing but an update, and what drops or ends them.
LEMMA EntriesPlain ==
  ASSUME Typed, TextInv,
         NextUpdate \/ RequestCompaction \/ Drop \/ Return \/ BeginRequestedCompaction
  PROVE  TextInv'
<1>1. UNCHANGED <<queue, returned, preparing, nextText, disk, journal, pending>>
  BY DEF NextUpdate, RequestCompaction, Drop, Return, BeginRequestedCompaction, agentVars,
         inputVars, userVars
<1>2. commit' = commit \/ (commit = NoCommit /\ Blank)
  <2>1. CASE BeginRequestedCompaction
    <3>1. /\ commit = NoCommit
          /\ Begin(Adds({Attempt("summary", <<step[1], 0>>)}), <<>>, "StartCompaction")
      BY <2>1 DEF BeginRequestedCompaction, StartAttempt, Quiet, Settled
    <3> QED BY <3>1, AttemptBlank
  <2>2. CASE NextUpdate \/ RequestCompaction \/ Drop \/ Return
    BY <2>2 DEF NextUpdate, RequestCompaction, Drop, Return
  <2> QED BY <2>1, <2>2
<1> QED BY <1>1, <1>2, PlainKeeps DEF Plain, Waits

\* No text is anywhere before it is submitted.
LEMMA InitText ==
  ASSUME Init
  PROVE  TextInv
<1>1. ASSUME NEW t \in Texts PROVE TextAt(t)
  <2>1. /\ nextText = 1 /\ pending = <<>> /\ queue = <<>> /\ returned = <<>>
        /\ preparing = NoPreparation /\ commit = NoCommit /\ disk = {}
    BY DEF Init
  <2>2. \A A : Kept(<<>>, A) = <<>>
    BY KeptEmpty
  <2>3. Len(<<>>) = 0 /\ t \in Nat /\ t >= 1
    BY BoundsTyped DEF Texts
  <2>4. /\ Waits(t) = 0 /\ Queued(t) = 0 /\ Handed(t) = 0 /\ Prepared(t) = 0 /\ InFile(t) = 0
    BY <2>1, <2>2, <2>3, Nones DEF Waits, Queued, Handed, Prepared, InFile
  <2>5. /\ Owed(t) = 0 /\ Told(t) = 0 /\ Opens(t) = 0
    BY <2>1, NoneOwed
  <2>6. Said(t) \notin commit.reaction.clears
    BY <2>1, NoCommitTyped, NothingTyped
  <2> QED BY <2>1, <2>3, <2>4, <2>5, <2>6 DEF TextAt
<1>2. ~SureCommit
  BY NoCommitTyped DEF Init, SureCommit
<1> QED BY <1>1, <1>2 DEF TextInv

\* Each step leaves every submitted text in one place.
LEMMA NextText ==
  ASSUME IInv, TextInv, [Next]_vars, "late_overflow" \notin Races, "failing_fails" \notin Races
  PROVE  TextInv'
<1>1. IInv'
  BY NextInv
<1>2. Steady /\ Typed /\ Typed'
  BY <1>1 DEF IInv, Steady
<1>3. CASE UNCHANGED vars
  BY <1>2, <1>3, PlainKeeps DEF vars, Plain, Waits
<1>4. CASE FinishCommit
  <2>1. journal = "open"
    BY <1>2, <1>4, NoCommitTyped DEF FinishCommit, Steady, CallInv
  <2> QED BY <1>2, <1>4, <2>1, AppliesText, FailsText
<1>5. CASE \/ StartModel \/ StartCompaction \/ RecoverContext \/ ReleaseModel \/ RouteDeferred
           \/ FinishStop \/ PublishCompaction \/ CompleteCompactionFailure \/ FinishShutdown
  BY <1>2, <1>5, DrivesPlain
<1>6. CASE DeliverCompletion
  BY <1>2, <1>6, DeliverText
<1>7. CASE FinishCompaction \/ FailCompaction
  BY <1>2, <1>7, CompactionText
<1>8. CASE TakeInput
  <2>1. Next /\ journal = "open"
    BY <1>8 DEF TakeInput, CanTake, Next, Drives
  <2>2. Alive
    BY <1>2, <2>1, EndedStops DEF IInv, Alive, Lives
  <2> QED BY <1>2, <1>8, <2>2, TakeText
<1>9. CASE SettleShutdown
  BY <1>2, <1>9, SettleText
<1>10. CASE ReturnError \/ ReturnFailed
  BY <1>2, <1>10, ReturnErrorText, ReturnFailedText
<1>11. CASE Joins
  <2>1. PICK outcome, complete : JoinModel(outcome) \/ JoinCompaction(complete)
    BY <1>11 DEF Joins
  <2> QED BY <1>2, <2>1, AnswersPlain
<1>12. CASE Answers
  <2>1. CASE \E c \in Calls, admitted \in BOOLEAN : ToolResolves(c, admitted)
    BY <1>2, <2>1, ToolText
  <2>2. CASE \E outcome, complete : ModelEnds(outcome) \/ CompactionEnds(complete)
    BY <1>2, <2>2, AnswersPlain
  <2> QED BY <1>12, <2>1, <2>2 DEF Answers
<1>13. CASE \E found \in BOOLEAN : SkillLoaded(found)
  BY <1>2, <1>13, SkillText
<1>14. CASE Writes
  BY <1>2, <1>14, WritesText DEF Writes
<1>15. CASE Submit \/ SubmitInterrupt \/ Shutdown
  BY <1>2, <1>15, SubmitText, InterruptText, ShutdownText
<1>16. CASE NextUpdate \/ RequestCompaction \/ Drop \/ Return \/ BeginRequestedCompaction
  BY <1>2, <1>16, EntriesPlain
<1> QED
  BY <1>3, <1>4, <1>5, <1>6, <1>7, <1>8, <1>9, <1>10, <1>11, <1>12, <1>13, <1>14, <1>15, <1>16
  DEF Next, Drives, Arrivals, Entries

\* The commit owes a text as often as it lists it.
LEMMA OwedListed ==
  ASSUME Typed, NEW t
  PROVE  Owed(t) > 0 <=> \E i \in DOMAIN commit.reaction.back : commit.reaction.back[i] = t
<1> DEFINE b == commit.reaction.back  A == {t}
<1>1. b \in Seq(Texts)
  BY DEF Typed, FileTyped, Commits, Reactions
<1> HIDE DEF b
<1> DEFINE k == Kept(b, A)
<1>2. /\ \A i \in DOMAIN k : k[i] \in A /\ \E m \in DOMAIN b : k[i] = b[m]
      /\ \A m \in DOMAIN b : b[m] \in A => \E i \in DOMAIN k : k[i] = b[m]
  <2> HIDE DEF A
  <2> QED BY <1>1, KeptPlaces
<1>3. k \in Seq(Texts \cap A)
  <2> HIDE DEF A
  <2> QED BY <1>1, KeptTyped
<1> HIDE DEF k
<1>4. Len(k) \in Nat /\ DOMAIN k = 1..Len(k)
  BY <1>3
<1>5. Len(k) > 0 <=> \E i \in DOMAIN k : TRUE
  BY <1>4
<1>6. Len(k) > 0 <=> \E m \in DOMAIN b : b[m] = t
  BY <1>2, <1>5
<1> QED BY <1>6 DEF Owed, k, b

\* What the invariant says of a text is what is promised of it.
LEMMA TextPlaces ==
  ASSUME Steady, TextInv
  PROVE  NothingLost
<1> SUFFICES ASSUME NEW t \in 1..(nextText - 1)
             PROVE  Places(t) = 1 \/ (journal = "unknown" /\ Said(t) \in disk /\ Places(t) = 2)
  BY DEF NothingLost
<1>1. /\ Typed /\ pending \in Seq(Inputs) /\ queue \in Seq(Texts) /\ returned \in Seq(Texts)
      /\ nextText \in Nat /\ t \in Nat /\ t < nextText /\ t \in Texts
  BY BoundsTyped DEF Steady, Typed, AgentTyped, InputTyped, Texts
<1>2. TextAt(t)
  BY <1>1 DEF TextInv
<1>3. Occurrences(t, TextsOf(pending)) = Waits(t)
  <2> DEFINE a == TextsOf(pending)
  <2>1. a \in Seq(Texts)
    BY <1>1, TextsOfTyped
  <2>2. Len(Kept(a, {t})) = Waits(t)
    BY <1>1, TextsKept DEF Waits
  <2> HIDE DEF a
  <2>3. Occurrences(t, a) = Len(Kept(a, {t}))
    BY <2>1, OccurrencesKept
  <2> QED BY <2>2, <2>3 DEF a
<1>4. Occurrences(t, queue) = Queued(t)
  BY <1>1, OccurrencesKept DEF Queued
<1>5. Occurrences(t, returned) = Handed(t)
  BY <1>1, OccurrencesKept DEF Handed
<1>6. Cardinality({x \in {"preparing"} : preparing.text = t}) = Prepared(t)
  <2>1. CASE preparing.text = t
    <3>1. {x \in {"preparing"} : preparing.text = t} = {"preparing"}
      BY <2>1
    <3> QED BY <2>1, <3>1, FS_Singleton DEF Prepared
  <2>2. CASE preparing.text # t
    <3>1. {x \in {"preparing"} : preparing.text = t} = {}
      BY <2>2
    <3> QED BY <2>2, <3>1, FS_EmptySet DEF Prepared
  <2> QED BY <2>1, <2>2
<1> DEFINE n == IF InCommit(t) THEN 1 ELSE 0
<1>7. Cardinality({x \in {"commit"} : InCommit(t)}) = n
  <2>1. CASE InCommit(t)
    <3>1. {x \in {"commit"} : InCommit(t)} = {"commit"}
      BY <2>1
    <3> QED BY <2>1, <3>1, FS_Singleton
  <2>2. CASE ~InCommit(t)
    <3>1. {x \in {"commit"} : InCommit(t)} = {}
      BY <2>2
    <3> QED BY <2>2, <3>1, FS_EmptySet
  <2> QED BY <2>1, <2>2
<1>8. Cardinality({Said(t)} \cap disk) = InFile(t)
  <2>1. CASE Said(t) \in disk
    <3>1. {Said(t)} \cap disk = {Said(t)}
      BY <2>1
    <3> QED BY <2>1, <3>1, FS_Singleton DEF InFile
  <2>2. CASE Said(t) \notin disk
    <3>1. {Said(t)} \cap disk = {}
      BY <2>2
    <3> QED BY <2>2, <3>1, FS_EmptySet DEF InFile
  <2> QED BY <2>1, <2>2
<1>9. Places(t) = Waits(t) + Queued(t) + Handed(t) + Prepared(t) + n + InFile(t)
  BY <1>3, <1>4, <1>5, <1>6, <1>7, <1>8 DEF Places
<1> DEFINE o == IF Opens(t) = 1 /\ InFile(t) = 0 THEN 1 ELSE 0
<1>10. n = IF o = 1 \/ Owed(t) > 0 THEN 1 ELSE 0
  <2>1. o = 1 <=> Said(t) \in commit.reaction.adds \ disk
    BY DEF Opens, InFile
  <2>2. Owed(t) > 0 <=> \E i \in DOMAIN commit.reaction.back : commit.reaction.back[i] = t
    BY <1>1, OwedListed
  <2> QED BY <2>1, <2>2 DEF InCommit
<1>11. /\ Waits(t) \in Nat /\ Queued(t) \in Nat /\ Handed(t) \in Nat /\ Prepared(t) \in {0, 1}
       /\ Owed(t) \in Nat /\ Opens(t) \in {0, 1} /\ InFile(t) \in {0, 1}
  BY <1>1, Counted
<1>12. \/ Waits(t) + Queued(t) + Handed(t) + Prepared(t) + Owed(t) + InFile(t) + o = 1
       \/ /\ journal = "unknown" /\ InFile(t) = 1
          /\ Waits(t) + Queued(t) + Handed(t) + Prepared(t) + Owed(t) + InFile(t) + o = 2
  BY <1>1, <1>2 DEF TextAt
<1>13. o \in {0, 1} /\ n \in {0, 1}
  OBVIOUS
<1>14. journal = "unknown" => Owed(t) = 0 /\ o = 0
  <2>1. journal = "unknown" => commit = NoCommit
    BY DEF Steady, CallInv
  <2> QED BY <2>1, NoneOwed
<1> HIDE DEF n, o
<1>15. CASE Waits(t) + Queued(t) + Handed(t) + Prepared(t) + Owed(t) + InFile(t) + o = 1
  <2>1. n = Owed(t) + o
    BY <1>10, <1>11, <1>13, <1>15
  <2>2. Places(t) = Waits(t) + Queued(t) + Handed(t) + Prepared(t) + (Owed(t) + o) + InFile(t)
    BY <1>9, <2>1
  <2>3. Waits(t) + Queued(t) + Handed(t) + Prepared(t) + (Owed(t) + o) + InFile(t) = 1
    BY <1>11, <1>13, <1>15
  <2> QED BY <2>2, <2>3
<1>16. CASE /\ journal = "unknown" /\ InFile(t) = 1
            /\ Waits(t) + Queued(t) + Handed(t) + Prepared(t) + Owed(t) + InFile(t) + o = 2
  <2>1. n = 0 /\ Owed(t) = 0 /\ o = 0
    BY <1>10, <1>14, <1>16
  <2>2. Places(t) = 2
    BY <1>9, <1>11, <1>16, <2>1
  <2> QED BY <1>16, <2>2 DEF InFile
<1> QED BY <1>12, <1>15, <1>16

\* A submitted text is in one place, and after a write of unknown outcome at most also in the file,
\* unless the record of a summary's failure may itself fail, whose queue is handed back to nobody.
THEOREM NothingIsLost ==
  ASSUME "late_overflow" \notin Races, "failing_fails" \notin Races
  PROVE  Spec => []NothingLost
<1>1. Init => TextInv
  BY InitText
<1>2. IInv /\ TextInv /\ [Next]_vars => TextInv'
  BY NextText
<1>3. IInv /\ TextInv => NothingLost
  BY TextPlaces DEF IInv
<1> QED BY <1>1, <1>2, <1>3, Invariant, PTL DEF Spec
=============================================================================
