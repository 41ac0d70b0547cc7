------------------------- MODULE SubsequencesProofs -------------------------
(* What filtering, appending and concatenating keep of a sequence.         *)
EXTENDS Subsequences, FiniteSets, FiniteSetTheorems, FunctionTheorems, WellFoundedInduction, TLAPS

\* No element is at two places.
NoRepeats(s) == \A i, j \in DOMAIN s : i # j => s[i] # s[j]

\* Every non-empty set of numbers has a least one: induction, in the form the provers can use.
LEMMA LeastNumber ==
  ASSUME NEW S, S \subseteq Nat, S # {}
  PROVE  \E x \in S : \A y \in S : x <= y
<1> DEFINE R == OpToRel(<, Nat)
<1>1. IsWellFoundedOn(R, Nat)
  BY NatLessThanWellFounded
<1> HIDE DEF R
<1>2. PICK x \in S : \A y \in S : ~ (<<y, x>> \in R)
  BY <1>1, WFMin
<1>3. \A y \in S : ~ (y < x)
  BY <1>2 DEF R, OpToRel
<1> QED BY <1>3

\* A sequence of fewer elements is one of more.
LEMMA SeqOfSubset ==
  ASSUME NEW T, NEW S \in SUBSET T, NEW s \in Seq(S)
  PROVE  s \in Seq(T)
<1>1. Len(s) \in Nat /\ s \in [1 .. Len(s) -> S]
  OBVIOUS
<1>2. s \in [1 .. Len(s) -> T]
  BY <1>1
<1> QED BY <1>1, <1>2

\* An element more at the end.
LEMMA AppendFacts ==
  ASSUME NEW E, NEW s \in Seq(E), NEW e \in E
  PROVE  /\ Append(s, e) \in Seq(E)
         /\ ToSet(Append(s, e)) = ToSet(s) \cup {e}
         /\ NoRepeats(s) /\ e \notin ToSet(s) => NoRepeats(Append(s, e))
<1> DEFINE t == Append(s, e)
<1>1. t \in Seq(E) /\ DOMAIN t = 1 .. Len(s) + 1 /\ DOMAIN s = 1 .. Len(s) /\ Len(s) \in Nat
  OBVIOUS
<1>2. t[Len(s) + 1] = e /\ \A i \in 1 .. Len(s) : t[i] = s[i]
  OBVIOUS
<1> HIDE DEF t
<1>3. \A x \in ToSet(t) : x \in ToSet(s) \cup {e}
  <2> SUFFICES ASSUME NEW i \in DOMAIN t PROVE t[i] \in ToSet(s) \cup {e}
    BY DEF ToSet
  <2>1. CASE i = Len(s) + 1
    BY <2>1, <1>2
  <2>2. CASE i \in 1 .. Len(s)
    BY <2>2, <1>1, <1>2 DEF ToSet
  <2> QED BY <2>1, <2>2, <1>1
<1>4. \A x \in ToSet(s) \cup {e} : x \in ToSet(t)
  <2>1. e \in ToSet(t)
    BY <1>1, <1>2 DEF ToSet
  <2>2. ASSUME NEW i \in DOMAIN s PROVE s[i] \in ToSet(t)
    <3>1. i \in DOMAIN t /\ t[i] = s[i]
      BY <1>1, <1>2
    <3> QED BY <3>1 DEF ToSet
  <2> QED BY <2>1, <2>2 DEF ToSet
<1>5. ASSUME NoRepeats(s), e \notin ToSet(s) PROVE NoRepeats(t)
  <2> SUFFICES ASSUME NEW i \in DOMAIN t, NEW j \in DOMAIN t, i # j PROVE t[i] # t[j]
    BY DEF NoRepeats
  <2>1. \A k \in 1 .. Len(s) : t[k] \in ToSet(s)
    BY <1>1, <1>2 DEF ToSet
  <2>2. CASE i \in 1 .. Len(s) /\ j \in 1 .. Len(s)
    BY <2>2, <1>1, <1>2, <1>5 DEF NoRepeats
  <2>3. CASE i = Len(s) + 1 \/ j = Len(s) + 1
    BY <2>1, <2>3, <1>1, <1>2, <1>5
  <2> QED BY <2>2, <2>3, <1>1
<1> QED BY <1>1, <1>3, <1>4, <1>5 DEF t

\* The recursive function behind Picked, as its equations.
KeptStep(f, s, I, i) ==
  IF i = 0 THEN <<>> ELSE IF i \in I THEN Append(f[i - 1], s[i]) ELSE f[i - 1]
Filters(f, s, I, n) == f = [i \in 0 .. n |-> KeptStep(f, s, I, i)]

LEMMA PickedIsKept ==
  ASSUME NEW s, NEW I
  PROVE  Picked(s, I) = (CHOOSE f : Filters(f, s, I, Len(s)))[Len(s)]
BY DEF Picked, Filters, KeptStep

\* The recursive function behind Picked exists, so its equations may be used.
LEMMA KeptExists ==
  ASSUME NEW E, NEW s \in Seq(E), NEW I
  PROVE  \E f : Filters(f, s, I, Len(s))
<1> DEFINE Bad == {n \in 0 .. Len(s) : ~ \E f : Filters(f, s, I, n)}
<1> SUFFICES Bad = {}
  <2>1. Len(s) \in 0 .. Len(s)
    OBVIOUS
  <2> QED BY <2>1
<1> SUFFICES ASSUME Bad # {} PROVE FALSE
  OBVIOUS
<1>0. Bad \subseteq Nat
  OBVIOUS
<1>1. PICK n \in Bad : \A m \in Bad : n <= m
  <2> HIDE DEF Bad
  <2> QED BY <1>0, LeastNumber
<1>2. n # 0
  <2>1. Filters([i \in 0 .. 0 |-> <<>>], s, I, 0)
    BY DEF Filters, KeptStep
  <2> QED BY <2>1
<1>3. n - 1 \in 0 .. Len(s) /\ n - 1 \notin Bad
  BY <1>1, <1>2
<1>4. PICK f : Filters(f, s, I, n - 1)
  BY <1>3
<1> DEFINE g == [i \in 0 .. n |-> IF i = n THEN KeptStep(f, s, I, n) ELSE f[i]]
<1>5. Filters(g, s, I, n)
  <2>0. n \in Nat /\ n # 0
    BY <1>1, <1>2
  <2>1. \A i \in 0 .. n - 1 : f[i] = KeptStep(f, s, I, i)
    BY <1>4, Zenon DEF Filters
  <2>2. \A i \in 0 .. n - 1 : g[i] = f[i]
    BY <2>0
  <2>3. g[n] = KeptStep(f, s, I, n)
    BY <2>0
  <2> HIDE DEF g
  <2>4. \A i \in 0 .. n : g[i] = KeptStep(g, s, I, i)
    <3> SUFFICES ASSUME NEW i \in 0 .. n PROVE g[i] = KeptStep(g, s, I, i)
      OBVIOUS
    <3>1. CASE i = n
      <4>1. g[n - 1] = f[n - 1]
        BY <2>0, <2>2
      <4> QED BY <4>1, <3>1, <2>3, <2>0 DEF KeptStep
    <3>2. CASE i \in 0 .. n - 1
      <4>1. i = 0 \/ g[i - 1] = f[i - 1]
        BY <3>2, <2>0, <2>2
      <4> QED BY <4>1, <3>2, <2>1, <2>2 DEF KeptStep
    <3> QED BY <3>1, <3>2, <2>0
  <2>5. g = [i \in 0 .. n |-> g[i]]
    BY DEF g
  <2>6. [i \in 0 .. n |-> g[i]] = [i \in 0 .. n |-> KeptStep(g, s, I, i)]
    BY <2>4
  <2> QED BY <2>5, <2>6 DEF Filters
<1> QED BY <1>5, <1>1

\* What is picked are the elements at the places, none twice unless it is at two of them.
LEMMA PickedFacts ==
  ASSUME NEW E, NEW s \in Seq(E), NEW I
  PROVE  /\ Picked(s, I) \in Seq(E)
         /\ ToSet(Picked(s, I)) = {s[i] : i \in DOMAIN s \cap I}
         /\ (\A i, j \in DOMAIN s \cap I : i # j => s[i] # s[j]) => NoRepeats(Picked(s, I))
<1> DEFINE f == CHOOSE h : Filters(h, s, I, Len(s))
           Upto(n) == {s[i] : i \in (1 .. n) \cap I}
           Once == \A i, j \in DOMAIN s \cap I : i # j => s[i] # s[j]
           Good(n) == /\ f[n] \in Seq(E) /\ ToSet(f[n]) = Upto(n)
                      /\ Once => NoRepeats(f[n])
           Bad == {n \in 0 .. Len(s) : ~ Good(n)}
<1>1. Filters(f, s, I, Len(s))
  BY KeptExists
<1> HIDE DEF f
<1>2. \A i \in 0 .. Len(s) : f[i] = KeptStep(f, s, I, i)
  BY <1>1 DEF Filters
<1>3. Bad = {}
  <2> SUFFICES ASSUME Bad # {} PROVE FALSE
    OBVIOUS
  <2>1. Bad \subseteq Nat
    OBVIOUS
  <2>2. PICK n \in Bad : \A m \in Bad : n <= m
    <3> HIDE DEF Bad
    <3> QED BY <2>1, LeastNumber
  <2>3. n # 0
    <3>1. f[0] = <<>>
      BY <1>2 DEF KeptStep
    <3>2. Good(0)
      BY <3>1 DEF ToSet, NoRepeats
    <3> QED BY <3>2
  <2>4. n - 1 \in 0 .. Len(s) /\ Good(n - 1) /\ n \in 1 .. Len(s)
    <3>1. n \in 1 .. Len(s) /\ n - 1 \in 0 .. Len(s) /\ ~ (n <= n - 1)
      BY <2>3
    <3> HIDE DEF Good
    <3> QED BY <3>1, <2>2
  <2>5. Upto(n) = Upto(n - 1) \cup (IF n \in I THEN {s[n]} ELSE {})
    BY <2>4
  <2>6. f[n] = KeptStep(f, s, I, n) /\ n # 0
    BY <1>2, <2>4
  <2>7. CASE n \notin I
    <3>1. f[n] = f[n - 1]
      BY <2>6, <2>7 DEF KeptStep
    <3> QED BY <3>1, <2>4, <2>5, <2>7
  <2>8. CASE n \in I
    <3>1. f[n] = Append(f[n - 1], s[n])
      BY <2>6, <2>8 DEF KeptStep
    <3>2. f[n - 1] \in Seq(E) /\ s[n] \in E
      BY <2>4
    <3>3. f[n] \in Seq(E) /\ ToSet(f[n]) = ToSet(f[n - 1]) \cup {s[n]}
      BY <3>1, <3>2, AppendFacts
    <3>4. ASSUME Once PROVE NoRepeats(f[n])
      <4>1. s[n] \notin Upto(n - 1)
        BY <3>4, <2>4, <2>8
      <4> HIDE DEF Upto
      <4>2. s[n] \notin ToSet(f[n - 1]) /\ NoRepeats(f[n - 1])
        BY <4>1, <3>4, <2>4
      <4> QED BY <4>2, <3>1, <3>2, AppendFacts
    <3> QED BY <3>3, <3>4, <2>4, <2>5, <2>8
  <2> QED BY <2>7, <2>8
<1>4. Good(Len(s))
  <2>1. Len(s) \in 0 .. Len(s)
    OBVIOUS
  <2> HIDE DEF Good
  <2> QED BY <2>1, <1>3
<1>5. Upto(Len(s)) = {s[i] : i \in DOMAIN s \cap I}
  OBVIOUS
<1>6. Picked(s, I) = f[Len(s)]
  BY PickedIsKept DEF f
<1> QED BY <1>4, <1>5, <1>6

\* What is picked stays in order.
LEMMA PickedInOrder ==
  ASSUME NEW E, NEW s \in Seq(E), NEW I
  PROVE  LET p == Picked(s, I) IN
         \A a, b \in DOMAIN p : a < b =>
           \E i, j \in DOMAIN s \cap I : i < j /\ s[i] = p[a] /\ s[j] = p[b]
<1> DEFINE f == CHOOSE h : Filters(h, s, I, Len(s))
           From(n) == \A a \in DOMAIN f[n] : \E i \in (1 .. n) \cap I : s[i] = f[n][a]
           Rising(n) == \A a, b \in DOMAIN f[n] : a < b =>
                          \E i, j \in (1 .. n) \cap I : i < j /\ s[i] = f[n][a] /\ s[j] = f[n][b]
           Good(n) == f[n] \in Seq(E) /\ From(n) /\ Rising(n)
           Bad == {n \in 0 .. Len(s) : ~ Good(n)}
<1>1. Filters(f, s, I, Len(s))
  BY KeptExists
<1> HIDE DEF f
<1>2. \A i \in 0 .. Len(s) : f[i] = KeptStep(f, s, I, i)
  BY <1>1 DEF Filters
<1>3. Bad = {}
  <2> SUFFICES ASSUME Bad # {} PROVE FALSE
    OBVIOUS
  <2>1. Bad \subseteq Nat
    OBVIOUS
  <2>2. PICK n \in Bad : \A m \in Bad : n <= m
    <3> HIDE DEF Bad
    <3> QED BY <2>1, LeastNumber
  <2>3. n # 0
    <3>1. f[0] = <<>>
      BY <1>2 DEF KeptStep
    <3>2. f[0] \in Seq(E) /\ DOMAIN f[0] = {}
      BY <3>1
    <3>3. From(0) /\ Rising(0)
      BY <3>2
    <3> HIDE DEF From, Rising
    <3> QED BY <3>2, <3>3
  <2>4. n - 1 \in 0 .. Len(s) /\ Good(n - 1) /\ n \in 1 .. Len(s)
    <3>1. n \in 1 .. Len(s) /\ n - 1 \in 0 .. Len(s) /\ ~ (n <= n - 1)
      BY <2>3
    <3> HIDE DEF Good
    <3> QED BY <3>1, <2>2
  <2>5. (1 .. n - 1) \cap I \subseteq (1 .. n) \cap I
    BY <2>4
  <2>6. f[n] = KeptStep(f, s, I, n) /\ n # 0
    BY <1>2, <2>4
  <2>7. CASE n \notin I
    <3>1. f[n] = f[n - 1]
      BY <2>6, <2>7 DEF KeptStep
    <3>2. From(n)
      BY <3>1, <2>4, <2>5
    <3>3. Rising(n)
      <4> SUFFICES ASSUME NEW a \in DOMAIN f[n], NEW b \in DOMAIN f[n], a < b
                   PROVE  \E i, j \in (1 .. n) \cap I : i < j /\ s[i] = f[n][a] /\ s[j] = f[n][b]
        OBVIOUS
      <4>1. \E i, j \in (1 .. n - 1) \cap I : i < j /\ s[i] = f[n - 1][a] /\ s[j] = f[n - 1][b]
        BY <3>1, <2>4
      <4> QED BY <3>1, <2>5, <4>1
    <3>4. f[n] \in Seq(E)
      BY <3>1, <2>4
    <3> HIDE DEF From, Rising
    <3> QED BY <2>2, <3>2, <3>3, <3>4
  <2>8. CASE n \in I
    <3>0. PICK q, m : q = f[n - 1] /\ m = Len(q)
      OBVIOUS
    <3>1. f[n] = Append(q, s[n]) /\ q \in Seq(E) /\ s[n] \in E
      BY <2>4, <2>6, <2>8, <3>0 DEF KeptStep
    <3>2. /\ f[n] \in Seq(E) /\ DOMAIN f[n] = 1 .. m + 1 /\ DOMAIN q = 1 .. m /\ m \in Nat
          /\ f[n][m + 1] = s[n] /\ \A a \in 1 .. m : f[n][a] = q[a]
      BY <3>0, <3>1
    <3>3. \A a \in 1 .. m : \E i \in (1 .. n - 1) \cap I : s[i] = q[a]
      BY <2>4, <3>0, <3>2
    <3>4. From(n)
      <4> SUFFICES ASSUME NEW a \in 1 .. m + 1 PROVE \E i \in (1 .. n) \cap I : s[i] = f[n][a]
        BY <3>2
      <4>1. CASE a = m + 1
        BY <2>4, <2>8, <3>2, <4>1
      <4>2. CASE a \in 1 .. m
        BY <2>5, <3>2, <3>3, <4>2
      <4> QED BY <3>2, <4>1, <4>2
    <3>5. Rising(n)
      <4> SUFFICES ASSUME NEW a \in DOMAIN f[n], NEW b \in DOMAIN f[n], a < b
                   PROVE  \E i, j \in (1 .. n) \cap I : i < j /\ s[i] = f[n][a] /\ s[j] = f[n][b]
        OBVIOUS
      <4>0. m \in Nat /\ a \in 1 .. m + 1 /\ b \in 1 .. m + 1
        BY <3>2
      <4>1. a \in 1 .. m
        BY <4>0
      <4>2. CASE b = m + 1
        <5>1. PICK i \in (1 .. n - 1) \cap I : s[i] = q[a]
          BY <3>3, <4>1
        <5>2. i < n /\ i \in (1 .. n) \cap I /\ n \in (1 .. n) \cap I
          BY <2>4, <2>8
        <5> QED BY <3>2, <4>1, <4>2, <5>1, <5>2
      <4>3. CASE b \in 1 .. m
        <5>1. \E i, j \in (1 .. n - 1) \cap I : i < j /\ s[i] = q[a] /\ s[j] = q[b]
          <6>1. Rising(n - 1)
            BY <2>4
          <6>2. a \in DOMAIN f[n - 1] /\ b \in DOMAIN f[n - 1] /\ f[n - 1] = q
            BY <3>0, <3>2, <4>1, <4>3
          <6> QED BY <6>1, <6>2
        <5> QED BY <2>5, <3>2, <4>1, <4>3, <5>1
      <4> QED BY <4>0, <4>2, <4>3
    <3> HIDE DEF From, Rising
    <3> QED BY <2>2, <3>2, <3>4, <3>5
  <2> QED BY <2>7, <2>8
<1>4. Good(Len(s))
  <2>1. Len(s) \in 0 .. Len(s)
    OBVIOUS
  <2> HIDE DEF Good
  <2> QED BY <2>1, <1>3
<1>5. Picked(s, I) = f[Len(s)]
  BY PickedIsKept DEF f
<1> QED BY <1>4, <1>5, SMTT(30)

\* Filtering keeps the elements that are in the set, and none twice that was there once.
LEMMA OnlyFacts ==
  ASSUME NEW E, NEW s \in Seq(E), NEW S
  PROVE  /\ Only(s, S) \in Seq(E)
         /\ ToSet(Only(s, S)) = ToSet(s) \cap S
         /\ NoRepeats(s) => NoRepeats(Only(s, S))
<1> DEFINE I == {i \in DOMAIN s : s[i] \in S}
<1>1. {s[i] : i \in DOMAIN s \cap I} = ToSet(s) \cap S
  BY DEF ToSet
<1>2. NoRepeats(s) => \A i, j \in DOMAIN s \cap I : i # j => s[i] # s[j]
  BY DEF NoRepeats
<1>3. Only(s, S) = Picked(s, I)
  BY DEF Only
<1> HIDE DEF I
<1> QED BY <1>1, <1>2, <1>3, PickedFacts

\* Without repeats a sequence is as long as its set of elements.
LEMMA LengthIsCardinality ==
  ASSUME NEW E, NEW s \in Seq(E), NoRepeats(s)
  PROVE  Len(s) = Cardinality(ToSet(s)) /\ IsFiniteSet(ToSet(s))
<1> DEFINE D == 1 .. Len(s)
<1>1. s \in [D -> ToSet(s)] /\ Len(s) \in Nat
  BY DEF ToSet
<1>2. s \in Bijection(D, ToSet(s))
  <2>1. s \in Injection(D, ToSet(s))
    BY <1>1, Fun_IsInj DEF NoRepeats
  <2>2. s \in Surjection(D, ToSet(s))
    BY <1>1, Fun_IsSurj DEF ToSet
  <2> QED BY <2>1, <2>2, Fun_IsBij
<1>3. ExistsBijection(D, ToSet(s))
  BY <1>2 DEF ExistsBijection
<1>4. IsFiniteSet(D)
  BY <1>1, FS_Interval
<1> QED BY <1>1, <1>3, <1>4, FS_CountingElements, FS_Bijection

\* Concatenation: both sets, and no repeats when they are disjoint.
LEMMA ConcatFacts ==
  ASSUME NEW E, NEW s \in Seq(E), NEW t \in Seq(E)
  PROVE  /\ s \o t \in Seq(E) /\ ToSet(s \o t) = ToSet(s) \cup ToSet(t)
         /\ Len(s) \in 0 .. Len(s \o t) /\ ToSet(s) = {(s \o t)[i] : i \in 1 .. Len(s)}
         /\ NoRepeats(s) /\ NoRepeats(t) /\ ToSet(s) \cap ToSet(t) = {} => NoRepeats(s \o t)
<1> DEFINE u == s \o t
<1>1. /\ u \in Seq(E) /\ Len(u) = Len(s) + Len(t) /\ Len(s) \in Nat /\ Len(t) \in Nat
      /\ DOMAIN u = 1 .. Len(u) /\ DOMAIN s = 1 .. Len(s) /\ DOMAIN t = 1 .. Len(t)
  OBVIOUS
<1>2. \A i \in 1 .. Len(s) : u[i] = s[i]
  OBVIOUS
<1>3. \A i \in 1 .. Len(t) : u[i + Len(s)] = t[i]
  OBVIOUS
<1>4. \A i \in DOMAIN u : \/ i \in 1 .. Len(s) /\ u[i] = s[i]
                          \/ i - Len(s) \in 1 .. Len(t) /\ u[i] = t[i - Len(s)]
  <2> TAKE i \in DOMAIN u
  <2> HIDE DEF u
  <2>1. CASE i \in 1 .. Len(s)
    BY <2>1, <1>2
  <2>2. CASE i \notin 1 .. Len(s)
    <3>1. i - Len(s) \in 1 .. Len(t) /\ (i - Len(s)) + Len(s) = i
      BY <2>2, <1>1
    <3> QED BY <3>1, <1>3
  <2> QED BY <2>1, <2>2
<1> HIDE DEF u
<1>5. ToSet(u) = ToSet(s) \cup ToSet(t)
  <2>1. ToSet(u) \subseteq ToSet(s) \cup ToSet(t)
    BY <1>1, <1>4 DEF ToSet
  <2>2. ToSet(s) \subseteq ToSet(u)
    BY <1>1, <1>2 DEF ToSet
  <2>3. ToSet(t) \subseteq ToSet(u)
    <3> SUFFICES ASSUME NEW i \in 1 .. Len(t) PROVE t[i] \in ToSet(u)
      BY <1>1 DEF ToSet
    <3>1. i + Len(s) \in DOMAIN u /\ u[i + Len(s)] = t[i]
      BY <1>1, <1>3
    <3> QED BY <3>1 DEF ToSet
  <2> QED BY <2>1, <2>2, <2>3
<1>6. ToSet(s) = {u[i] : i \in 1 .. Len(s)}
  BY <1>1, <1>2 DEF ToSet
<1>7. ASSUME NoRepeats(s), NoRepeats(t), ToSet(s) \cap ToSet(t) = {} PROVE NoRepeats(u)
  <2> SUFFICES ASSUME NEW i \in DOMAIN u, NEW j \in DOMAIN u, i # j PROVE u[i] # u[j]
    BY DEF NoRepeats
  <2>1. \A k \in 1 .. Len(s) : s[k] \in ToSet(s)
    BY <1>1 DEF ToSet
  <2>2. \A k \in 1 .. Len(t) : t[k] \in ToSet(t)
    BY <1>1 DEF ToSet
  <2>3. CASE i \in 1 .. Len(s) /\ j \in 1 .. Len(s)
    BY <2>3, <1>1, <1>2, <1>7 DEF NoRepeats
  <2>4. CASE i \notin 1 .. Len(s) /\ j \notin 1 .. Len(s)
    <3>1. /\ i - Len(s) \in DOMAIN t /\ u[i] = t[i - Len(s)]
          /\ j - Len(s) \in DOMAIN t /\ u[j] = t[j - Len(s)]
      BY <2>4, <1>1, <1>4
    <3>2. i - Len(s) # j - Len(s)
      BY <1>1
    <3> QED BY <3>1, <3>2, <1>7 DEF NoRepeats
  <2>5. CASE (i \in 1 .. Len(s)) # (j \in 1 .. Len(s))
    BY <2>1, <2>2, <2>5, <1>4, <1>7
  <2> QED BY <2>3, <2>4, <2>5
<1>8. Len(s) \in 0 .. Len(u)
  BY <1>1
<1> QED BY <1>1, <1>5, <1>6, <1>7, <1>8 DEF u

\* The first element and the others.
LEMMA TailFacts ==
  ASSUME NEW E, NEW s \in Seq(E), s # <<>>
  PROVE  /\ Head(s) \in E /\ Tail(s) \in Seq(E)
         /\ ToSet(s) = {Head(s)} \cup ToSet(Tail(s))
         /\ Len(s) \in Nat /\ Len(Tail(s)) \in Nat /\ Len(s) = Len(Tail(s)) + 1
         /\ NoRepeats(s) => NoRepeats(Tail(s)) /\ Head(s) \notin ToSet(Tail(s))
<1> DEFINE t == Tail(s)
<1>1. /\ t \in Seq(E) /\ Len(t) = Len(s) - 1 /\ Len(s) \in Nat /\ Len(s) # 0
      /\ Head(s) = s[1] /\ Head(s) \in E
      /\ DOMAIN s = 1 .. Len(s) /\ DOMAIN t = 1 .. Len(s) - 1
  OBVIOUS
<1>2. \A i \in DOMAIN t : t[i] = s[i + 1]
  OBVIOUS
<1> HIDE DEF t
<1>3. \A i \in DOMAIN s : i = 1 \/ (i - 1 \in DOMAIN t /\ t[i - 1] = s[i])
  <2> TAKE i \in DOMAIN s
  <2> SUFFICES ASSUME i # 1 PROVE i - 1 \in DOMAIN t /\ t[i - 1] = s[i]
    OBVIOUS
  <2>1. i - 1 \in DOMAIN t /\ (i - 1) + 1 = i
    BY <1>1
  <2> QED BY <2>1, <1>2
<1>4. \A i \in DOMAIN t : i + 1 \in DOMAIN s /\ i + 1 # 1
  BY <1>1
<1>5. ToSet(s) = {Head(s)} \cup ToSet(t)
  <2>1. ToSet(s) \subseteq {Head(s)} \cup ToSet(t)
    BY <1>1, <1>3 DEF ToSet
  <2>2. 1 \in DOMAIN s
    BY <1>1
  <2>3. Head(s) \in ToSet(s)
    BY <1>1, <2>2 DEF ToSet
  <2>4. ToSet(t) \subseteq ToSet(s)
    BY <1>2, <1>4 DEF ToSet
  <2> QED BY <2>1, <2>3, <2>4
<1>6. ASSUME NoRepeats(s) PROVE NoRepeats(t) /\ Head(s) \notin ToSet(t)
  <2>1. Head(s) \notin ToSet(t)
    <3>1. 1 \in DOMAIN s
      BY <1>1
    <3>2. \A i \in DOMAIN t : t[i] # s[1]
      BY <1>2, <1>4, <1>6, <3>1 DEF NoRepeats
    <3> QED BY <1>1, <3>2 DEF ToSet
  <2>2. \A i, j \in DOMAIN t : i # j => i + 1 # j + 1
    BY <1>1
  <2>3. NoRepeats(t)
    BY <1>2, <1>4, <1>6, <2>2 DEF NoRepeats
  <2> QED BY <2>1, <2>3
<1> QED BY <1>1, <1>5, <1>6 DEF t

\* The first few elements.
LEMMA PrefixFacts ==
  ASSUME NEW E, NEW s \in Seq(E), NEW n \in 0 .. Len(s)
  PROVE  /\ SubSeq(s, 1, n) \in Seq(E) /\ Len(SubSeq(s, 1, n)) = n
         /\ ToSet(SubSeq(s, 1, n)) \subseteq ToSet(s)
         /\ NoRepeats(s) => NoRepeats(SubSeq(s, 1, n))
<1> DEFINE t == SubSeq(s, 1, n)
<1>1. /\ Len(s) \in Nat /\ DOMAIN s = 1 .. Len(s)
      /\ t \in Seq(E) /\ Len(t) = n /\ DOMAIN t = 1 .. n
  OBVIOUS
<1>2. \A i \in DOMAIN t : t[i] = s[i]
  OBVIOUS
<1> HIDE DEF t
<1>3. DOMAIN t \subseteq DOMAIN s
  BY <1>1
<1>4. ToSet(t) \subseteq ToSet(s)
  BY <1>2, <1>3 DEF ToSet
<1>5. NoRepeats(s) => NoRepeats(t)
  BY <1>2, <1>3 DEF NoRepeats
<1> QED BY <1>1, <1>4, <1>5 DEF t
=============================================================================
