----------------------------- MODULE Induction -----------------------------
(***************************************************************************)
(* Induction without operator parameters.  A property is the set of the    *)
(* values that have it, so that a proof instantiates a constant, not an    *)
(* operator; what a fold computes follows from the recursion it is.        *)
(***************************************************************************)
EXTENDS Integers, Selection, SequencesExt, FiniteSetsExt, SequenceTheorems, FiniteSetTheorems,
        WellFoundedInduction, TLAPS

\* A set of natural numbers has a least element.
LEMMA LeastNatural ==
    ASSUME NEW T \in SUBSET Nat, T # {}
    PROVE  \E n \in T : \A m \in T : n <= m
<1> DEFINE R == OpToRel(<, Nat)
<1>1. PICK n \in T : \A m \in T : ~(<<m, n>> \in R)
  <2>1. IsWellFoundedOn(R, Nat)
    BY NatLessThanWellFounded
  <2>2. QED
    BY <2>1, WFMin
<1>2. ASSUME NEW m \in T PROVE n <= m
  <2>1. n \in Nat /\ m \in Nat
    OBVIOUS
  <2>2. ~(m < n)
    BY <1>1, <2>1 DEF OpToRel
  <2>3. QED
    BY <2>1, <2>2
<1>3. QED
  BY <1>2

\* A set that holds 0 and every successor of its members holds every number.
LEMMA NaturalsByStep ==
    ASSUME NEW S, 0 \in S, \A n \in Nat : n \in S => n + 1 \in S
    PROVE  Nat \subseteq S
<1> DEFINE T == {n \in Nat : n \notin S}
<1>1. ASSUME T # {} PROVE FALSE
  <2>1. PICK n \in T : \A m \in T : n <= m
    BY <1>1, LeastNatural
  <2>2. n # 0 /\ n \in Nat
    BY <2>1
  <2>3. n - 1 \in Nat /\ n - 1 \notin T
    BY <2>1, <2>2
  <2>4. QED
    BY <2>1, <2>2, <2>3
<1>2. QED
  BY <1>1

\* The same up to a bound.
LEMMA IntervalByStep ==
    ASSUME NEW L \in Nat, NEW S, 0 \in S, \A n \in 0..(L - 1) : n \in S => n + 1 \in S
    PROVE  0..L \subseteq S
<1> DEFINE T == {n \in Nat : n <= L => n \in S}
<1>1. Nat \subseteq T
  <2>1. 0 \in T
    OBVIOUS
  <2>2. ASSUME NEW n \in Nat, n \in T PROVE n + 1 \in T
    BY <2>2
  <2> HIDE DEF T
  <2>3. QED
    BY <2>1, <2>2, NaturalsByStep
<1>2. QED
  BY <1>1

\* A collection that holds a subset of a finite set as soon as it holds the
\* smaller ones holds them all.
LEMMA SubsetsBySize ==
    ASSUME NEW S, IsFiniteSet(S), NEW C,
           \A T \in SUBSET S :
               (\A U \in SUBSET S : Cardinality(U) < Cardinality(T) => U \in C) => T \in C
    PROVE  SUBSET S \subseteq C
<1> DEFINE Bad == {T \in SUBSET S : T \notin C}
           Sizes == {Cardinality(T) : T \in Bad}
<1>1. \A T \in SUBSET S : Cardinality(T) \in Nat
  BY FS_Subset, FS_CardinalityType
<1>2. ASSUME Bad # {} PROVE FALSE
  <2>1. Sizes \in SUBSET Nat /\ Sizes # {}
    BY <1>1, <1>2
  <2>2. PICK n \in Sizes : \A m \in Sizes : n <= m
    BY <2>1, LeastNatural
  <2>3. PICK T \in Bad : n = Cardinality(T)
    BY <2>2
  <2>4. ASSUME NEW U \in SUBSET S, Cardinality(U) < Cardinality(T) PROVE U \in C
    <3>1. Cardinality(U) \in Nat /\ Cardinality(T) \in Nat
      BY <1>1
    <3>2. Cardinality(U) \notin Sizes
      BY <2>2, <2>3, <2>4, <3>1
    <3>3. QED
      BY <3>2
  <2>5. QED
    BY <2>3, <2>4
<1>3. QED
  BY <1>2

\* A recursion over 0..L that stays in a set V has a value at every step.  step
\* is the recursion's body, a function of the index and then of the value before it.
Stepwise(g, L, base, step) ==
    g = [n \in 0..L |-> IF n = 0 THEN base ELSE step[n][g[n - 1]]]

LEMMA StepwiseExists ==
    ASSUME NEW L \in Nat, NEW V, NEW base \in V, NEW step \in [1..L -> [V -> V]]
    PROVE  \E g \in [0..L -> V] : Stepwise(g, L, base, step)
<1> DEFINE Done == {n \in 0..L : \E g \in [0..n -> V] : Stepwise(g, n, base, step)}
<1>1. 0 \in Done
  <2> DEFINE g == [k \in 0..0 |-> base]
  <2>1. g \in [0..0 -> V] /\ Stepwise(g, 0, base, step)
    BY DEF Stepwise
  <2>2. QED
    BY <2>1
<1>2. ASSUME NEW n \in 0..(L - 1), n \in Done PROVE n + 1 \in Done
  <2>1. PICK g \in [0..n -> V] : Stepwise(g, n, base, step)
    BY <1>2
  <2> DEFINE h == [k \in 0..(n + 1) |-> IF k = 0 THEN base ELSE step[k][g[k - 1]]]
  <2>2. \A k \in 0..n : h[k] = g[k]
    BY <2>1 DEF Stepwise
  <2>3. ASSUME NEW k \in 0..(n + 1)
        PROVE  h[k] \in V /\ h[k] = IF k = 0 THEN base ELSE step[k][h[k - 1]]
    <3>1. CASE k = 0
      BY <3>1
    <3>2. CASE k # 0
      <4>1. k - 1 \in 0..n /\ k \in 1..L
        BY <3>2
      <4>2. h[k - 1] = g[k - 1] /\ g[k - 1] \in V
        BY <2>2, <4>1
      <4>3. step[k] \in [V -> V]
        BY <4>1
      <4>4. QED
        BY <3>2, <4>2, <4>3
    <3>3. QED
      BY <3>1, <3>2
  <2>4. h \in [0..(n + 1) -> V] /\ Stepwise(h, n + 1, base, step)
    BY <2>3 DEF Stepwise
  <2>5. n + 1 \in 0..L
    OBVIOUS
  <2>6. QED
    BY <2>4, <2>5
<1>3. QED
  <2> HIDE DEF Done
  <2>1. 0..L \subseteq Done
    BY <1>1, <1>2, IntervalByStep
  <2>2. L \in Done
    BY <2>1
  <2>3. QED
    BY <2>2 DEF Done

-----------------------------------------------------------------------------
\* A sequence with one element more.
LEMMA AppendFacts ==
    ASSUME NEW S, NEW s \in Seq(S), NEW e \in S
    PROVE  /\ Append(s, e) \in Seq(S) /\ Append(s, e) # <<>>
           /\ Len(Append(s, e)) = Len(s) + 1 /\ Len(s) \in Nat
           /\ Front(Append(s, e)) = s /\ Last(Append(s, e)) = e
           /\ \A n \in 0..Len(s) : SubSeq(Append(s, e), 1, n) = SubSeq(s, 1, n)
           /\ SubSeq(Append(s, e), 1, Len(s) + 1) = Append(s, e)
<1> DEFINE q == Append(s, e)
<1>1. /\ q \in Seq(S) /\ q # <<>> /\ Len(q) = Len(s) + 1 /\ Len(s) \in Nat
      /\ q[Len(q)] = e /\ \A i \in 1..Len(s) : q[i] = s[i]
  BY AppendProperties, LenProperties
<1>2. ASSUME NEW n \in 0..Len(s) PROVE SubSeq(q, 1, n) = SubSeq(s, 1, n)
  <2>1. \A i \in 1..n : s[i] \in S /\ q[i] = s[i]
    BY <1>1, ElementOfSeq
  <2>2. QED
    BY <1>1, <2>1
<1>3. SubSeq(s, 1, Len(s)) = s /\ SubSeq(q, 1, Len(q)) = q
  BY <1>1, SubSeqFull
<1>4. Front(q) = s /\ Last(q) = e
  <2>1. Len(q) - 1 = Len(s) /\ Len(s) \in 0..Len(s)
    BY <1>1
  <2>2. Front(q) = SubSeq(q, 1, Len(s)) /\ Last(q) = q[Len(q)]
    BY <2>1 DEF Front, Last
  <2>3. QED
    BY <1>1, <1>2, <1>3, <2>1, <2>2
<1>5. QED
  BY <1>1, <1>2, <1>3, <1>4

\* A sequence without its last element.
LEMMA FrontFacts ==
    ASSUME NEW S, NEW s \in Seq(S), s # <<>>
    PROVE  /\ Front(s) \in Seq(S) /\ Last(s) \in S /\ s = Append(Front(s), Last(s))
           /\ Len(s) \in Nat \ {0} /\ Len(Front(s)) = Len(s) - 1
           /\ \A i \in 1..(Len(s) - 1) : Front(s)[i] = s[i]
<1>1. PICK t \in Seq(S), e \in S : s = Append(t, e)
  BY SequenceEmptyOrAppend
<1>2. Front(s) = t /\ Last(s) = e /\ Len(s) = Len(t) + 1 /\ Len(t) \in Nat
  BY <1>1, AppendFacts
<1>3. \A i \in 1..Len(t) : s[i] = t[i]
  BY <1>1, AppendProperties
<1>4. QED
  BY <1>1, <1>2, <1>3

\* A prefix is what a sequence begins with.
LEMMA PrefixFacts ==
    ASSUME NEW S, NEW s \in Seq(S), NEW t \in Seq(S)
    PROVE  /\ IsPrefix(s, t) <=> Len(s) <= Len(t) /\ s = SubSeq(t, 1, Len(s))
           /\ Len(s) \in Nat /\ Len(t) \in Nat
           /\ \A n \in 0..Len(t) : /\ SubSeq(t, 1, n) \in Seq(S) /\ Len(SubSeq(t, 1, n)) = n
                                   /\ \A i \in 1..n : SubSeq(t, 1, n)[i] = t[i]
<1>1. Len(s) \in Nat /\ Len(t) \in Nat /\ SubSeq(s, 1, Len(s)) = s
  BY LenProperties, SubSeqFull
<1>2. ASSUME NEW n \in 0..Len(t)
      PROVE  /\ SubSeq(t, 1, n) \in Seq(S) /\ Len(SubSeq(t, 1, n)) = n
             /\ \A i \in 1..n : SubSeq(t, 1, n)[i] = t[i]
  <2>1. \A i \in 1..n : t[i] \in S
    BY <1>1, ElementOfSeq
  <2>2. n \in Nat
    BY <1>1
  <2>3. QED
    BY <2>1, <2>2, SubSeqProperties
<1>3. QED
  BY <1>1, <1>2 DEF IsPrefix

-----------------------------------------------------------------------------
\* The recursion a sum over a set is: what it takes for it to be the value of
\* SumFunctionOnSet on every subset of S.
Chosen(s) == CHOOSE x \in s : TRUE
IsSum(it, f, S) ==
    it = [s \in SUBSET S |-> IF s = {} THEN 0 ELSE f[Chosen(s)] + it[s \ {Chosen(s)}]]

\* The same recursion on the subsets of at most n members.
Small(S, n) == {s \in SUBSET S : Cardinality(s) <= n}
SumOf(it, f, s) == IF s = {} THEN 0 ELSE f[Chosen(s)] + it[s \ {Chosen(s)}]
SumsUpTo(f, S, n) == \E it : it = [s \in Small(S, n) |-> SumOf(it, f, s)]

\* Taking the chosen member out leaves a smaller subset.
LEMMA WithoutChosen ==
    ASSUME NEW S, IsFiniteSet(S), NEW s \in SUBSET S
    PROVE  /\ IsFiniteSet(s)
           /\ Cardinality(s) \in Nat
           /\ s # {} => /\ Chosen(s) \in s
                        /\ s \ {Chosen(s)} \in SUBSET S
                        /\ Cardinality(s \ {Chosen(s)}) = Cardinality(s) - 1
                        /\ Cardinality(s) # 0
<1>1. IsFiniteSet(s) /\ Cardinality(s) \in Nat
  BY FS_Subset, FS_CardinalityType
<1>2. s # {} => Chosen(s) \in s /\ s \ {Chosen(s)} \in SUBSET S
  BY DEF Chosen
<1>3. s # {} => Cardinality(s) # 0 /\ Cardinality(s \ {Chosen(s)}) = Cardinality(s) - 1
  BY <1>1, <1>2, FS_RemoveElement, FS_EmptySet
<1>4. QED
  BY <1>1, <1>2, <1>3

\* Over a finite set the recursion is well defined.
LEMMA SumExists ==
    ASSUME NEW S, IsFiniteSet(S), NEW f
    PROVE  \E it : IsSum(it, f, S)
<1> DEFINE Done == {n \in Nat : SumsUpTo(f, S, n)}
<1>1. 0 \in Done
  <2>1. ASSUME NEW s \in Small(S, 0) PROVE s = {}
    <3>1. s \in SUBSET S /\ Cardinality(s) <= 0
      BY DEF Small
    <3>2. Cardinality(s) \in Nat /\ (s # {} => Cardinality(s) # 0)
      BY <3>1, WithoutChosen
    <3>3. QED
      BY <3>1, <3>2
  <2> DEFINE it == [s \in Small(S, 0) |-> 0]
  <2>2. it = [s \in Small(S, 0) |-> SumOf(it, f, s)]
    BY <2>1 DEF SumOf
  <2>3. QED
    BY <2>2 DEF SumsUpTo
<1>2. ASSUME NEW n \in Nat, n \in Done PROVE n + 1 \in Done
  <2>1. PICK it : it = [s \in Small(S, n) |-> SumOf(it, f, s)]
    BY <1>2 DEF SumsUpTo
  <2> DEFINE more == [s \in Small(S, n + 1) |-> SumOf(it, f, s)]
  <2>2. ASSUME NEW s \in Small(S, n + 1) PROVE SumOf(it, f, s) = SumOf(more, f, s)
    <3>1. CASE s = {}
      BY <3>1 DEF SumOf
    <3>2. CASE s # {}
      <4> DEFINE t == s \ {Chosen(s)}
      <4>1. t \in Small(S, n) /\ t \in Small(S, n + 1)
        <5>1. s \in SUBSET S /\ Cardinality(s) <= n + 1
          BY DEF Small
        <5>2. t \in SUBSET S /\ Cardinality(t) = Cardinality(s) - 1 /\ Cardinality(s) \in Nat
          BY <3>2, <5>1, WithoutChosen
        <5>3. QED
          BY <5>1, <5>2 DEF Small
      <4>2. it[t] = SumOf(it, f, t) /\ more[t] = SumOf(it, f, t)
        BY <2>1, <4>1
      <4>3. QED
        BY <3>2, <4>2 DEF SumOf
    <3>3. QED
      BY <3>1, <3>2
  <2>3. more = [s \in Small(S, n + 1) |-> SumOf(more, f, s)]
    BY <2>2
  <2> HIDE DEF more
  <2>4. QED
    BY <2>3 DEF SumsUpTo
<1>3. Nat \subseteq Done
  <2> HIDE DEF Done
  <2>1. QED
    BY <1>1, <1>2, NaturalsByStep
<1>4. Cardinality(S) \in Nat
  BY FS_CardinalityType
<1>5. Small(S, Cardinality(S)) = SUBSET S
  BY FS_Subset DEF Small
<1>6. PICK it : it = [s \in SUBSET S |-> SumOf(it, f, s)]
  BY <1>3, <1>4, <1>5 DEF SumsUpTo
<1>7. QED
  BY <1>6 DEF IsSum, SumOf

\* A sum of naturals is a natural, and any member may be taken out of it.
TakesOut(it, f, s) == /\ it[s] \in Nat
                      /\ \A x \in s : it[s] = f[x] + it[s \ {x}]

LEMMA SumTakesOut ==
    ASSUME NEW S, IsFiniteSet(S), NEW f \in [S -> Nat], NEW it, IsSum(it, f, S)
    PROVE  \A s \in SUBSET S : TakesOut(it, f, s)
<1> DEFINE C == {s \in SUBSET S : TakesOut(it, f, s)}
<1>1. ASSUME NEW s \in SUBSET S,
             \A u \in SUBSET S : Cardinality(u) < Cardinality(s) => TakesOut(it, f, u)
      PROVE  TakesOut(it, f, s)
  <2>1. CASE s = {}
    <3>1. it[s] = 0
      BY <2>1 DEF IsSum
    <3>2. QED
      BY <2>1, <3>1 DEF TakesOut
  <2>2. CASE s # {}
    <3> DEFINE y == Chosen(s)
    <3>1. /\ y \in s /\ s \ {y} \in SUBSET S
          /\ Cardinality(s \ {y}) = Cardinality(s) - 1
          /\ Cardinality(s) \in Nat /\ IsFiniteSet(s)
      BY <2>2, WithoutChosen
    <3>2. TakesOut(it, f, s \ {y})
      <4>1. Cardinality(s \ {y}) < Cardinality(s)
        BY <3>1
      <4>2. QED
        BY <1>1, <3>1, <4>1
    <3>3. it[s] = f[y] + it[s \ {y}] /\ it[s \ {y}] \in Nat /\ f[y] \in Nat
      BY <2>2, <3>1, <3>2 DEF IsSum, TakesOut
    <3> HIDE DEF y
    <3>4. ASSUME NEW x \in s, x # y PROVE it[s] = f[x] + it[s \ {x}]
      <4> DEFINE t == (s \ {x}) \ {y}
      <4>1. /\ IsFiniteSet(s \ {x}) /\ y \in s \ {x}
            /\ Cardinality(s \ {x}) = Cardinality(s) - 1
            /\ x \in s \ {y}
        BY <3>1, <3>4, FS_RemoveElement
      <4>2. Cardinality(t) = Cardinality(s \ {x}) - 1
        BY <4>1, FS_RemoveElement
      <4>3. TakesOut(it, f, s \ {x})
        <5>1. s \ {x} \in SUBSET S /\ Cardinality(s \ {x}) < Cardinality(s)
          BY <3>1, <4>1
        <5>2. QED
          BY <1>1, <5>1
      <4>4. TakesOut(it, f, t)
        <5>1. t \in SUBSET S /\ Cardinality(t) < Cardinality(s)
          BY <3>1, <4>1, <4>2
        <5> HIDE DEF t
        <5>2. QED
          BY <1>1, <5>1
      <4>5. it[s \ {x}] = f[y] + it[t]
        BY <4>1, <4>3 DEF TakesOut
      <4>6. it[s \ {y}] = f[x] + it[t]
        <5>1. it[s \ {y}] = f[x] + it[(s \ {y}) \ {x}]
          BY <3>2, <4>1 DEF TakesOut
        <5>2. (s \ {y}) \ {x} = t
          OBVIOUS
        <5>3. QED
          BY <5>1, <5>2
      <4>7. it[t] \in Nat /\ f[x] \in Nat
        BY <4>4 DEF TakesOut
      <4> HIDE DEF t
      <4>8. QED
        BY <3>3, <4>5, <4>6, <4>7
    <3>5. it[s] \in Nat
      BY <3>3
    <3>6. QED
      BY <3>3, <3>4, <3>5 DEF TakesOut
  <2>3. QED
    BY <2>1, <2>2
<1>2. SUBSET S \subseteq C
  <2>1. ASSUME NEW s \in SUBSET S,
               \A u \in SUBSET S : Cardinality(u) < Cardinality(s) => u \in C
        PROVE  s \in C
    BY <1>1, <2>1
  <2> HIDE DEF C
  <2>2. QED
    BY <2>1, SubsetsBySize
<1>3. QED
  BY <1>2
\* The recursions over a set and over a subset of it agree on the subset.
LEMMA SumsAgree ==
    ASSUME NEW S, IsFiniteSet(S), NEW T \in SUBSET S, NEW f,
           NEW it, IsSum(it, f, S), NEW jt, IsSum(jt, f, T)
    PROVE  \A s \in SUBSET T : it[s] = jt[s]
<1> DEFINE C == {s \in SUBSET T : it[s] = jt[s]}
<1>1. IsFiniteSet(T)
  BY FS_Subset
<1>2. ASSUME NEW s \in SUBSET T,
             \A u \in SUBSET T : Cardinality(u) < Cardinality(s) => u \in C
      PROVE  s \in C
  <2>1. s \in SUBSET S
    OBVIOUS
  <2>2. CASE s = {}
    BY <2>1, <2>2 DEF IsSum
  <2>3. CASE s # {}
    <3> DEFINE u == s \ {Chosen(s)}
    <3>1. u \in SUBSET T /\ Cardinality(u) < Cardinality(s)
      <4>1. u \in SUBSET T /\ Cardinality(u) = Cardinality(s) - 1 /\ Cardinality(s) \in Nat
        BY <1>1, <2>3, WithoutChosen
      <4>2. QED
        BY <4>1
    <3>2. it[u] = jt[u]
      BY <1>2, <3>1
    <3>3. QED
      BY <2>1, <2>3, <3>2 DEF IsSum
  <2>4. QED
    BY <2>2, <2>3
<1>3. SUBSET T \subseteq C
  <2> HIDE DEF C
  <2>1. QED
    BY <1>1, <1>2, SubsetsBySize
<1>4. QED
  BY <1>3

\* SumFunctionOnSet is the value of the recursion.
LEMMA SumIsRecursion ==
    ASSUME NEW S, IsFiniteSet(S), NEW f
    PROVE  \E it : IsSum(it, f, S) /\ SumFunctionOnSet(f, S) = it[S]
<1> DEFINE it == CHOOSE g : IsSum(g, f, S)
<1>1. IsSum(it, f, S)
  BY SumExists
<1>2. SumFunctionOnSet(f, S) = it[S]
  BY DEF SumFunctionOnSet, FoldFunctionOnSet, MapThenFoldSet, IsSum, Chosen
<1>3. QED
  BY <1>1, <1>2

\* What a sum over a subset of the naturals' domain is: nothing over the empty
\* set, one term more with one member more, and no less over a larger set.
LEMMA SumFacts ==
    ASSUME NEW S, IsFiniteSet(S), NEW f \in [S -> Nat]
    PROVE  /\ SumFunctionOnSet(f, {}) = 0
           /\ \A T \in SUBSET S : SumFunctionOnSet(f, T) \in Nat
           /\ \A T \in SUBSET S : \A x \in S \ T :
                 SumFunctionOnSet(f, T \cup {x}) = SumFunctionOnSet(f, T) + f[x]
<1>1. PICK it : IsSum(it, f, S)
  BY SumExists
<1>2. ASSUME NEW T \in SUBSET S PROVE SumFunctionOnSet(f, T) = it[T]
  <2>1. IsFiniteSet(T)
    BY FS_Subset
  <2>2. PICK jt : IsSum(jt, f, T) /\ SumFunctionOnSet(f, T) = jt[T]
    BY <2>1, SumIsRecursion
  <2>3. QED
    BY <1>1, <2>2, SumsAgree
<1>3. it[{}] = 0
  BY <1>1 DEF IsSum
<1>4. \A T \in SUBSET S : TakesOut(it, f, T)
  BY <1>1, SumTakesOut
<1>5. ASSUME NEW T \in SUBSET S, NEW x \in S \ T PROVE it[T \cup {x}] = it[T] + f[x]
  <2>1. it[T \cup {x}] = f[x] + it[(T \cup {x}) \ {x}]
    BY <1>4 DEF TakesOut
  <2>2. (T \cup {x}) \ {x} = T
    OBVIOUS
  <2>3. it[T] \in Nat /\ f[x] \in Nat
    BY <1>4 DEF TakesOut
  <2>4. it[T \cup {x}] = f[x] + it[T]
    BY <2>1, <2>2, Zenon
  <2>5. QED
    BY <2>3, <2>4
<1>6. \A T \in SUBSET S : it[T] \in Nat
  BY <1>4 DEF TakesOut
<1>7. QED
  BY <1>2, <1>3, <1>5, <1>6

LEMMA SumGrows ==
    ASSUME NEW S, IsFiniteSet(S), NEW f \in [S -> Nat], NEW T \in SUBSET S
    PROVE  /\ SumFunctionOnSet(f, T) <= SumFunctionOnSet(f, S)
           /\ \A U \in SUBSET S : T \subseteq U => SumFunctionOnSet(f, T) <= SumFunctionOnSet(f, U)
<1> DEFINE C == {D \in SUBSET (S \ T) : SumFunctionOnSet(f, T) <= SumFunctionOnSet(f, T \cup D)}
<1>1. IsFiniteSet(S \ T)
  BY FS_Subset
<1>2. ASSUME NEW D \in SUBSET (S \ T),
             \A E \in SUBSET (S \ T) : Cardinality(E) < Cardinality(D) => E \in C
      PROVE  D \in C
  <2>1. CASE D = {}
    <3>1. T \cup D = T /\ SumFunctionOnSet(f, T) \in Nat
      BY <2>1, SumFacts
    <3>2. QED
      BY <3>1
  <2>2. CASE D # {}
    <3>1. PICK x \in D : TRUE
      BY <2>2
    <3> DEFINE E == D \ {x}
    <3>2. E \in SUBSET (S \ T) /\ Cardinality(E) < Cardinality(D)
      <4>1. IsFiniteSet(D)
        BY <1>1, FS_Subset
      <4>2. Cardinality(D) \in Nat /\ Cardinality(E) = Cardinality(D) - 1
        BY <4>1, FS_RemoveElement, FS_CardinalityType
      <4>3. QED
        BY <4>2
    <3>3. SumFunctionOnSet(f, T) <= SumFunctionOnSet(f, T \cup E)
      BY <1>2, <3>2
    <3>4. SumFunctionOnSet(f, (T \cup E) \cup {x}) = SumFunctionOnSet(f, T \cup E) + f[x]
      <4> DEFINE U == T \cup E
      <4>1. U \in SUBSET S /\ x \in S \ U
        OBVIOUS
      <4> HIDE DEF U
      <4>2. SumFunctionOnSet(f, U \cup {x}) = SumFunctionOnSet(f, U) + f[x]
        BY <4>1, SumFacts
      <4>3. QED
        BY <4>2 DEF U
    <3>5. (T \cup E) \cup {x} = T \cup D
      OBVIOUS
    <3>6. /\ SumFunctionOnSet(f, T) \in Nat /\ SumFunctionOnSet(f, T \cup E) \in Nat
          /\ f[x] \in Nat
      BY SumFacts
    <3>7. SumFunctionOnSet(f, T \cup D) = SumFunctionOnSet(f, T \cup E) + f[x]
      BY <3>4, <3>5, Zenon
    <3> HIDE DEF E
    <3>8. QED
      BY <3>3, <3>6, <3>7
  <2>3. QED
    BY <2>1, <2>2
<1>3. SUBSET (S \ T) \subseteq C
  <2> DEFINE R == S \ T
  <2>1. /\ IsFiniteSet(R)
        /\ \A D \in SUBSET R :
              (\A E \in SUBSET R : Cardinality(E) < Cardinality(D) => E \in C) => D \in C
    BY <1>1, <1>2
  <2> HIDE DEF C, R
  <2>2. SUBSET R \subseteq C
    BY <2>1, SubsetsBySize
  <2>3. QED
    BY <2>2 DEF R
<1>4. ASSUME NEW U \in SUBSET S, T \subseteq U
      PROVE  SumFunctionOnSet(f, T) <= SumFunctionOnSet(f, U)
  <2>1. T \cup (U \ T) = U /\ U \ T \in SUBSET (S \ T)
    BY <1>4
  <2>2. QED
    BY <1>3, <2>1
<1>5. QED
  BY <1>4

-----------------------------------------------------------------------------
\* The elements picked from the first n of a sequence.
PickedUpTo(g, s, S) ==
    g = [n \in 0..Len(s) |->
            IF n = 0 THEN <<>>
            ELSE IF s[n] \in S /\ s[n] \notin Range(g[n - 1]) THEN Append(g[n - 1], s[n]) ELSE g[n - 1]]

\* What a sequence ranges over, with one element more.
LEMMA AppendRange ==
    ASSUME NEW T, NEW s \in Seq(T), NEW e \in T
    PROVE  Range(Append(s, e)) = Range(s) \cup {e}
<1> DEFINE t == Append(s, e)
<1>1. /\ t \in Seq(T) /\ Len(t) = Len(s) + 1 /\ t[Len(s) + 1] = e
      /\ \A i \in 1..Len(s) : t[i] = s[i]
  BY AppendProperties
<1>2. Len(s) \in Nat /\ DOMAIN s = 1..Len(s) /\ DOMAIN t = 1..(Len(s) + 1)
  BY <1>1, LenProperties
<1>3. 1..(Len(s) + 1) = (1..Len(s)) \cup {Len(s) + 1}
  BY <1>2
<1> HIDE DEF t
<1>4. Range(t) = Range(s) \cup {e}
  BY <1>1, <1>2, <1>3 DEF Range
<1>5. QED
  BY <1>4 DEF t

\* An element more in a sequence of distinct ones.
LEMMA DistinctAppend ==
    ASSUME NEW T, NEW s \in Seq(T), IsInjective(s), NEW k \in T, k \notin Range(s)
    PROVE  /\ Append(s, k) \in Seq(T) /\ IsInjective(Append(s, k))
           /\ Range(Append(s, k)) = Range(s) \cup {k}
<1> DEFINE t == Append(s, k)
<1>1. /\ t \in Seq(T) /\ Len(t) = Len(s) + 1 /\ t[Len(s) + 1] = k /\ \A i \in 1..Len(s) : t[i] = s[i]
      /\ Len(s) \in Nat
  BY AppendProperties, LenProperties
<1>2. DOMAIN s = 1..Len(s) /\ DOMAIN t = 1..(Len(s) + 1)
  BY <1>1, LenProperties
<1>3. 1..(Len(s) + 1) = (1..Len(s)) \cup {Len(s) + 1}
  BY <1>1
<1> HIDE DEF t
<1>4. Range(t) = Range(s) \cup {k}
  BY <1>1, <1>2, <1>3 DEF Range
<1>5. \A i \in 1..Len(s) : t[i] # k
  BY <1>1, <1>2 DEF Range
<1>6. IsInjective(t)
  BY <1>1, <1>2, <1>3, <1>5 DEF IsInjective
<1>7. QED
  BY <1>1, <1>4, <1>6 DEF t

\* One sequence of distinct elements after another that shares none with it.
LEMMA DistinctConcat ==
    ASSUME NEW T, NEW a \in Seq(T), NEW b \in Seq(T), IsInjective(a), IsInjective(b),
           Range(a) \cap Range(b) = {}
    PROVE  /\ a \o b \in Seq(T) /\ IsInjective(a \o b)
           /\ Range(a \o b) = Range(a) \cup Range(b)
<1> DEFINE c == a \o b
<1>1. /\ Len(a) \in Nat /\ Len(b) \in Nat /\ DOMAIN a = 1..Len(a) /\ DOMAIN b = 1..Len(b)
      /\ c \in Seq(T) /\ DOMAIN c = 1..(Len(a) + Len(b))
      /\ \A i \in 1..(Len(a) + Len(b)) : c[i] = IF i <= Len(a) THEN a[i] ELSE b[i - Len(a)]
  BY ConcatProperties, LenProperties
<1>2. Range(c) = Range(a) \cup Range(b)
  BY RangeConcatenation
<1>3. \A i \in 1..Len(a), j \in 1..Len(b) : a[i] # b[j]
  BY <1>1 DEF Range
<1>4. /\ \A i, j \in 1..Len(a) : a[i] = a[j] => i = j
      /\ \A i, j \in 1..Len(b) : b[i] = b[j] => i = j
  BY <1>1 DEF IsInjective
<1> HIDE DEF c
<1>5. ASSUME NEW i \in 1..(Len(a) + Len(b)), NEW j \in 1..(Len(a) + Len(b)), c[i] = c[j]
      PROVE  i = j
  <2>1. CASE i <= Len(a) /\ j <= Len(a)
    BY <1>1, <1>4, <1>5, <2>1
  <2>2. CASE i <= Len(a) /\ ~(j <= Len(a))
    <3>1. i \in 1..Len(a) /\ j - Len(a) \in 1..Len(b)
      BY <1>1, <2>2
    <3>2. QED
      BY <1>1, <1>3, <1>5, <2>2, <3>1
  <2>3. CASE ~(i <= Len(a)) /\ j <= Len(a)
    <3>1. j \in 1..Len(a) /\ i - Len(a) \in 1..Len(b)
      BY <1>1, <2>3
    <3>2. QED
      BY <1>1, <1>3, <1>5, <2>3, <3>1
  <2>4. CASE ~(i <= Len(a)) /\ ~(j <= Len(a))
    <3>1. i - Len(a) \in 1..Len(b) /\ j - Len(a) \in 1..Len(b)
      BY <1>1, <2>4
    <3>2. i - Len(a) = j - Len(a)
      BY <1>1, <1>4, <1>5, <2>4, <3>1
    <3>3. QED
      BY <1>1, <3>2
  <2>5. QED
    BY <2>1, <2>2, <2>3, <2>4
<1>6. IsInjective(c)
  BY <1>1, <1>5 DEF IsInjective
<1>7. QED
  BY <1>1, <1>2, <1>6 DEF c

\* What is picked are the elements of the sequence that are in the set, once each.
LEMMA PickedFacts ==
    ASSUME NEW K, NEW s \in Seq(K), NEW S
    PROVE  /\ Picked(s, S) \in Seq(K) /\ IsInjective(Picked(s, S))
           /\ Range(Picked(s, S)) = Range(s) \cap S
<1> DEFINE V == Seq(K)
           L == Len(s)
           Next1(v, n) == IF s[n] \in S /\ s[n] \notin Range(v) THEN Append(v, s[n]) ELSE v
           step == [n \in 1..L |-> [v \in V |-> Next1(v, n)]]
<1>1. L \in Nat /\ <<>> \in V /\ DOMAIN s = 1..L
  BY LenProperties
<1>2. step \in [1..L -> [V -> V]]
  BY ElementOfSeq, AppendProperties
<1>3. \E g \in [0..L -> V] : Stepwise(g, L, <<>>, step)
  <2> HIDE DEF V, L, step
  <2>1. QED
    BY <1>1, <1>2, StepwiseExists
<1>4. PICK g \in [0..L -> V] : Stepwise(g, L, <<>>, step)
  BY <1>3
<1>5. \A n \in 0..L : g[n] = IF n = 0 THEN <<>> ELSE Next1(g[n - 1], n)
  <2>1. ASSUME NEW n \in 0..L, n # 0 PROVE g[n] = Next1(g[n - 1], n)
    <3>1. n \in 1..L /\ n - 1 \in 0..L
      BY <2>1
    <3>2. g[n] = step[n][g[n - 1]] /\ g[n - 1] \in V
      BY <1>4, <2>1, <3>1 DEF Stepwise
    <3>3. QED
      BY <3>1, <3>2
  <2>2. g[0] = <<>>
    BY <1>1, <1>4 DEF Stepwise
  <2>3. QED
    BY <2>1, <2>2
<1>6. PickedUpTo(g, s, S)
  BY <1>5 DEF PickedUpTo
<1> DEFINE c == CHOOSE f : PickedUpTo(f, s, S)
<1>7. PickedUpTo(c, s, S) /\ Picked(s, S) = c[L]
  BY <1>6 DEF Picked, PickedUpTo
<1> DEFINE Right(n) == /\ c[n] \in Seq(K) /\ IsInjective(c[n])
                       /\ Range(c[n]) = {s[i] : i \in 1..n} \cap S
           T == {n \in 0..L : Right(n)}
<1> HIDE DEF c
<1>8. 0 \in T
  <2>1. 0 \in 0..L
    BY <1>1
  <2>2. c[0] = <<>>
    BY <1>7, <2>1 DEF PickedUpTo
  <2>3. <<>> \in Seq(K) /\ DOMAIN <<>> = {} /\ {s[i] : i \in 1..0} = {}
    OBVIOUS
  <2>4. IsInjective(<<>>) /\ Range(<<>>) = {}
    BY <2>3 DEF IsInjective, Range
  <2>5. QED
    BY <2>1, <2>2, <2>3, <2>4
<1>9. ASSUME NEW n \in 0..(L - 1), n \in T PROVE n + 1 \in T
  <2>1. n + 1 \in 1..L /\ n + 1 \in 0..L /\ n + 1 # 0 /\ (n + 1) - 1 = n
    BY <1>1
  <2>2. c[n + 1] = Next1(c[n], n + 1)
    BY <1>7, <2>1 DEF PickedUpTo
  <2>3. s[n + 1] \in K
    BY <2>1, ElementOfSeq
  <2>4. {s[i] : i \in 1..(n + 1)} = {s[i] : i \in 1..n} \cup {s[n + 1]}
    <3>1. 1..(n + 1) = (1..n) \cup {n + 1}
      BY <1>1
    <3>2. QED
      BY <3>1
  <2>5. Right(n)
    BY <1>9
  <2>6. CASE s[n + 1] \in S /\ s[n + 1] \notin Range(c[n])
    <3>1. c[n + 1] = Append(c[n], s[n + 1])
      BY <2>2, <2>6
    <3>2. /\ c[n + 1] \in Seq(K) /\ IsInjective(c[n + 1])
          /\ Range(c[n + 1]) = Range(c[n]) \cup {s[n + 1]}
      BY <2>3, <2>5, <2>6, <3>1, DistinctAppend
    <3>3. Right(n + 1)
      BY <2>4, <2>5, <2>6, <3>2
    <3>4. QED
      BY <2>1, <3>3
  <2>7. CASE ~(s[n + 1] \in S /\ s[n + 1] \notin Range(c[n]))
    <3>1. c[n + 1] = c[n]
      BY <2>2, <2>7
    <3>2. Range(c[n + 1]) = {s[i] : i \in 1..(n + 1)} \cap S
      BY <2>4, <2>5, <2>7, <3>1
    <3>3. QED
      BY <2>1, <2>5, <3>1, <3>2
  <2>8. QED
    BY <2>6, <2>7
<1>10. L \in T
  <2> HIDE DEF T
  <2>1. 0..L \subseteq T
    BY <1>1, <1>8, <1>9, IntervalByStep
  <2>2. QED
    BY <1>1, <2>1
<1>11. Range(s) = {s[i] : i \in 1..L}
  BY <1>1 DEF Range
<1>12. QED
  BY <1>7, <1>10, <1>11

\* What follows the first of a sequence of distinct elements.
LEMMA TailDistinct ==
    ASSUME NEW T, NEW s \in Seq(T), IsInjective(s), s # <<>>
    PROVE  /\ Head(s) \in T /\ Head(s) \in Range(s)
           /\ Tail(s) \in Seq(T) /\ IsInjective(Tail(s)) /\ Range(Tail(s)) = Range(s) \ {Head(s)}
<1> DEFINE t == Tail(s)
<1>1. /\ Head(s) \in T /\ t \in Seq(T) /\ Len(t) = Len(s) - 1 /\ Len(s) \in Nat \ {0}
      /\ \A i \in 1..Len(t) : t[i] = s[i + 1]
      /\ Head(s) = s[1]
  BY HeadTailProperties, EmptySeq
<1>2. DOMAIN s = 1..Len(s) /\ DOMAIN t = 1..(Len(s) - 1)
  BY <1>1, LenProperties
<1> HIDE DEF t
<1>3. Head(s) \in Range(s)
  BY <1>1, <1>2 DEF Range
<1>4. IsInjective(t)
  <2>1. ASSUME NEW i \in 1..(Len(s) - 1), NEW j \in 1..(Len(s) - 1), t[i] = t[j] PROVE i = j
    <3>1. i + 1 \in DOMAIN s /\ j + 1 \in DOMAIN s /\ s[i + 1] = s[j + 1]
      BY <1>1, <1>2, <2>1
    <3>2. i + 1 = j + 1
      BY <3>1 DEF IsInjective
    <3>3. QED
      BY <3>2
  <2>2. QED
    BY <1>2, <2>1 DEF IsInjective
<1>5. Range(t) = Range(s) \ {Head(s)}
  <2>1. ASSUME NEW i \in 1..(Len(s) - 1) PROVE t[i] \in Range(s) /\ t[i] # s[1]
    <3>1. i + 1 \in DOMAIN s /\ t[i] = s[i + 1] /\ 1 \in DOMAIN s /\ i + 1 # 1
      BY <1>1, <1>2
    <3>2. QED
      BY <3>1 DEF Range, IsInjective
  <2>2. ASSUME NEW i \in 1..Len(s), s[i] # s[1] PROVE s[i] \in Range(t)
    <3>1. i - 1 \in 1..(Len(s) - 1) /\ (i - 1) + 1 = i
      BY <1>1, <2>2
    <3>2. t[i - 1] = s[i]
      BY <1>1, <1>2, <3>1
    <3>3. QED
      BY <1>2, <3>1, <3>2 DEF Range
  <2>3. QED
    BY <1>1, <1>2, <2>1, <2>2 DEF Range
<1>6. QED
  BY <1>1, <1>3, <1>4, <1>5 DEF t
-----------------------------------------------------------------------------
\* What is selected from the first n of a sequence.
SelectedUpTo(g, s, S) ==
    g = [n \in 0..Len(s) |->
            IF n = 0 THEN <<>>
            ELSE IF s[n] \in S THEN Append(g[n - 1], s[n]) ELSE g[n - 1]]

LEMMA SelectedByStep ==
    ASSUME NEW K, NEW s \in Seq(K), NEW S
    PROVE  \E c : /\ SelectedUpTo(c, s, S) /\ Selected(s, S) = c[Len(s)]
                  /\ \A n \in 0..Len(s) : c[n] \in Seq(K)
<1> DEFINE V == Seq(K)
           L == Len(s)
           Next1(v, n) == IF s[n] \in S THEN Append(v, s[n]) ELSE v
           step == [n \in 1..L |-> [v \in V |-> Next1(v, n)]]
<1>1. L \in Nat /\ <<>> \in V
  BY LenProperties
<1>2. step \in [1..L -> [V -> V]]
  BY ElementOfSeq, AppendProperties
<1>3. \E g \in [0..L -> V] : Stepwise(g, L, <<>>, step)
  <2> HIDE DEF V, L, step
  <2>1. QED
    BY <1>1, <1>2, StepwiseExists
<1>4. PICK g \in [0..L -> V] : Stepwise(g, L, <<>>, step)
  BY <1>3
<1>5. \A n \in 0..L : g[n] = IF n = 0 THEN <<>> ELSE Next1(g[n - 1], n)
  <2>1. ASSUME NEW n \in 0..L, n # 0 PROVE g[n] = Next1(g[n - 1], n)
    <3>1. n \in 1..L /\ n - 1 \in 0..L
      BY <2>1
    <3>2. g[n] = step[n][g[n - 1]] /\ g[n - 1] \in V
      BY <1>4, <2>1, <3>1 DEF Stepwise
    <3>3. QED
      BY <3>1, <3>2
  <2>2. g[0] = <<>>
    BY <1>1, <1>4 DEF Stepwise
  <2>3. QED
    BY <2>1, <2>2
<1>6. SelectedUpTo(g, s, S)
  BY <1>5 DEF SelectedUpTo
<1> DEFINE c == CHOOSE f : SelectedUpTo(f, s, S)
<1>7. SelectedUpTo(c, s, S) /\ Selected(s, S) = c[L]
  BY <1>6 DEF Selected, SelectedUpTo
<1> DEFINE T == {n \in 0..L : c[n] \in V}
<1> HIDE DEF c
<1>8. 0 \in T
  <2>1. 0 \in 0..L
    BY <1>1
  <2>2. c[0] = <<>>
    BY <1>7, <2>1 DEF SelectedUpTo
  <2>3. QED
    BY <1>1, <2>1, <2>2
<1>9. ASSUME NEW n \in 0..(L - 1), n \in T PROVE n + 1 \in T
  <2>1. n + 1 \in 1..L /\ n + 1 \in 0..L /\ n + 1 # 0 /\ (n + 1) - 1 = n
    BY <1>1
  <2>2. c[n + 1] = Next1(c[n], n + 1)
    BY <1>7, <2>1 DEF SelectedUpTo
  <2>3. s[n + 1] \in K /\ c[n] \in Seq(K)
    BY <1>9, <2>1, ElementOfSeq
  <2>4. Append(c[n], s[n + 1]) \in Seq(K)
    BY <2>3, AppendProperties
  <2>5. c[n + 1] \in V
    BY <2>2, <2>3, <2>4
  <2>6. QED
    BY <2>1, <2>5
<1>10. 0..L \subseteq T
  <2> HIDE DEF T
  <2>1. QED
    BY <1>1, <1>8, <1>9, IntervalByStep
<1>11. QED
  BY <1>7, <1>10

\* What is selected are the elements of the sequence that are in the set.
LEMMA SelectedFacts ==
    ASSUME NEW K, NEW s \in Seq(K), NEW S
    PROVE  Selected(s, S) \in Seq(K) /\ Range(Selected(s, S)) = Range(s) \cap S
<1> DEFINE L == Len(s)
<1>1. PICK c : /\ SelectedUpTo(c, s, S) /\ Selected(s, S) = c[L]
               /\ \A n \in 0..L : c[n] \in Seq(K)
  BY SelectedByStep
<1>2. L \in Nat /\ DOMAIN s = 1..L
  BY LenProperties
<1> DEFINE Right(n) == Range(c[n]) = {s[i] : i \in 1..n} \cap S
           T == {n \in 0..L : Right(n)}
<1>3. 0 \in T
  <2>1. 0 \in 0..L
    BY <1>2
  <2>2. c[0] = <<>>
    BY <1>1, <2>1 DEF SelectedUpTo
  <2>3. DOMAIN <<>> = {} /\ {s[i] : i \in 1..0} = {}
    OBVIOUS
  <2>4. Range(<<>>) = {}
    BY <2>3 DEF Range
  <2>5. QED
    BY <2>1, <2>2, <2>3, <2>4
<1>4. ASSUME NEW n \in 0..(L - 1), n \in T PROVE n + 1 \in T
  <2>1. n + 1 \in 1..L /\ n + 1 \in 0..L /\ n + 1 # 0 /\ (n + 1) - 1 = n
    BY <1>2
  <2>2. c[n + 1] = IF s[n + 1] \in S THEN Append(c[n], s[n + 1]) ELSE c[n]
    BY <1>1, <2>1 DEF SelectedUpTo
  <2>3. s[n + 1] \in K /\ c[n] \in Seq(K)
    BY <1>1, <2>1, ElementOfSeq
  <2>4. {s[i] : i \in 1..(n + 1)} = {s[i] : i \in 1..n} \cup {s[n + 1]}
    <3>1. 1..(n + 1) = (1..n) \cup {n + 1}
      BY <1>2
    <3>2. QED
      BY <3>1
  <2>5. Right(n)
    BY <1>4
  <2>6. Range(Append(c[n], s[n + 1])) = Range(c[n]) \cup {s[n + 1]}
    BY <2>3, AppendRange
  <2>7. Right(n + 1)
    BY <2>2, <2>4, <2>5, <2>6
  <2>8. QED
    BY <2>1, <2>7
<1>5. L \in T
  <2> HIDE DEF T
  <2>1. 0..L \subseteq T
    BY <1>2, <1>3, <1>4, IntervalByStep
  <2>2. QED
    BY <1>2, <2>1
<1>6. Range(s) = {s[i] : i \in 1..L}
  BY <1>2 DEF Range
<1>7. L \in 0..L
  BY <1>2
<1>8. QED
  BY <1>1, <1>5, <1>6, <1>7

\* Two sets that have the same elements of a sequence select the same of it.
LEMMA SelectedAgree ==
    ASSUME NEW K, NEW s \in Seq(K), NEW S, NEW R, Range(s) \cap S = Range(s) \cap R
    PROVE  Selected(s, S) = Selected(s, R)
<1> DEFINE L == Len(s)
<1>1. PICK c : SelectedUpTo(c, s, S) /\ Selected(s, S) = c[L]
  BY SelectedByStep
<1>2. PICK d : SelectedUpTo(d, s, R) /\ Selected(s, R) = d[L]
  BY SelectedByStep
<1>3. L \in Nat /\ DOMAIN s = 1..L
  BY LenProperties
<1> DEFINE T == {n \in 0..L : c[n] = d[n]}
<1>4. 0 \in T
  <2>1. 0 \in 0..L
    BY <1>3
  <2>2. QED
    BY <1>1, <1>2, <2>1 DEF SelectedUpTo
<1>5. ASSUME NEW n \in 0..(L - 1), n \in T PROVE n + 1 \in T
  <2>1. n + 1 \in 1..L /\ n + 1 \in 0..L /\ n + 1 # 0 /\ (n + 1) - 1 = n
    BY <1>3
  <2>2. /\ c[n + 1] = IF s[n + 1] \in S THEN Append(c[n], s[n + 1]) ELSE c[n]
        /\ d[n + 1] = IF s[n + 1] \in R THEN Append(d[n], s[n + 1]) ELSE d[n]
    BY <1>1, <1>2, <2>1 DEF SelectedUpTo
  <2>3. s[n + 1] \in Range(s)
    BY <1>3, <2>1 DEF Range
  <2>4. QED
    BY <1>5, <2>1, <2>2, <2>3
<1>6. L \in T
  <2> HIDE DEF T
  <2>1. 0..L \subseteq T
    BY <1>3, <1>4, <1>5, IntervalByStep
  <2>2. QED
    BY <1>3, <2>1
<1>7. QED
  BY <1>1, <1>2, <1>6
-----------------------------------------------------------------------------
\* Where each of a sequence of sequences ends when they are put one after the other.
EndsOf(e, ss) ==
    e = [n \in 0..Len(ss) |-> IF n = 0 THEN 0 ELSE e[n - 1] + Len(ss[n])]

LEMMA EndsExist ==
    ASSUME NEW K, NEW ss \in Seq(Seq(K))
    PROVE  \E e \in [0..Len(ss) -> Nat] : EndsOf(e, ss)
<1> DEFINE L == Len(ss)
           step == [n \in 1..L |-> [v \in Nat |-> v + Len(ss[n])]]
<1>1. L \in Nat /\ \A n \in 1..L : Len(ss[n]) \in Nat
  BY LenProperties, ElementOfSeq
<1>2. step \in [1..L -> [Nat -> Nat]]
  BY <1>1
<1>3. \E e \in [0..L -> Nat] : Stepwise(e, L, 0, step)
  <2> HIDE DEF L, step
  <2>1. QED
    BY <1>1, <1>2, StepwiseExists
<1>4. PICK e \in [0..L -> Nat] : Stepwise(e, L, 0, step)
  BY <1>3
<1>5. \A n \in 0..L : e[n] = IF n = 0 THEN 0 ELSE e[n - 1] + Len(ss[n])
  <2>1. ASSUME NEW n \in 0..L, n # 0 PROVE e[n] = e[n - 1] + Len(ss[n])
    <3>1. n \in 1..L /\ n - 1 \in 0..L
      BY <2>1
    <3>2. e[n] = step[n][e[n - 1]] /\ e[n - 1] \in Nat
      BY <1>4, <2>1, <3>1 DEF Stepwise
    <3>3. QED
      BY <3>1, <3>2
  <2>2. e[0] = 0
    BY <1>1, <1>4 DEF Stepwise
  <2>3. QED
    BY <2>1, <2>2
<1>6. EndsOf(e, ss)
  BY <1>5 DEF EndsOf
<1>7. QED
  BY <1>6

\* The ends are numbers, one length apart.
LEMMA EndsByStep ==
    ASSUME NEW K, NEW ss \in Seq(Seq(K)), NEW e, EndsOf(e, ss)
    PROVE  /\ e[0] = 0
           /\ \A n \in 0..Len(ss) : e[n] \in Nat
           /\ \A n \in 1..Len(ss) : e[n] = e[n - 1] + Len(ss[n]) /\ Len(ss[n]) \in Nat
<1> DEFINE L == Len(ss)
<1>1. L \in Nat /\ \A n \in 1..L : Len(ss[n]) \in Nat
  BY LenProperties, ElementOfSeq
<1>2. e[0] = 0
  BY <1>1 DEF EndsOf
<1>3. ASSUME NEW n \in 1..L PROVE e[n] = e[n - 1] + Len(ss[n])
  <2>1. n \in 0..L /\ n # 0
    BY <1>1
  <2>2. QED
    BY <2>1 DEF EndsOf
<1> DEFINE T == {n \in 0..L : e[n] \in Nat}
<1>4. 0 \in T
  BY <1>1, <1>2
<1>5. ASSUME NEW n \in 0..(L - 1), n \in T PROVE n + 1 \in T
  <2>1. n + 1 \in 1..L /\ n + 1 \in 0..L /\ (n + 1) - 1 = n
    BY <1>1
  <2>2. e[n + 1] = e[n] + Len(ss[n + 1])
    BY <1>3, <2>1
  <2>3. QED
    BY <1>1, <1>5, <2>1, <2>2
<1>6. 0..L \subseteq T
  <2> HIDE DEF T
  <2>1. QED
    BY <1>1, <1>4, <1>5, IntervalByStep
<1>7. QED
  BY <1>1, <1>2, <1>3, <1>6

\* The recursion FlattenSeq is.
FlattenOf(c, ss) == c = [i \in 1..Len(ss) |-> IF i = 1 THEN ss[i] ELSE c[i - 1] \o ss[i]]

LEMMA FlattenExists ==
    ASSUME NEW K, NEW ss \in Seq(Seq(K)), ss # <<>>
    PROVE  \E c : FlattenOf(c, ss) /\ FlattenSeq(ss) = c[Len(ss)]
<1> DEFINE V == Seq(K)
           L == Len(ss)
           step == [n \in 1..L |-> [v \in V |-> v \o ss[n]]]
<1>1. L \in Nat \ {0} /\ <<>> \in V
  BY EmptySeq
<1>2. \A n \in 1..L : ss[n] \in V
  BY ElementOfSeq
<1>3. step \in [1..L -> [V -> V]]
  BY <1>2, ConcatProperties
<1>4. \E g \in [0..L -> V] : Stepwise(g, L, <<>>, step)
  <2> HIDE DEF V, L, step
  <2>1. QED
    BY <1>1, <1>3, StepwiseExists
<1>5. PICK g \in [0..L -> V] : Stepwise(g, L, <<>>, step)
  BY <1>4
<1>6. \A n \in 1..L : g[n] = g[n - 1] \o ss[n] /\ g[n - 1] \in V
  <2>1. ASSUME NEW n \in 1..L PROVE g[n] = g[n - 1] \o ss[n] /\ g[n - 1] \in V
    <3>1. n \in 0..L /\ n - 1 \in 0..L /\ n # 0
      OBVIOUS
    <3>2. g[n] = step[n][g[n - 1]] /\ g[n - 1] \in V
      BY <1>5, <3>1 DEF Stepwise
    <3>3. QED
      BY <3>2
  <2>2. QED
    BY <2>1
<1>7. g[0] = <<>>
  BY <1>1, <1>5 DEF Stepwise
<1> DEFINE h == [i \in 1..L |-> g[i]]
<1>8. \A i \in 1..L : h[i] = IF i = 1 THEN ss[i] ELSE h[i - 1] \o ss[i]
  <2>1. ASSUME NEW i \in 1..L, i # 1 PROVE h[i] = h[i - 1] \o ss[i]
    <3>1. i - 1 \in 1..L
      BY <1>1, <2>1
    <3>2. QED
      BY <1>6, <3>1
  <2>2. h[1] = ss[1]
    <3>1. 1 \in 1..L /\ 1 - 1 = 0
      BY <1>1
    <3>2. h[1] = <<>> \o ss[1] /\ ss[1] \in V
      BY <1>2, <1>6, <1>7, <3>1
    <3>3. QED
      BY <3>2, ConcatEmptySeq
  <2>3. QED
    BY <2>1, <2>2
<1>9. FlattenOf(h, ss)
  <2> HIDE DEF h
  <2>1. h = [i \in 1..L |-> h[i]]
    BY DEF h
  <2>2. QED
    BY <1>8, <2>1 DEF FlattenOf
<1> DEFINE c == CHOOSE f : FlattenOf(f, ss)
<1>10. FlattenOf(c, ss)
  BY <1>9
<1>11. FlattenSeq(ss) = c[L]
  BY <1>1 DEF FlattenSeq, FlattenOf
<1>12. QED
  BY <1>10, <1>11

\* A sequence of sequences put one after the other has each of them in the window
\* between two ends, and nothing else.
LEMMA FlattenFacts ==
    ASSUME NEW K, NEW ss \in Seq(Seq(K)), NEW e, EndsOf(e, ss)
    PROVE  /\ FlattenSeq(ss) \in Seq(K)
           /\ Len(FlattenSeq(ss)) = e[Len(ss)]
           /\ \A n \in 1..Len(ss) : \A j \in 1..Len(ss[n]) :
                 /\ e[n - 1] + j \in 1..e[Len(ss)]
                 /\ FlattenSeq(ss)[e[n - 1] + j] = ss[n][j]
           /\ \A i \in 1..Len(FlattenSeq(ss)) :
                 \E n \in 1..Len(ss) : \E j \in 1..Len(ss[n]) : FlattenSeq(ss)[i] = ss[n][j]
<1> DEFINE L == Len(ss)
<1>1. /\ e[0] = 0
      /\ \A n \in 0..L : e[n] \in Nat
      /\ \A n \in 1..L : e[n] = e[n - 1] + Len(ss[n]) /\ Len(ss[n]) \in Nat
  BY EndsByStep
<1>2. L \in Nat /\ \A n \in 1..L : ss[n] \in Seq(K)
  BY LenProperties, ElementOfSeq
<1>3. CASE L = 0
  <2>1. ss = <<>> /\ FlattenSeq(ss) = ss
    BY <1>3, EmptySeq DEF FlattenSeq
  <2>2. FlattenSeq(ss) = <<>> /\ <<>> \in Seq(K) /\ Len(<<>>) = 0 /\ 1..0 = {}
    BY <2>1
  <2>3. QED
    BY <1>1, <1>3, <2>2
<1>4. CASE L # 0
  <2>1. PICK c : FlattenOf(c, ss) /\ FlattenSeq(ss) = c[L]
    BY <1>4, FlattenExists
  <2> DEFINE Holds(n, m) == \A j \in 1..Len(ss[m]) : /\ e[m - 1] + j \in 1..e[n]
                                                     /\ c[n][e[m - 1] + j] = ss[m][j]
             Only(n) == \A i \in 1..e[n] : \E m \in 1..n : \E j \in 1..Len(ss[m]) : c[n][i] = ss[m][j]
             Right(n) == /\ c[n] \in Seq(K) /\ Len(c[n]) = e[n]
                         /\ \A m \in 1..n : Holds(n, m)
                         /\ Only(n)
             T == {n \in 0..L : n = 0 \/ Right(n)}
  <2>2. ASSUME NEW n \in 0..(L - 1), n \in T PROVE n + 1 \in T
    <3>1. /\ n + 1 \in 1..L /\ n + 1 \in 0..L /\ (n + 1) - 1 = n /\ n \in 0..L
          /\ n \in Nat /\ 1..(n + 1) = (1..n) \cup {n + 1}
      BY <1>2
    <3>2. /\ e[n + 1] = e[n] + Len(ss[n + 1]) /\ e[n] \in Nat /\ Len(ss[n + 1]) \in Nat
          /\ ss[n + 1] \in Seq(K)
      BY <1>1, <1>2, <3>1
    <3>3. c[n + 1] = IF n + 1 = 1 THEN ss[n + 1] ELSE c[n] \o ss[n + 1]
      BY <2>1, <3>1 DEF FlattenOf
    <3>4. CASE n = 0
      <4>1. c[1] = ss[1] /\ e[1] = Len(ss[1]) /\ ss[1] \in Seq(K) /\ Len(ss[1]) \in Nat
        BY <1>1, <3>2, <3>3, <3>4
      <4>2. Holds(1, 1)
        BY <1>1, <4>1
      <4>3. Only(1)
        BY <4>1
      <4>4. \A m \in 1..1 : m = 1
        OBVIOUS
      <4>5. Right(1)
        BY <4>1, <4>2, <4>3, <4>4
      <4>6. QED
        BY <3>1, <3>4, <4>5
    <3>5. CASE n # 0
      <4>1. /\ c[n] \in Seq(K) /\ Len(c[n]) = e[n]
            /\ \A m \in 1..n : Holds(n, m)
            /\ Only(n)
            /\ c[n + 1] = c[n] \o ss[n + 1]
        <5> HIDE DEF Holds, Only
        <5>1. Right(n)
          BY <2>2, <3>5
        <5>2. n + 1 # 1
          BY <3>1, <3>5
        <5>3. QED
          BY <3>3, <5>1, <5>2
      <4>2. /\ c[n + 1] \in Seq(K) /\ Len(c[n + 1]) = e[n + 1]
            /\ \A i \in 1..e[n + 1] : c[n + 1][i] = IF i <= e[n] THEN c[n][i] ELSE ss[n + 1][i - e[n]]
        <5> DEFINE d == c[n]
                   t == ss[n + 1]
        <5>1. d \in Seq(K) /\ t \in Seq(K) /\ Len(d) = e[n] /\ c[n + 1] = d \o t
          BY <3>2, <4>1
        <5> HIDE DEF d, t
        <5>2. /\ d \o t \in Seq(K) /\ Len(d \o t) = Len(d) + Len(t)
              /\ \A i \in 1..(Len(d) + Len(t)) : (d \o t)[i] = IF i <= Len(d) THEN d[i] ELSE t[i - Len(d)]
          BY <5>1, ConcatProperties
        <5>3. e[n + 1] = Len(d) + Len(t)
          BY <3>2, <5>1 DEF t
        <5>4. /\ c[n + 1] \in Seq(K) /\ Len(c[n + 1]) = e[n + 1]
              /\ \A i \in 1..e[n + 1] : c[n + 1][i] = IF i <= e[n] THEN d[i] ELSE t[i - e[n]]
          BY <5>1, <5>2, <5>3
        <5>5. QED
          BY <5>4 DEF d, t
      <4>3. \A m \in 1..n : Holds(n + 1, m)
        <5>1. ASSUME NEW m \in 1..n, NEW j \in 1..Len(ss[m])
              PROVE  /\ e[m - 1] + j \in 1..e[n + 1]
                     /\ c[n + 1][e[m - 1] + j] = ss[m][j]
          <6>1. e[m - 1] + j \in 1..e[n] /\ c[n][e[m - 1] + j] = ss[m][j]
            BY <4>1
          <6>2. e[m - 1] + j \in 1..e[n + 1] /\ e[m - 1] + j <= e[n]
            BY <3>2, <6>1
          <6>3. QED
            BY <4>2, <6>1, <6>2
        <5>2. QED
          BY <5>1
      <4>4. Holds(n + 1, n + 1)
        <5>1. ASSUME NEW j \in 1..Len(ss[n + 1])
              PROVE  e[n] + j \in 1..e[n + 1] /\ c[n + 1][e[n] + j] = ss[n + 1][j]
          <6>1. e[n] + j \in 1..e[n + 1] /\ ~(e[n] + j <= e[n]) /\ (e[n] + j) - e[n] = j
            BY <3>2
          <6>2. QED
            BY <4>2, <6>1
        <5>2. QED
          BY <3>1, <5>1
      <4>5. Only(n + 1)
        <5>1. ASSUME NEW i \in 1..e[n + 1]
              PROVE  \E m \in 1..(n + 1) : \E j \in 1..Len(ss[m]) : c[n + 1][i] = ss[m][j]
          <6>1. CASE i <= e[n]
            <7>1. i \in 1..e[n]
              BY <3>2, <6>1
            <7>2. PICK m \in 1..n : \E j \in 1..Len(ss[m]) : c[n][i] = ss[m][j]
              BY <4>1, <7>1
            <7>3. m \in 1..(n + 1)
              BY <3>1
            <7>4. QED
              BY <4>2, <6>1, <7>2, <7>3
          <6>2. CASE ~(i <= e[n])
            <7>1. i - e[n] \in 1..Len(ss[n + 1])
              BY <3>2, <6>2
            <7>2. c[n + 1][i] = ss[n + 1][i - e[n]]
              BY <4>2, <6>2
            <7>3. QED
              BY <3>1, <7>1, <7>2
          <6>3. QED
            BY <6>1, <6>2
        <5>2. QED
          BY <5>1
      <4>6. Right(n + 1)
        BY <3>1, <4>2, <4>3, <4>4, <4>5
      <4>7. QED
        BY <3>1, <4>6
    <3>6. QED
      BY <3>4, <3>5
  <2>3. Right(L)
    <3>1. 0 \in T
      BY <1>2
    <3>2. L \in T
      <4> HIDE DEF T
      <4>1. 0..L \subseteq T
        BY <1>2, <2>2, <3>1, IntervalByStep
      <4>2. QED
        BY <1>2, <4>1
    <3>3. QED
      BY <1>4, <3>2
  <2> DEFINE f == c[L]
  <2>4. /\ f \in Seq(K) /\ Len(f) = e[L]
        /\ \A m \in 1..L : \A j \in 1..Len(ss[m]) : e[m - 1] + j \in 1..e[L] /\ f[e[m - 1] + j] = ss[m][j]
        /\ \A i \in 1..e[L] : \E m \in 1..L : \E j \in 1..Len(ss[m]) : f[i] = ss[m][j]
    BY <2>3
  <2>5. f = FlattenSeq(ss)
    BY <2>1
  <2> HIDE DEF f
  <2>6. QED
    BY <2>4, <2>5
<1>5. QED
  BY <1>3, <1>4

-----------------------------------------------------------------------------
\* A finite set put into a sequence.
LEMMA SetToSeqFacts ==
    ASSUME NEW S, IsFiniteSet(S)
    PROVE  SetToSeq(S) \in Seq(S) /\ Range(SetToSeq(S)) = S /\ IsInjective(SetToSeq(S))
<1> DEFINE n == Cardinality(S)
           f == SetToSeq(S)
<1>1. n \in Nat /\ ExistsBijection(1..n, S)
  BY FS_CardinalityType
<1>2. \E g \in [1..n -> S] : IsInjective(g)
  BY <1>1 DEF ExistsBijection, Bijection, Injection
<1>3. f \in [1..n -> S] /\ IsInjective(f)
  BY <1>2 DEF SetToSeq
<1> HIDE DEF f
<1>4. f \in Surjection(1..n, S)
  <2>1. IsFiniteSet(1..n) /\ Cardinality(1..n) = n
    BY <1>1, FS_Interval
  <2>2. f \in Injection(1..n, S)
    BY <1>3 DEF Injection
  <2>3. QED
    BY <2>1, <2>2, FS_Injection
<1>5. Range(f) = S
  BY <1>3, <1>4 DEF Surjection, Range
<1>6. f \in Seq(S)
  BY <1>1, <1>3
<1>7. QED
  BY <1>3, <1>5, <1>6 DEF f

\* The sequences in a finite set have bounded lengths.
LEMMA LengthsBounded ==
    ASSUME NEW K, NEW S \in SUBSET Seq(K), IsFiniteSet(S)
    PROVE  \E n \in Nat : \A s \in S : Len(s) <= n
<1> DEFINE C == {T \in SUBSET S : \E n \in Nat : \A s \in T : Len(s) <= n}
<1>1. ASSUME NEW T \in SUBSET S, \A U \in SUBSET S : Cardinality(U) < Cardinality(T) => U \in C
      PROVE  T \in C
  <2>1. CASE T = {}
    BY <2>1
  <2>2. CASE T # {}
    <3>1. PICK s \in T : TRUE
      BY <2>2
    <3>2. T \ {s} \in SUBSET S /\ Cardinality(T \ {s}) < Cardinality(T)
      <4>1. IsFiniteSet(T)
        BY FS_Subset
      <4>2. Cardinality(T) \in Nat /\ Cardinality(T \ {s}) = Cardinality(T) - 1
        BY <4>1, FS_RemoveElement, FS_CardinalityType
      <4>3. QED
        BY <4>2
    <3>3. PICK n \in Nat : \A t \in T \ {s} : Len(t) <= n
      BY <1>1, <3>2
    <3>4. Len(s) \in Nat /\ \A t \in T : Len(t) \in Nat
      BY LenProperties
    <3>5. \A t \in T : Len(t) <= n + Len(s)
      BY <3>3, <3>4
    <3>6. n + Len(s) \in Nat
      BY <3>4
    <3>7. QED
      BY <3>5, <3>6
  <2>3. QED
    BY <2>1, <2>2
<1>2. SUBSET S \subseteq C
  <2> HIDE DEF C
  <2>1. QED
    BY <1>1, SubsetsBySize
<1>3. QED
  BY <1>2

-----------------------------------------------------------------------------
\* Products grow with their factors, a step of a multiple is one factor more.
LEMMA ProductGrows ==
    ASSUME NEW c \in Nat, NEW a \in Nat, NEW b \in Nat, a <= b
    PROVE  /\ c * a \in Nat /\ c * b \in Nat /\ c * a <= c * b
           /\ a * c \in Nat /\ b * c \in Nat /\ a * c <= b * c
           /\ (a + 1) * c = a * c + c
<1>1. c * a \in Nat /\ c * b \in Nat /\ c * a = a * c /\ c * b = b * c
  OBVIOUS
<1> DEFINE T == {n \in Nat : n * a <= n * b}
<1>2. 0 \in T
  OBVIOUS
<1>3. ASSUME NEW n \in Nat, n \in T PROVE n + 1 \in T
  <2>1. (n + 1) * a = n * a + a /\ (n + 1) * b = n * b + b
    OBVIOUS
  <2>2. n * a \in Nat /\ n * b \in Nat /\ n * a <= n * b
    BY <1>3
  <2>3. (n + 1) * a <= (n + 1) * b
    BY <2>1, <2>2
  <2>4. QED
    BY <2>3
<1>4. Nat \subseteq T
  <2> HIDE DEF T
  <2>1. QED
    BY <1>2, <1>3, NaturalsByStep
<1>5. c * a <= c * b
  BY <1>4
<1>6. (a + 1) * c = a * c + c
  OBVIOUS
<1>7. QED
  BY <1>1, <1>5, <1>6

\* Three factors may be multiplied in either order.
LEMMA ProductAssociates ==
    ASSUME NEW a \in Nat, NEW b \in Nat, NEW m \in Nat
    PROVE  (a * b) * m = a * (b * m) /\ a * (b * m) \in Nat /\ a * b \in Nat
<1>1. a * b \in Nat /\ b * m \in Nat
  OBVIOUS
<1>2. (a * b) * m = a * (b * m)
  OBVIOUS
<1>3. a * (b * m) \in Nat
  <2>1. PICK c \in Nat : c = b * m
    BY <1>1
  <2>2. a * c \in Nat
    OBVIOUS
  <2>3. QED
    BY <2>1, <2>2
<1>4. QED
  BY <1>1, <1>2, <1>3

\* A sequence has at most as many values as places, and as many if they differ.
LEMMA RangeNoLarger ==
    ASSUME NEW T, NEW s \in Seq(T)
    PROVE  /\ IsFiniteSet(Range(s)) /\ Cardinality(Range(s)) \in Nat
           /\ Len(s) \in Nat /\ Cardinality(Range(s)) <= Len(s)
           /\ IsInjective(s) => Cardinality(Range(s)) = Len(s)
<1> DEFINE n == Len(s)
<1>1. n \in Nat /\ DOMAIN s = 1..n
  BY LenProperties
<1>2. IsFiniteSet(1..n) /\ Cardinality(1..n) = n
  BY <1>1, FS_Interval
<1>3. s \in [1..n -> Range(s)]
  BY <1>1, SeqDef DEF Range
<1>4. s \in Surjection(1..n, Range(s))
  BY <1>1, <1>3 DEF Surjection, Range
<1>5. /\ IsFiniteSet(Range(s)) /\ Cardinality(Range(s)) <= n
      /\ Cardinality(Range(s)) = n <=> s \in Injection(1..n, Range(s))
  BY <1>2, <1>4, FS_Surjection
<1>6. IsInjective(s) => s \in Injection(1..n, Range(s))
  BY <1>1, <1>3 DEF IsInjective, Injection
<1>7. QED
  BY <1>1, <1>5, <1>6, FS_CardinalityType

\* Values that differ, all among those of another sequence, are no more than its places.
LEMMA DistinctNoLonger ==
    ASSUME NEW T, NEW s \in Seq(T), NEW t \in Seq(T), IsInjective(s), Range(s) \subseteq Range(t)
    PROVE  Len(s) <= Len(t)
<1>1. Cardinality(Range(s)) = Len(s)
  BY RangeNoLarger
<1>2. IsFiniteSet(Range(t)) /\ Cardinality(Range(t)) <= Len(t) /\ Len(t) \in Nat
      /\ Cardinality(Range(t)) \in Nat /\ Len(s) \in Nat
  BY RangeNoLarger
<1>3. Cardinality(Range(s)) <= Cardinality(Range(t))
  BY <1>2, FS_Subset
<1>4. QED
  BY <1>1, <1>2, <1>3

\* A finite set put into a sequence has as many places as members.
LEMMA SetToSeqLen ==
    ASSUME NEW S, IsFiniteSet(S)
    PROVE  Len(SetToSeq(S)) = Cardinality(S)
BY SetToSeqFacts, RangeNoLarger

\* The union of n sets of at most m members has at most n times m.
LEMMA UnionBounded ==
    ASSUME NEW T, IsFiniteSet(T), NEW n \in Nat, NEW F \in [1..n -> SUBSET T], NEW m \in Nat,
           \A i \in 1..n : Cardinality(F[i]) <= m
    PROVE  Cardinality(UNION {F[i] : i \in 1..n}) <= n * m
<1> DEFINE U(k) == UNION {F[i] : i \in 1..k}
           C == {k \in 0..n : Cardinality(U(k)) <= k * m}
<1>1. 0 \in C
  <2>1. U(0) = {} /\ 0 * m = 0 /\ 0 \in 0..n
    OBVIOUS
  <2> HIDE DEF U
  <2>2. Cardinality(U(0)) <= 0 * m
    BY <2>1, FS_EmptySet
  <2>3. QED
    BY <2>1, <2>2
<1>2. ASSUME NEW k \in 0..(n - 1), k \in C PROVE k + 1 \in C
  <2> DEFINE A == U(k)
             B == F[k + 1]
  <2>1. k \in Nat /\ k + 1 \in 1..n /\ k + 1 \in 0..n /\ 1..(k + 1) = 1..k \cup {k + 1} /\ 1..k \subseteq 1..n
    OBVIOUS
  <2>2. U(k + 1) = A \cup B
    BY <2>1
  <2>3. A \subseteq T /\ B \subseteq T
    BY <2>1
  <2>4. Cardinality(A) <= k * m /\ Cardinality(B) <= m
    BY <1>2, <2>1
  <2> HIDE DEF U, A, B
  <2>5. /\ IsFiniteSet(A) /\ IsFiniteSet(B) /\ IsFiniteSet(A \cap B)
        /\ Cardinality(A) \in Nat /\ Cardinality(B) \in Nat /\ Cardinality(A \cap B) \in Nat
    BY <2>3, FS_Subset, FS_Intersection, FS_CardinalityType
  <2>6. Cardinality(A \cup B) = Cardinality(A) + Cardinality(B) - Cardinality(A \cap B)
    BY <2>5, FS_Union
  <2>7. (k + 1) * m = k * m + m /\ k * m \in Nat
    BY <2>1, ProductGrows
  <2>8. Cardinality(A \cup B) <= k * m + m
    BY <2>4, <2>5, <2>6, <2>7
  <2>10. Cardinality(U(k + 1)) <= (k + 1) * m
    BY <2>2, <2>7, <2>8
  <2>9. QED
    BY <2>1, <2>10
<1>3. 0..n \subseteq C
  <2> HIDE DEF C
  <2>1. QED
    BY <1>1, <1>2, IntervalByStep
<1>4. QED
  BY <1>3

\* Pages of at most m rows each end after at most so many times m.
LEMMA EndsBounded ==
    ASSUME NEW K, NEW ss \in Seq(Seq(K)), NEW e, EndsOf(e, ss), NEW m \in Nat,
           \A i \in 1..Len(ss) : Len(ss[i]) <= m
    PROVE  e[Len(ss)] <= Len(ss) * m
<1> DEFINE L == Len(ss)
           C == {k \in 0..L : e[k] <= k * m}
<1>1. /\ L \in Nat /\ e[0] = 0 /\ \A k \in 0..L : e[k] \in Nat
      /\ \A k \in 1..L : e[k] = e[k - 1] + Len(ss[k]) /\ Len(ss[k]) \in Nat
  BY EndsByStep, LenProperties
<1>2. 0 \in C
  BY <1>1
<1>3. ASSUME NEW k \in 0..(L - 1), k \in C PROVE k + 1 \in C
  <2>1. k \in Nat /\ k + 1 \in 1..L /\ k + 1 \in 0..L /\ (k + 1) - 1 = k
    BY <1>1
  <2>2. e[k + 1] = e[k] + Len(ss[k + 1]) /\ Len(ss[k + 1]) \in Nat /\ e[k] \in Nat
    BY <1>1, <2>1
  <2>3. (k + 1) * m = k * m + m /\ k * m \in Nat
    BY <2>1, ProductGrows
  <2>4. Len(ss[k + 1]) <= m /\ e[k] <= k * m
    BY <1>3, <2>1
  <2>5. QED
    BY <2>1, <2>2, <2>3, <2>4
<1>4. 0..L \subseteq C
  <2> HIDE DEF C
  <2>1. QED
    BY <1>1, <1>2, <1>3, IntervalByStep
<1>5. L \in C
  <2> HIDE DEF C
  <2>1. QED
    BY <1>1, <1>4
<1>6. QED
  BY <1>5

\* No term is larger than the sum.
LEMMA TermInSum ==
    ASSUME NEW S, IsFiniteSet(S), NEW f \in [S -> Nat], NEW x \in S
    PROVE  f[x] <= SumFunctionOnSet(f, S)
<1> DEFINE none == {}
<1>1. none \in SUBSET S /\ x \in S \ none /\ none \cup {x} = {x} /\ {x} \in SUBSET S
  OBVIOUS
<1>2. SumFunctionOnSet(f, none) = 0
  BY SumFacts
<1> HIDE DEF none
<1>3. SumFunctionOnSet(f, none \cup {x}) = SumFunctionOnSet(f, none) + f[x]
  BY <1>1, SumFacts
<1>4. SumFunctionOnSet(f, {x}) = 0 + f[x]
  BY <1>1, <1>2, <1>3, Zenon
<1>5. SumFunctionOnSet(f, {x}) <= SumFunctionOnSet(f, S)
  BY <1>1, SumGrows
<1>6. f[x] \in Nat
  OBVIOUS
<1>7. QED
  BY <1>4, <1>5, <1>6

-----------------------------------------------------------------------------
\* A recursion that collects: what a point contributes itself and what the points
\* it goes on to collect.
Collects(f, S, own, onward) == f = [s \in S |-> own[s] \cup UNION {f[t] : t \in onward[s]}]

\* There is one, whatever the recursion: the least of those that leave nothing out.
LEMMA CollectExists ==
    ASSUME NEW S, NEW E, NEW own \in [S -> SUBSET E], NEW onward \in [S -> SUBSET S]
    PROVE  \E f \in [S -> SUBSET E] : Collects(f, S, own, onward)
<1> DEFINE step(g, s) == own[s] \cup UNION {g[t] : t \in onward[s]}
           G == {g \in [S -> SUBSET E] : \A s \in S : step(g, s) \subseteq g[s]}
           f == [s \in S |-> {e \in E : \A g \in G : e \in g[s]}]
           h == [s \in S |-> step(f, s)]
<1>1. f \in [S -> SUBSET E] /\ \A s \in S : f[s] = {e \in E : \A g \in G : e \in g[s]}
  OBVIOUS
<1>2. \A g \in G, s \in S : f[s] \subseteq g[s]
  OBVIOUS
<1> HIDE DEF f
<1>3. ASSUME NEW s \in S PROVE step(f, s) \in SUBSET E
  BY <1>1
<1>4. ASSUME NEW s \in S PROVE step(f, s) \subseteq f[s]
  <2>1. SUFFICES ASSUME NEW e \in step(f, s), NEW g \in G PROVE e \in g[s]
    BY <1>1, <1>3
  <2>2. \A t \in onward[s] : t \in S /\ f[t] \subseteq g[t]
    BY <1>2
  <2>3. e \in step(g, s)
    BY <2>1, <2>2
  <2>4. QED
    BY <2>3
<1>5. h \in [S -> SUBSET E] /\ \A s \in S : h[s] = step(f, s)
  BY <1>3
<1>6. h \in G
  <2>1. ASSUME NEW s \in S PROVE step(h, s) \subseteq h[s]
    <3>1. \A t \in onward[s] : t \in S /\ h[t] \subseteq f[t]
      BY <1>4, <1>5
    <3>2. step(h, s) \subseteq step(f, s)
      BY <3>1
    <3>3. QED
      BY <1>5, <3>2
  <2> HIDE DEF h
  <2>2. QED
    BY <1>5, <2>1
<1>7. \A s \in S : f[s] = step(f, s)
  BY <1>2, <1>4, <1>5, <1>6
<1>8. f = [s \in S |-> step(f, s)]
  BY <1>1, <1>7
<1>9. QED
  BY <1>1, <1>8 DEF Collects

\* Where a recursion ends, it collects no more than a rule allows that every point
\* it can come to keeps.
LEMMA CollectsNoMore ==
    ASSUME NEW S, NEW f, NEW own, NEW onward, Collects(f, S, own, onward),
           NEW G \in SUBSET S, NEW R, NEW m \in [G -> Nat],
           \A s \in G : own[s] \subseteq R /\ onward[s] \subseteq G
                        /\ \A t \in onward[s] : m[t] < m[s]
    PROVE  \A s \in G : f[s] \subseteq R
<1> DEFINE T == {n \in Nat : \A s \in G : m[s] <= n => f[s] \subseteq R}
<1>1. \A s \in G : f[s] = own[s] \cup UNION {f[t] : t \in onward[s]}
  BY DEF Collects
<1>2. 0 \in T
  <2>1. ASSUME NEW s \in G, m[s] <= 0 PROVE f[s] \subseteq R
    <3>1. \A t \in onward[s] : t \in G /\ m[t] < m[s] /\ m[t] \in Nat /\ m[s] \in Nat
      OBVIOUS
    <3>2. onward[s] = {}
      BY <2>1, <3>1
    <3>3. QED
      BY <1>1, <3>2
  <2>2. QED
    BY <2>1
<1>3. ASSUME NEW n \in T PROVE n + 1 \in T
  <2>1. ASSUME NEW s \in G, m[s] <= n + 1 PROVE f[s] \subseteq R
    <3>1. ASSUME NEW t \in onward[s] PROVE f[t] \subseteq R
      <4>1. t \in G /\ m[t] < m[s] /\ m[t] \in Nat /\ m[s] \in Nat /\ n \in Nat
        OBVIOUS
      <4>2. m[t] <= n
        BY <2>1, <4>1
      <4>3. QED
        BY <4>1, <4>2
    <3>2. QED
      BY <1>1, <3>1
  <2>2. QED
    BY <2>1
<1> HIDE DEF T
<1>4. T \subseteq Nat
  BY DEF T
<1>5. Nat \subseteq T
  BY <1>2, <1>3, <1>4, NaturalsByStep
<1>6. QED
  BY <1>5 DEF T
=============================================================================
