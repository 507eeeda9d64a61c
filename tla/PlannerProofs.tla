--------------------------- MODULE PlannerProofs ---------------------------
(***************************************************************************)
(* What ResolvePlan does with every call, by an inductive invariant,       *)
(* PlanInv.  Between two turns of build the plan so far holds, below each  *)
(* of its nodes, exactly the keys that belong there but for those a level  *)
(* still has to come to; each open level carries the place, the depth and  *)
(* the default chain of its own path, whatever its siblings did; and the   *)
(* count of nodes is the number of client paths in the plan.  When the     *)
(* last level closes nothing is to come, so the plan is what was asked,    *)
(* and every client path passed its checks on the way in.                  *)
(*                                                                         *)
(* The last two sections compare with it what SchemaFor publishes.  Its    *)
(* recursions collect sets level by level; what they collect follows from  *)
(* the equation they satisfy, upwards along a path and, as they end,       *)
(* downwards for all levels they can come to.                              *)
(***************************************************************************)
EXTENDS SchemaFor, Induction

-----------------------------------------------------------------------------

\* What the argument of a call is made of.
LEMMA CallFacts ==
    ASSUME in \in Inputs
    PROVE  /\ in.graph.edges \in [Resources -> [Keys -> Edge \cup {None}]]
           /\ in.graph.defaults \in [Resources -> Seq(Keys)]
           /\ in.root \in Resources /\ in.root # None
           /\ <<>> \in in.tree /\ IsFiniteSet(in.tree)
           /\ \A p \in in.tree : p \in Seq(Keys) /\ (p # <<>> => Front(p) \in in.tree)
           /\ in.args \in [in.tree -> Args]
           /\ in.exclude \in Seq(Seq(Keys))
           /\ in.opts \in Options
           /\ in.opts.MaxDepth \in Nat /\ in.opts.MaxNodes \in Nat
<1>1. IsInput(in)
  BY InputsAssumption
<1>2. QED
  BY <1>1, NoneAssumption DEF IsInput, Graph, Options

-----------------------------------------------------------------------------
\* The node at the end of a path is where its last key leads from the node before.
LEMMA BeyondIsPlace ==
    ASSUME in \in Inputs, NEW r \in Resources \cup {None}, NEW k \in Keys
    PROVE  /\ Beyond(r, k) \in Resources \cup {None}
           /\ Beyond(r, k) # None => r # None /\ EdgeAt(r, k) \in Edge /\ EdgeAt(r, k) # None
           /\ r # None => EdgeAt(r, k) \in Edge \cup {None}
<1>1. r # None => EdgeAt(r, k) \in Edge \cup {None}
  BY CallFacts DEF EdgeAt
<1>2. QED
  BY <1>1, NoneAssumption DEF Beyond, Edge

\* The nodes on a path, the root first.
Places(g, p) ==
    g = [n \in 0..Len(p) |-> IF n = 0 THEN in.root ELSE Beyond(g[n - 1], p[n])]

\* Every path has them, and where it leads is the last.
LEMMA PlacesExist ==
    ASSUME in \in Inputs, NEW p \in Seq(Keys)
    PROVE  \E g \in [0..Len(p) -> Resources \cup {None}] : Places(g, p) /\ ResourceAt(p) = g[Len(p)]
<1> DEFINE V == Resources \cup {None}
           L == Len(p)
           step == [n \in 1..L |-> [r \in V |-> Beyond(r, p[n])]]
<1>1. L \in Nat /\ in.root \in V
  BY LenProperties, CallFacts
<1>2. step \in [1..L -> [V -> V]]
  BY ElementOfSeq, BeyondIsPlace
<1>3. \E g \in [0..L -> V] : Stepwise(g, L, in.root, step)
  <2> HIDE DEF V, L, step
  <2>1. QED
    BY <1>1, <1>2, StepwiseExists
<1>4. PICK g \in [0..L -> V] : Stepwise(g, L, in.root, step)
  BY <1>3
<1>5. \A n \in 0..L : g[n] = IF n = 0 THEN in.root ELSE Beyond(g[n - 1], p[n])
  <2>1. ASSUME NEW n \in 0..L, n # 0 PROVE g[n] = Beyond(g[n - 1], p[n])
    <3>1. n \in 1..L /\ n - 1 \in 0..L
      BY <2>1
    <3>2. g[n] = step[n][g[n - 1]] /\ g[n - 1] \in V
      BY <1>4, <2>1, <3>1 DEF Stepwise
    <3>3. QED
      BY <3>1, <3>2
  <2>2. g[0] = in.root
    BY <1>1, <1>4 DEF Stepwise
  <2>3. QED
    BY <2>1, <2>2
<1>6. Places(g, p)
  BY <1>5 DEF Places
<1> DEFINE c == CHOOSE f : Places(f, p)
<1>7. Places(c, p) /\ ResourceAt(p) = c[L]
  BY <1>6 DEF ResourceAt, Places
<1>8. \A n \in 0..L : c[n] \in V
  <2> DEFINE T == {n \in 0..L : c[n] \in V}
  <2> HIDE DEF c
  <2>1. 0 \in T
    <3>1. 0 \in 0..L
      BY <1>1
    <3>2. c[0] = in.root
      BY <1>7, <3>1 DEF Places
    <3>3. QED
      BY <1>1, <3>1, <3>2
  <2>2. ASSUME NEW n \in 0..(L - 1), n \in T PROVE n + 1 \in T
    <3>1. n + 1 \in 1..L /\ n + 1 \in 0..L /\ n + 1 # 0 /\ (n + 1) - 1 = n
      BY <1>1
    <3>2. c[n + 1] = Beyond(c[n], p[n + 1])
      BY <1>7, <3>1 DEF Places
    <3>3. p[n + 1] \in Keys
      BY <3>1, ElementOfSeq
    <3>4. QED
      BY <2>2, <3>1, <3>2, <3>3, BeyondIsPlace
  <2> HIDE DEF T
  <2>3. 0..L \subseteq T
    BY <1>1, <2>1, <2>2, IntervalByStep
  <2>4. QED
    BY <2>3 DEF T
<1>9. c \in [0..L -> V]
  BY <1>7, <1>8 DEF Places
<1>10. QED
  BY <1>7, <1>9

\* Two paths lead to the same nodes as long as they are the same.
LEMMA PlacesAgree ==
    ASSUME in \in Inputs, NEW p \in Seq(Keys), NEW k \in Keys,
           NEW g, Places(g, p), NEW h, Places(h, Append(p, k))
    PROVE  h[Len(p)] = g[Len(p)] /\ h[Len(p) + 1] = Beyond(g[Len(p)], k)
<1> DEFINE q == Append(p, k)
           L == Len(p)
           T == {n \in 0..L : h[n] = g[n]}
<1>1. /\ L \in Nat /\ Len(q) = L + 1 /\ q[L + 1] = k /\ \A n \in 1..L : q[n] = p[n]
  BY AppendProperties, LenProperties
<1>2. 0 \in T
  BY <1>1 DEF Places
<1>3. ASSUME NEW n \in 0..(L - 1), n \in T PROVE n + 1 \in T
  <2>1. n + 1 \in 1..L /\ n + 1 \in 0..L /\ n + 1 \in 0..(L + 1) /\ n + 1 # 0 /\ (n + 1) - 1 = n
    BY <1>1
  <2>2. g[n + 1] = Beyond(g[n], p[n + 1]) /\ h[n + 1] = Beyond(h[n], q[n + 1])
    BY <1>1, <2>1 DEF Places
  <2>3. QED
    BY <1>1, <1>3, <2>1, <2>2
<1> HIDE DEF T
<1>4. 0..L \subseteq T
  BY <1>1, <1>2, <1>3, IntervalByStep
<1>5. h[L] = g[L]
  BY <1>1, <1>4 DEF T
<1>6. h[L + 1] = Beyond(h[L], q[L + 1])
  <2>1. L + 1 \in 0..(L + 1) /\ L + 1 # 0 /\ (L + 1) - 1 = L
    BY <1>1
  <2>2. QED
    BY <1>1, <2>1 DEF Places
<1>7. QED
  BY <1>1, <1>5, <1>6

\* Where a path leads, key by key.
LEMMA ResourceByStep ==
    ASSUME in \in Inputs
    PROVE  /\ ResourceAt(<<>>) = in.root
           /\ \A p \in Seq(Keys) : ResourceAt(p) \in Resources \cup {None}
           /\ \A p \in Seq(Keys), k \in Keys :
                 /\ ResourceAt(Append(p, k)) = Beyond(ResourceAt(p), k)
                 /\ EdgeOf(Append(p, k)) = IF ResourceAt(p) = None THEN None
                                           ELSE EdgeAt(ResourceAt(p), k)
<1>1. ASSUME NEW p \in Seq(Keys) PROVE ResourceAt(p) \in Resources \cup {None}
  <2>1. PICK g \in [0..Len(p) -> Resources \cup {None}] : ResourceAt(p) = g[Len(p)]
    BY PlacesExist
  <2>2. Len(p) \in 0..Len(p)
    BY LenProperties
  <2>3. QED
    BY <2>1, <2>2
<1>2. ResourceAt(<<>>) = in.root
  <2>1. <<>> \in Seq(Keys) /\ Len(<<>>) = 0
    OBVIOUS
  <2>2. PICK g : Places(g, <<>>) /\ ResourceAt(<<>>) = g[0]
    BY <2>1, PlacesExist
  <2>3. QED
    BY <2>1, <2>2 DEF Places
<1>3. ASSUME NEW p \in Seq(Keys), NEW k \in Keys
      PROVE  /\ ResourceAt(Append(p, k)) = Beyond(ResourceAt(p), k)
             /\ EdgeOf(Append(p, k)) = IF ResourceAt(p) = None THEN None
                                       ELSE EdgeAt(ResourceAt(p), k)
  <2>1. /\ Append(p, k) \in Seq(Keys) /\ Len(Append(p, k)) = Len(p) + 1
        /\ Front(Append(p, k)) = p /\ Last(Append(p, k)) = k
    BY AppendFacts
  <2>2. PICK g : Places(g, p) /\ ResourceAt(p) = g[Len(p)]
    BY PlacesExist
  <2>3. PICK h : Places(h, Append(p, k)) /\ ResourceAt(Append(p, k)) = h[Len(p) + 1]
    BY <2>1, PlacesExist
  <2>4. QED
    BY <2>1, <2>2, <2>3, PlacesAgree DEF EdgeOf
<1>4. QED
  BY <1>1, <1>2, <1>3

-----------------------------------------------------------------------------
\* What a level looks at: every default of its resource and every key the client
\* asked for, once each.
LEMMA OrderedFacts ==
    ASSUME in \in Inputs, NEW p, NEW r \in Resources
    PROVE  /\ Ordered(p, r) \in Seq(Keys) /\ IsInjective(Ordered(p, r))
           /\ Range(Ordered(p, r)) = Range(in.graph.defaults[r]) \cup ClientKeys(p)
<1> DEFINE d == in.graph.defaults[r]
           S == ClientKeys(p) \ Range(Dedup(d))
<1>1. d \in Seq(Keys) /\ Range(d) \subseteq Keys
  BY CallFacts, RangeOfSeq
<1>2. Dedup(d) \in Seq(Keys) /\ IsInjective(Dedup(d)) /\ Range(Dedup(d)) = Range(d)
  <2>1. /\ Picked(d, Keys) \in Seq(Keys) /\ IsInjective(Picked(d, Keys))
        /\ Range(Picked(d, Keys)) = Range(d) \cap Keys
    BY <1>1, PickedFacts
  <2>2. QED
    BY <1>1, <2>1 DEF Dedup
<1>3. KeyOrder \in Seq(Keys) /\ Range(KeyOrder) = Keys
  BY KeyOrderAssumption
<1>4. Sorted(S) \in Seq(Keys) /\ IsInjective(Sorted(S)) /\ Range(Sorted(S)) = S
  <2>1. Range(Sorted(S)) = Keys \cap S
    BY <1>3, PickedFacts DEF Sorted
  <2>2. S \subseteq Keys
    BY DEF ClientKeys
  <2>3. QED
    BY <1>3, <2>1, <2>2, PickedFacts DEF Sorted
<1> DEFINE a == Dedup(d)
           b == Sorted(S)
<1>5. Ordered(p, r) = a \o b
  BY DEF Ordered
<1>6. a \o b \in Seq(Keys) /\ Range(a \o b) = Range(a) \cup Range(b) /\ IsInjective(a \o b)
  <2>1. a \in Seq(Keys) /\ b \in Seq(Keys) /\ IsInjective(a) /\ IsInjective(b)
    BY <1>2, <1>4
  <2>2. Range(a) \cap Range(b) = {}
    BY <1>4
  <2> HIDE DEF a, b
  <2>3. QED
    BY <2>1, <2>2, DistinctConcat
<1>7. QED
  BY <1>2, <1>4, <1>5, <1>6

-----------------------------------------------------------------------------
\* An exclude names the subtree of the edge at its end, unless that is required.
Names(pl, x, p) == x # <<>> /\ IsPrefix(x, p) /\ ~pl[x].edge.required
Left(pl, n) == {p \in DOMAIN pl : \A i \in 1..n : ~Names(pl, in.exclude[i], p)}

\* A plan's domain is a tree of paths.
IsTree(D) == D \subseteq Seq(Keys) /\ \A p \in D : \A n \in 0..Len(p) : SubSeq(p, 1, n) \in D

\* A prefix of a prefix is a prefix.
LEMMA PrefixOfPrefix ==
    ASSUME NEW p \in Seq(Keys), NEW q \in Seq(Keys), NEW r \in Seq(Keys), IsPrefix(p, q), IsPrefix(q, r)
    PROVE  IsPrefix(p, r)
<1>1. /\ Len(p) <= Len(q) /\ p = SubSeq(q, 1, Len(p)) /\ Len(q) <= Len(r) /\ q = SubSeq(r, 1, Len(q))
      /\ Len(p) \in Nat /\ Len(q) \in Nat /\ Len(r) \in Nat
  BY PrefixFacts
<1>2. Len(p) \in 0..Len(q) /\ Len(p) \in 0..Len(r) /\ Len(q) \in 0..Len(r)
  BY <1>1
<1> DEFINE s == SubSeq(r, 1, Len(p))
<1>3. s \in Seq(Keys) /\ Len(s) = Len(p) /\ \A i \in 1..Len(p) : s[i] = r[i]
  BY <1>2, PrefixFacts
<1>4. /\ \A i \in 1..Len(p) : SubSeq(q, 1, Len(p))[i] = q[i]
      /\ \A i \in 1..Len(q) : SubSeq(r, 1, Len(q))[i] = r[i]
  BY <1>2, PrefixFacts
<1>5. \A i \in 1..Len(p) : p[i] = s[i]
  <2>1. ASSUME NEW i \in 1..Len(p) PROVE p[i] = s[i]
    <3>1. i \in 1..Len(q)
      BY <1>1
    <3>2. p[i] = q[i] /\ q[i] = r[i]
      BY <1>1, <1>4, <3>1
    <3>3. QED
      BY <1>3, <3>2
  <2>2. QED
    BY <2>1
<1> HIDE DEF s
<1>6. p = s
  BY <1>3, <1>5, SeqEqual
<1>7. QED
  BY <1>1, <1>6, PrefixFacts DEF s

\* One exclude more leaves what neither it nor those before it name.
LEMMA PruneByStep ==
    ASSUME in \in Inputs, NEW pl, IsTree(DOMAIN pl), NEW n \in 0..(Len(in.exclude) - 1)
    PROVE  Prune(Restrict(pl, Left(pl, n)), in.exclude[n + 1]) = Restrict(pl, Left(pl, n + 1))
<1> DEFINE x == in.exclude[n + 1]
           D == Left(pl, n)
           r == Restrict(pl, D)
<1>1. /\ in.exclude \in Seq(Seq(Keys)) /\ Len(in.exclude) \in Nat
      /\ \A i \in 1..Len(in.exclude) : in.exclude[i] \in Seq(Keys)
  BY CallFacts, LenProperties, ElementOfSeq
<1>2. x \in Seq(Keys) /\ \A i \in 1..n : in.exclude[i] \in Seq(Keys)
  BY <1>1
<1>3. DOMAIN r = D /\ D \subseteq DOMAIN pl /\ \A p \in D : r[p] = pl[p]
  BY DEF Restrict, Left
<1>4. Left(pl, n + 1) = {p \in D : ~Names(pl, x, p)}
  <2>1. 1..(n + 1) = (1..n) \cup {n + 1}
    BY <1>1
  <2>2. QED
    BY <2>1 DEF Left
<1>5. CASE x = <<>> \/ x \notin D \/ pl[x].edge.required
  <2>1. Prune(r, x) = r
    BY <1>3, <1>5 DEF Prune
  <2>2. ASSUME NEW p \in D, Names(pl, x, p) PROVE FALSE
    <3>1. x # <<>> /\ IsPrefix(x, p) /\ ~pl[x].edge.required /\ x \notin D
      BY <1>5, <2>2 DEF Names
    <3>2. p \in DOMAIN pl /\ p \in Seq(Keys)
      BY <1>3 DEF IsTree
    <3>3. Len(x) \in 0..Len(p) /\ x = SubSeq(p, 1, Len(x))
      BY <1>2, <3>1, <3>2, PrefixFacts
    <3>4. x \in DOMAIN pl
      BY <3>2, <3>3 DEF IsTree
    <3>5. PICK i \in 1..n : Names(pl, in.exclude[i], x)
      BY <3>1, <3>4 DEF Left
    <3>6. Names(pl, in.exclude[i], p)
      BY <1>2, <3>1, <3>2, <3>5, PrefixOfPrefix DEF Names
    <3>7. QED
      BY <3>6 DEF Left
  <2>3. Left(pl, n + 1) = D
    BY <1>4, <2>2
  <2>4. QED
    BY <2>1, <2>3
<1>6. CASE ~(x = <<>> \/ x \notin D \/ pl[x].edge.required)
  <2>1. x \in D /\ r[x] = pl[x] /\ ~pl[x].edge.required /\ x # <<>>
    BY <1>3, <1>6
  <2>2. Prune(r, x) = Restrict(r, {p \in D : ~IsPrefix(x, p)})
    BY <1>3, <2>1 DEF Prune
  <2>3. {p \in D : ~IsPrefix(x, p)} = Left(pl, n + 1)
    BY <1>4, <2>1 DEF Names
  <2>4. Restrict(r, Left(pl, n + 1)) = Restrict(pl, Left(pl, n + 1))
    BY <1>3, <1>4 DEF Restrict
  <2>5. QED
    BY <2>2, <2>3, <2>4
<1>7. QED
  BY <1>5, <1>6

\* The plans the excludes leave, one path of the list after the other.
PrunedUpTo(g, pl, n) ==
    g = [i \in 0..n |-> IF i = 0 THEN pl ELSE Prune(g[i - 1], in.exclude[i])]

\* The whole list leaves what no path of it names.
LEMMA PrunedFacts ==
    ASSUME in \in Inputs, NEW pl, pl = [p \in DOMAIN pl |-> pl[p]], IsTree(DOMAIN pl)
    PROVE  Pruned(pl, Len(in.exclude)) = Restrict(pl, Left(pl, Len(in.exclude)))
<1> DEFINE L == Len(in.exclude)
           Rest(n) == Restrict(pl, Left(pl, n))
           g == [n \in 0..L |-> Rest(n)]
<1>1. L \in Nat
  BY CallFacts, LenProperties
<1>2. Rest(0) = pl
  BY DEF Restrict, Left
<1>3. ASSUME NEW i \in 1..L PROVE g[i] = Prune(g[i - 1], in.exclude[i])
  <2>1. PICK m : m = i - 1
    OBVIOUS
  <2>2. m \in 0..(L - 1) /\ i = m + 1
    BY <1>1, <2>1
  <2>3. Rest(m + 1) = Prune(Rest(m), in.exclude[m + 1])
    BY <2>2, PruneByStep
  <2>4. i - 1 = m /\ m \in 0..L /\ i \in 0..L
    BY <1>1, <2>2
  <2>5. QED
    BY <2>2, <2>3, <2>4
<1>4. PrunedUpTo(g, pl, L)
  <2>1. \A i \in 0..L : g[i] = IF i = 0 THEN pl ELSE Prune(g[i - 1], in.exclude[i])
    <3>1. \A i \in 0..L : i # 0 => i \in 1..L
      BY <1>1
    <3> HIDE DEF Rest
    <3>2. g[0] = pl
      BY <1>1, <1>2
    <3>3. QED
      BY <1>3, <3>1, <3>2
  <2>2. QED
    BY <2>1 DEF PrunedUpTo
<1> HIDE DEF g, Rest
<1> DEFINE c == CHOOSE f : PrunedUpTo(f, pl, L)
<1>5. PrunedUpTo(c, pl, L) /\ Pruned(pl, L) = c[L]
  BY <1>4 DEF Pruned, PrunedUpTo
<1> HIDE DEF c
<1> DEFINE T == {n \in 0..L : c[n] = Rest(n)}
<1>6. 0 \in T
  <2>1. 0 \in 0..L
    BY <1>1
  <2>2. c[0] = pl
    BY <1>5, <2>1 DEF PrunedUpTo
  <2>3. QED
    BY <1>2, <2>1, <2>2
<1>7. ASSUME NEW n \in 0..(L - 1), n \in T PROVE n + 1 \in T
  <2>1. n + 1 \in 0..L /\ n + 1 # 0 /\ (n + 1) - 1 = n
    BY <1>1
  <2>2. c[n + 1] = Prune(c[n], in.exclude[n + 1])
    BY <1>5, <2>1 DEF PrunedUpTo
  <2>3. Prune(Rest(n), in.exclude[n + 1]) = Rest(n + 1)
    BY PruneByStep DEF Rest
  <2>4. QED
    BY <1>7, <2>1, <2>2, <2>3
<1>8. L \in T
  <2> HIDE DEF T
  <2>1. 0..L \subseteq T
    BY <1>1, <1>6, <1>7, IntervalByStep
  <2>2. QED
    BY <1>1, <2>1
<1>9. QED
  BY <1>5, <1>8 DEF Rest

-----------------------------------------------------------------------------
\* One level of the recursion: a node of the plan, and of its keys those that are
\* still to come.
Frames == [path : Seq(Keys), resource : Resources, depth : Nat, seen : SUBSET Resources,
           keys : Seq(Keys)]
OpenLevel(f, b) ==
    /\ f.path \in DOMAIN b
    /\ f.resource = ResourceAt(f.path)
    /\ f.depth <= in.opts.MaxDepth
    /\ FromClient(f.path) => f.depth = Len(f.path)
    /\ f.seen = DefaultChain(f.path)
    /\ IsInjective(f.keys)
    /\ Range(f.keys) \subseteq Range(in.graph.defaults[f.resource]) \cup ClientKeys(f.path)
Pending(st, p, k) == \E i \in DOMAIN st : st[i].path = p /\ k \in Range(st[i].keys)

\* A node is the edge its path ends with, and what the client asked for is in
\* order.
NodeRight(b, p) ==
    /\ b[p] = [edge |-> IF p = <<>> THEN None ELSE EdgeOf(p),
               resource |-> ResourceAt(p), args |-> ArgsAt(p)]
    /\ p # <<>> => EdgeOf(p) \in Edge
    /\ p # <<>> /\ FromClient(p) => /\ EdgeOf(p).includable
                                    /\ ArgsValid(EdgeOf(p), ArgsAt(p))
                                    /\ Len(p) <= in.opts.MaxDepth

\* The plan so far holds what belongs in it, but for the keys still to come.
PlanSoFar(b, st) ==
    /\ b = [p \in DOMAIN b |-> b[p]]
    /\ IsTree(DOMAIN b) /\ <<>> \in DOMAIN b
    /\ \A p \in DOMAIN b : NodeRight(b, p)
    /\ \A p \in DOMAIN b : \A k \in Keys :
          Append(p, k) \in DOMAIN b <=> Belongs(p, k) /\ ~Pending(st, p, k)
LevelsOpen(b, st) ==
    /\ st \in Seq(Frames)
    /\ \A i \in 1..Len(st) : Len(st[i].path) = i - 1 /\ OpenLevel(st[i], b)
NodesCounted(b, n) ==
    /\ n = Cardinality((DOMAIN b \cap in.tree) \ {<<>>})
    /\ n <= in.opts.MaxNodes

BuildInv == PlanSoFar(built, stack) /\ LevelsOpen(built, stack) /\ NodesCounted(built, nodeCount)

\* A call is rejected for what is wrong with it.
Deserves(c, p) ==
    CASE p \in in.tree \ {<<>>} /\ ~TreeIsValid -> c \in NodeFaults(p)
      [] c = "INCLUDE_TOO_EXPENSIVE" -> TreeIsValid /\ Cost(plan) > MaxCost
      [] OTHER -> /\ c = "INVALID_INCLUDE"
                  /\ \/ ~TreeIsValid /\ p = <<>>
                     \/ \E i \in FaultyExcludesOf(built) : p = in.exclude[i]

PlanInv ==
    /\ in \in Inputs
    /\ phase \in {"build", "exclude", "cost", "accepted", "rejected"}
    /\ BuildInv
    /\ IsPlan(plan) /\ error.code \in Codes
    /\ phase = "build" => stack # <<>>
    /\ phase \in {"exclude", "cost", "accepted"} => stack = <<>> /\ ArgsAt(<<>>) = NoArgs
    /\ phase = "exclude" => plan = built
    /\ phase \in {"cost", "accepted"} => /\ FaultyExcludesOf(built) = {}
                                         /\ plan = Restrict(built, Left(built, Len(in.exclude)))
    /\ phase = "accepted" => Cost(plan) <= MaxCost
    /\ phase = "rejected" => Deserves(error.code, error.path)

-----------------------------------------------------------------------------
\* The chain of a default reaches one resource further.
LEMMA ChainByStep ==
    ASSUME in \in Inputs, NEW p \in Seq(Keys), NEW k \in Keys
    PROVE  DefaultChain(Append(p, k)) =
               DefaultChain(p) \cup (IF FromClient(Append(p, k)) THEN {} ELSE {ResourceAt(Append(p, k))})
<1> DEFINE q == Append(p, k)
           L == Len(p)
           J(s) == {j \in 1..Len(s) : ~FromClient(SubSeq(s, 1, j))}
<1>1. /\ L \in Nat /\ Len(q) = L + 1 /\ SubSeq(q, 1, L + 1) = q
      /\ \A n \in 0..L : SubSeq(q, 1, n) = SubSeq(p, 1, n)
  BY AppendFacts
<1>2. 1..(L + 1) = (1..L) \cup {L + 1} /\ 1..L \subseteq 0..L
  BY <1>1
<1> HIDE DEF q
<1>3. J(q) = J(p) \cup (IF FromClient(q) THEN {} ELSE {L + 1})
  BY <1>1, <1>2
<1>4. \A i \in J(p) : ResourceAt(SubSeq(q, 1, i)) = ResourceAt(SubSeq(p, 1, i))
  BY <1>1, <1>2
<1>5. DefaultChain(q) = {in.root} \cup {ResourceAt(SubSeq(q, 1, i)) : i \in J(q)}
  BY DEF DefaultChain
<1>6. DefaultChain(p) = {in.root} \cup {ResourceAt(SubSeq(p, 1, i)) : i \in J(p)}
  BY DEF DefaultChain
<1> HIDE DEF J
<1>7. DefaultChain(q) = DefaultChain(p) \cup (IF FromClient(q) THEN {} ELSE {ResourceAt(q)})
  <2>1. CASE FromClient(q)
    BY <1>3, <1>4, <1>5, <1>6, <2>1
  <2>2. CASE ~FromClient(q)
    <3>1. J(q) = J(p) \cup {L + 1}
      BY <1>3, <2>2
    <3>2. {ResourceAt(SubSeq(q, 1, i)) : i \in J(q)}
              = {ResourceAt(SubSeq(q, 1, i)) : i \in J(p)} \cup {ResourceAt(SubSeq(q, 1, L + 1))}
      BY <3>1
    <3>3. {ResourceAt(SubSeq(q, 1, i)) : i \in J(p)} = {ResourceAt(SubSeq(p, 1, i)) : i \in J(p)}
      BY <1>4
    <3>4. QED
      BY <1>1, <1>5, <1>6, <2>2, <3>2, <3>3
  <2>3. QED
    BY <2>1, <2>2
<1>8. QED
  BY <1>7 DEF q

\* A turn looks at a key of the innermost level that is not in the plan yet.
LEMMA TurnFacts ==
    ASSUME PlanInv, Turn
    PROVE  /\ Top = stack[Len(stack)] /\ Len(stack) \in Nat \ {0} /\ stack \in Seq(Frames)
           /\ Top \in Frames /\ OpenLevel(Top, built) /\ Len(Top.path) = Len(stack) - 1
           /\ Key \in Keys /\ Key \in Range(Top.keys) /\ Tail(Top.keys) \in Seq(Keys)
           /\ IsInjective(Tail(Top.keys)) /\ Range(Tail(Top.keys)) = Range(Top.keys) \ {Key}
           /\ ChildPath \in Seq(Keys) /\ ChildPath # <<>> /\ Len(ChildPath) = Len(stack)
           /\ Front(ChildPath) = Top.path
           /\ ChildPath \notin DOMAIN built
<1>1. /\ in \in Inputs /\ LevelsOpen(built, stack) /\ PlanSoFar(built, stack) /\ stack # <<>>
      /\ Top.keys # <<>> /\ stack \in Seq(Frames)
  BY DEF PlanInv, BuildInv, Turn, Building, LevelsOpen
<1>2. Len(stack) \in Nat \ {0} /\ Top = stack[Len(stack)] /\ Len(stack) \in 1..Len(stack)
  BY <1>1, EmptySeq DEF Top, Last
<1>3. Top \in Frames /\ OpenLevel(Top, built) /\ Len(Top.path) = Len(stack) - 1
  BY <1>1, <1>2, ElementOfSeq DEF LevelsOpen
<1>4. Top.path \in Seq(Keys) /\ Top.keys \in Seq(Keys) /\ IsInjective(Top.keys) /\ Top.path \in DOMAIN built
  BY <1>3 DEF Frames, OpenLevel
<1>5. /\ Key \in Keys /\ Key \in Range(Top.keys) /\ Tail(Top.keys) \in Seq(Keys)
      /\ IsInjective(Tail(Top.keys)) /\ Range(Tail(Top.keys)) = Range(Top.keys) \ {Key}
  BY <1>1, <1>4, TailDistinct DEF Key
<1>6. /\ ChildPath \in Seq(Keys) /\ ChildPath # <<>> /\ Len(ChildPath) = Len(Top.path) + 1
      /\ Front(ChildPath) = Top.path
  BY <1>4, <1>5, AppendFacts DEF ChildPath
<1>7. Len(ChildPath) = Len(stack)
  BY <1>2, <1>3, <1>6
<1>8. ChildPath \notin DOMAIN built
  <2>1. DOMAIN stack = 1..Len(stack)
    BY <1>1, LenProperties
  <2>2. Pending(stack, Top.path, Key)
    BY <1>2, <1>5, <2>1 DEF Pending
  <2>3. QED
    BY <1>1, <1>4, <1>5, <2>2 DEF PlanSoFar, ChildPath
<1>9. QED
  BY <1>1, <1>2, <1>3, <1>5, <1>6, <1>7, <1>8

\* The edge it looks at, and whether that belongs in the plan.
LEMMA ChildFacts ==
    ASSUME PlanInv, Turn
    PROVE  /\ ChildEdge = EdgeOf(ChildPath) /\ ChildEdge \in Edge \cup {None}
           /\ ResourceAt(ChildPath) = IF ChildEdge = None \/ ChildEdge.kind = "computed" THEN None
                                      ELSE ChildEdge.target
           /\ FromClient(ChildPath) => FromClient(Top.path) /\ Len(ChildPath) = Top.depth + 1
           /\ Belongs(Top.path, Key) <=> FromClient(ChildPath) \/ (ChildEdge # None /\ ~Cut)
<1>1. /\ in \in Inputs /\ Top \in Frames /\ OpenLevel(Top, built) /\ Key \in Keys /\ Key \in Range(Top.keys)
      /\ ChildPath \in Seq(Keys) /\ ChildPath # <<>> /\ Front(ChildPath) = Top.path
      /\ Len(ChildPath) = Len(Top.path) + 1
  BY TurnFacts DEF PlanInv
<1>2. /\ Top.path \in Seq(Keys) /\ Top.resource \in Resources /\ Top.resource = ResourceAt(Top.path)
      /\ Top.resource # None
  BY <1>1, NoneAssumption DEF Frames, OpenLevel
<1>3. ChildEdge = EdgeOf(ChildPath) /\ ResourceAt(ChildPath) = Beyond(Top.resource, Key)
  BY <1>1, <1>2, ResourceByStep DEF ChildEdge, ChildPath
<1>4. ChildEdge \in Edge \cup {None}
  BY <1>1, <1>2, BeyondIsPlace DEF ChildEdge
<1>5. ResourceAt(ChildPath) = IF ChildEdge = None \/ ChildEdge.kind = "computed" THEN None
                              ELSE ChildEdge.target
  BY <1>2, <1>3 DEF Beyond, ChildEdge
<1>6. FromClient(ChildPath) => FromClient(Top.path) /\ Len(ChildPath) = Top.depth + 1
  BY <1>1, CallFacts DEF FromClient, OpenLevel
<1>7. Contains(in.graph.defaults[Top.resource], Key) <=> Key \in Range(in.graph.defaults[Top.resource])
  <2>1. in.graph.defaults[Top.resource] \in Seq(Keys)
    BY <1>1, <1>2, CallFacts
  <2>2. QED
    BY <2>1, LenProperties DEF Contains, Range
<1>8. ~FromClient(ChildPath) => Contains(in.graph.defaults[Top.resource], Key)
  BY <1>1, <1>7 DEF OpenLevel, ClientKeys, ChildPath
<1>9. Belongs(Top.path, Key) <=> FromClient(ChildPath) \/ (ChildEdge # None /\ ~Cut)
  <2>1. DefaultChain(Top.path) = Top.seen
    BY <1>1 DEF OpenLevel
  <2>2. QED
    BY <1>2, <1>3, <1>8, <2>1 DEF Belongs, Cut, ChildPath
<1>10. QED
  BY <1>3, <1>4, <1>5, <1>6, <1>9

-----------------------------------------------------------------------------
\* What belongs in a plan depends on the call alone.
LEMMA CallIsFixed ==
    ASSUME UNCHANGED in, NEW b, NEW st, NEW n
    PROVE  /\ PlanSoFar(b, st)' = PlanSoFar(b, st) /\ LevelsOpen(b, st)' = LevelsOpen(b, st)
           /\ NodesCounted(b, n)' = NodesCounted(b, n)
<1>1. ASSUME NEW p, NEW k PROVE Belongs(p, k)' = Belongs(p, k)
  BY DEF Belongs, FromClient, ResourceAt, EdgeOf, EdgeAt, Beyond, DefaultChain
<1>2. ASSUME NEW p PROVE NodeRight(b, p)' = NodeRight(b, p)
  BY DEF NodeRight, FromClient, ResourceAt, EdgeOf, EdgeAt, Beyond, ArgsAt, ArgsValid
<1>3. ASSUME NEW f PROVE OpenLevel(f, b)' = OpenLevel(f, b)
  BY DEF OpenLevel, FromClient, ResourceAt, EdgeAt, Beyond, DefaultChain, ClientKeys
<1>4. PlanSoFar(b, st)' = PlanSoFar(b, st)
  BY <1>1, <1>2 DEF PlanSoFar
<1>5. LevelsOpen(b, st)' = LevelsOpen(b, st)
  BY <1>3 DEF LevelsOpen
<1>6. NodesCounted(b, n)' = NodesCounted(b, n)
  BY DEF NodesCounted
<1>7. QED
  BY <1>4, <1>5, <1>6

\* A plan so far, its levels and its count that fit the call make the invariant of
\* the next state.
LEMMA BuildGoesOn ==
    ASSUME UNCHANGED in, NEW b, NEW st, NEW n, built' = b, stack' = st, nodeCount' = n,
           PlanSoFar(b, st), LevelsOpen(b, st), NodesCounted(b, n)
    PROVE  BuildInv'
<1>1. PlanSoFar(b, st)' /\ LevelsOpen(b, st)' /\ NodesCounted(b, n)'
  BY CallIsFixed
<1>2. QED
  BY <1>1 DEF BuildInv, PlanSoFar, LevelsOpen, NodesCounted

\* So does what a rejection deserves.
LEMMA VerdictIsFixed ==
    ASSUME UNCHANGED <<in, built, plan>>, NEW c, NEW p
    PROVE  Deserves(c, p)' = Deserves(c, p)
<1>1. ASSUME NEW q PROVE NodeFaults(q)' = NodeFaults(q)
  BY DEF NodeFaults, EdgeOf, ResourceAt, Beyond, EdgeAt, ArgsAt, FromClient, ArgsValid
<1>2. TreeIsValid' = TreeIsValid
  BY <1>1 DEF TreeIsValid, ArgsAt, FromClient
<1>3. FaultyExcludesOf(built)' = FaultyExcludesOf(built)
  BY DEF FaultyExcludesOf, ExcludeFault, StrictFor
<1>4. Cost(plan)' = Cost(plan) /\ MaxCost' = MaxCost
  BY DEF MaxCost
<1>5. QED
  BY <1>1, <1>2, <1>3, <1>4 DEF Deserves

-----------------------------------------------------------------------------
\* Once a key is looked at, it alone is no longer to come.
LEMMA NextKeyFacts ==
    ASSUME PlanInv, Turn
    PROVE  /\ NextKey \in Seq(Frames) /\ Len(NextKey) = Len(stack) /\ NextKey # <<>>
           /\ LevelsOpen(built, NextKey)
           /\ \A p, k : Pending(NextKey, p, k) <=> Pending(stack, p, k) /\ ~(p = Top.path /\ k = Key)
<1> DEFINE L == Len(stack)
           f == [Top EXCEPT !.keys = Tail(Top.keys)]
<1>1. /\ Top = stack[L] /\ L \in Nat \ {0} /\ stack \in Seq(Frames) /\ L \in 1..L
      /\ Top \in Frames /\ OpenLevel(Top, built) /\ Len(Top.path) = L - 1
      /\ Tail(Top.keys) \in Seq(Keys) /\ IsInjective(Tail(Top.keys))
      /\ Range(Tail(Top.keys)) = Range(Top.keys) \ {Key}
  BY TurnFacts
<1>2. NextKey = [stack EXCEPT ![L] = f]
  BY <1>1 DEF NextKey
<1>3. /\ f \in Frames /\ f.path = Top.path /\ f.keys = Tail(Top.keys) /\ f.resource = Top.resource
      /\ f.depth = Top.depth /\ f.seen = Top.seen
  BY <1>1 DEF Frames
<1>4. OpenLevel(f, built)
  BY <1>1, <1>3 DEF OpenLevel
<1> HIDE DEF f
<1>5. /\ NextKey \in Seq(Frames) /\ Len(NextKey) = L
      /\ \A i \in 1..L : NextKey[i] = IF i = L THEN f ELSE stack[i]
  BY <1>1, <1>2, <1>3, ExceptSeq
<1>6. \A i \in 1..L : Len(stack[i].path) = i - 1 /\ OpenLevel(stack[i], built)
  BY DEF PlanInv, BuildInv, LevelsOpen
<1>7. LevelsOpen(built, NextKey)
  BY <1>1, <1>3, <1>4, <1>5, <1>6 DEF LevelsOpen
<1>8. DOMAIN stack = 1..L /\ DOMAIN NextKey = 1..L
  BY <1>1, <1>5, LenProperties
<1>9. ASSUME NEW p, NEW k
      PROVE  Pending(NextKey, p, k) <=> Pending(stack, p, k) /\ ~(p = Top.path /\ k = Key)
  <2>1. CASE p = Top.path
    <3>1. \A i \in 1..L : stack[i].path = p => i = L
      BY <1>1, <1>6, <2>1
    <3>2. Pending(stack, p, k) <=> k \in Range(Top.keys)
      BY <1>1, <1>8, <2>1, <3>1 DEF Pending
    <3>3. Pending(NextKey, p, k) <=> k \in Range(Tail(Top.keys))
      BY <1>1, <1>3, <1>5, <1>8, <2>1, <3>1 DEF Pending
    <3>4. QED
      BY <1>1, <2>1, <3>2, <3>3
  <2>2. CASE p # Top.path
    BY <1>1, <1>3, <1>5, <1>8, <2>2 DEF Pending
  <2>3. QED
    BY <2>1, <2>2
<1>10. QED
  BY <1>1, <1>5, <1>7, <1>9, EmptySeq

\* A default that is cut, or names no edge, leaves the plan as it is.
LEMMA Skips ==
    ASSUME PlanInv, SkipDefault
    PROVE  PlanInv'
<1>1. /\ Turn /\ ~FromClient(ChildPath) /\ (ChildEdge # None => Cut)
      /\ stack' = NextKey /\ UNCHANGED <<in, phase, nodeCount, built, plan, error>> /\ phase = "build"
  BY DEF SkipDefault, Turn, Building
<1>2. /\ LevelsOpen(built, NextKey) /\ NextKey # <<>>
      /\ \A p, k : Pending(NextKey, p, k) <=> Pending(stack, p, k) /\ ~(p = Top.path /\ k = Key)
  BY <1>1, NextKeyFacts
<1>3. ~Belongs(Top.path, Key) /\ ChildPath \notin DOMAIN built
  BY <1>1, ChildFacts, TurnFacts
<1>4. PlanSoFar(built, stack) /\ NodesCounted(built, nodeCount)
  BY DEF PlanInv, BuildInv
<1>5. PlanSoFar(built, NextKey)
  BY <1>2, <1>3, <1>4 DEF PlanSoFar, ChildPath
<1>6. PICK b, st, n : b = built /\ st = NextKey /\ n = nodeCount
  OBVIOUS
<1>7. PlanSoFar(b, st) /\ LevelsOpen(b, st) /\ NodesCounted(b, n)
  BY <1>2, <1>4, <1>5, <1>6
<1>8. BuildInv'
  BY <1>1, <1>6, <1>7, BuildGoesOn
<1>9. IsPlan(plan)' /\ error' \in {error} /\ stack' # <<>>
  BY <1>1, <1>2 DEF PlanInv, IsPlan
<1>10. QED
  BY <1>1, <1>8, <1>9 DEF PlanInv

-----------------------------------------------------------------------------
\* A child that is entered is right, and one client node more is counted.
LEMMA ChildIsRight ==
    ASSUME PlanInv, Descend
    PROVE  /\ WithChild = [p \in DOMAIN WithChild |-> WithChild[p]]
           /\ DOMAIN WithChild = DOMAIN built \cup {ChildPath}
           /\ IsTree(DOMAIN WithChild) /\ <<>> \in DOMAIN WithChild
           /\ \A p \in DOMAIN WithChild : NodeRight(WithChild, p)
           /\ NodesCounted(WithChild, nodeCount')
<1> DEFINE q == ChildPath
           b == WithChild
<1>1. /\ Turn /\ Accounted /\ ChildEdge # None /\ ChildDepth <= in.opts.MaxDepth
      /\ ArgsValid(ChildEdge, ArgsAt(q)) /\ in \in Inputs
      /\ nodeCount' = IF FromClient(q) THEN nodeCount + 1 ELSE nodeCount
  BY DEF Descend, Entered, PlanInv
<1>2. /\ PlanSoFar(built, stack) /\ NodesCounted(built, nodeCount)
  BY DEF PlanInv, BuildInv
<1>3. /\ q \in Seq(Keys) /\ q # <<>> /\ Front(q) = Top.path /\ q \notin DOMAIN built
      /\ Top.path \in Seq(Keys) /\ Top.path \in DOMAIN built /\ Key \in Keys
  BY <1>1, TurnFacts DEF Frames, OpenLevel
<1>4. /\ ChildEdge = EdgeOf(q) /\ ChildEdge \in Edge
      /\ ResourceAt(q) = (IF ChildEdge.kind = "computed" THEN None ELSE ChildEdge.target)
      /\ FromClient(q) => Len(q) = Top.depth + 1
  BY <1>1, ChildFacts
<1>5. /\ DOMAIN b = DOMAIN built \cup {q} /\ b[q] = ChildNode
      /\ \A p \in DOMAIN built : b[p] = built[p]
      /\ b = [p \in DOMAIN b |-> b[p]]
  BY <1>3 DEF WithChild
<1>6. NodeRight(b, q)
  <2>1. FromClient(q) => Len(q) <= in.opts.MaxDepth /\ EdgeOf(q).includable
    BY <1>1, <1>4 DEF ChildDepth, Accounted
  <2>2. QED
    BY <1>1, <1>3, <1>4, <1>5, <2>1 DEF NodeRight, ChildNode
<1>7. \A p \in DOMAIN built : NodeRight(b, p)
  BY <1>2, <1>5 DEF PlanSoFar, NodeRight
<1>8. IsTree(DOMAIN b) /\ <<>> \in DOMAIN b
  <2>1. \A n \in 0..Len(q) : SubSeq(q, 1, n) \in DOMAIN b
    <3>1. /\ Len(q) = Len(Top.path) + 1 /\ Len(Top.path) \in Nat /\ SubSeq(q, 1, Len(q)) = q
          /\ \A n \in 0..Len(Top.path) : SubSeq(q, 1, n) = SubSeq(Top.path, 1, n)
      BY <1>3, AppendFacts DEF ChildPath
    <3>2. \A n \in 0..Len(Top.path) : SubSeq(Top.path, 1, n) \in DOMAIN built
      BY <1>2, <1>3 DEF PlanSoFar, IsTree
    <3>3. \A n \in 0..Len(q) : n = Len(q) \/ n \in 0..Len(Top.path)
      BY <3>1
    <3>4. QED
      BY <1>5, <3>1, <3>2, <3>3
  <2>2. QED
    BY <1>2, <1>3, <1>5, <2>1 DEF PlanSoFar, IsTree
<1>9. NodesCounted(b, nodeCount')
  <2> DEFINE O == (DOMAIN built \cap in.tree) \ {<<>>}
             N == (DOMAIN b \cap in.tree) \ {<<>>}
  <2>1. IsFiniteSet(O) /\ Cardinality(O) \in Nat
    BY <1>1, CallFacts, FS_Subset, FS_CardinalityType
  <2>2. nodeCount = Cardinality(O) /\ nodeCount <= in.opts.MaxNodes /\ in.opts.MaxNodes \in Nat
    BY <1>1, <1>2, CallFacts DEF NodesCounted
  <2>3. CASE FromClient(q)
    <3>1. N = O \cup {q} /\ q \notin O
      BY <1>3, <1>5, <2>3 DEF FromClient
    <3>2. Cardinality(N) = Cardinality(O) + 1
      BY <2>1, <3>1, FS_AddElement
    <3>3. nodeCount + 1 <= in.opts.MaxNodes
      BY <1>1, <2>3 DEF Accounted
    <3>4. QED
      BY <1>1, <2>2, <2>3, <3>2, <3>3 DEF NodesCounted
  <2>4. CASE ~FromClient(q)
    <3>1. N = O
      BY <1>3, <1>5, <2>4 DEF FromClient
    <3>2. QED
      BY <1>1, <2>2, <2>4, <3>1 DEF NodesCounted
  <2>5. QED
    BY <2>3, <2>4
<1>10. QED
  BY <1>5, <1>6, <1>7, <1>8, <1>9

\* The child joins the plan, and what belongs below it is still to come.
LEMMA ChildJoins ==
    ASSUME PlanInv, Descend, NEW st, NEW C,
           \A p, k : Pending(st, p, k) <=> \/ Pending(NextKey, p, k)
                                           \/ p = ChildPath /\ k \in C,
           \A k \in Keys : Belongs(ChildPath, k) => k \in C
    PROVE  PlanSoFar(WithChild, st)
<1> DEFINE q == ChildPath
           b == WithChild
<1>1. /\ Turn /\ Accounted /\ ChildEdge # None /\ ~Cut /\ in \in Inputs
  BY DEF Descend, Entered, PlanInv
<1>2. /\ b = [p \in DOMAIN b |-> b[p]] /\ DOMAIN b = DOMAIN built \cup {q}
      /\ IsTree(DOMAIN b) /\ <<>> \in DOMAIN b
      /\ \A p \in DOMAIN b : NodeRight(b, p)
  BY ChildIsRight
<1>3. /\ q \in Seq(Keys) /\ q \notin DOMAIN built /\ Top.path \in Seq(Keys) /\ Key \in Keys
      /\ PlanSoFar(built, stack)
  BY <1>1, TurnFacts DEF Frames, PlanInv, BuildInv
<1>4. Belongs(Top.path, Key)
  BY <1>1, ChildFacts DEF Accounted
<1>5. \A p, k : Pending(NextKey, p, k) <=> Pending(stack, p, k) /\ ~(p = Top.path /\ k = Key)
  BY <1>1, NextKeyFacts
<1>6. ASSUME NEW p \in DOMAIN built, NEW k \in Keys
      PROVE  Append(p, k) \in DOMAIN b <=> Belongs(p, k) /\ ~Pending(st, p, k)
  <2>1. p # q /\ p \in Seq(Keys)
    BY <1>3 DEF PlanSoFar, IsTree
  <2>2. Append(p, k) \in DOMAIN built <=> Belongs(p, k) /\ ~Pending(stack, p, k)
    BY <1>3 DEF PlanSoFar
  <2>3. Append(p, k) = q <=> p = Top.path /\ k = Key
    BY <1>3, <2>1, AppendInjective DEF ChildPath
  <2>4. QED
    BY <1>2, <1>3, <1>4, <1>5, <2>1, <2>2, <2>3
<1>7. ASSUME NEW k \in Keys
      PROVE  Append(q, k) \in DOMAIN b <=> Belongs(q, k) /\ ~Pending(st, q, k)
  <2>1. Append(q, k) \notin DOMAIN built
    <3>1. /\ Len(q) \in 0..Len(Append(q, k)) /\ SubSeq(Append(q, k), 1, Len(q)) = q
      BY <1>3, AppendFacts, SubSeqFull
    <3>2. QED
      BY <1>3, <3>1 DEF PlanSoFar, IsTree
  <2>2. Append(q, k) # q
    BY <1>3, AppendFacts
  <2>3. QED
    BY <1>2, <2>1, <2>2
<1>8. QED
  BY <1>2, <1>6, <1>7 DEF PlanSoFar

-----------------------------------------------------------------------------
\* With the child in the plan and its level open the call goes on.
LEMMA DescendGoesOn ==
    ASSUME PlanInv, Descend, NEW st, stack' = st, st # <<>>,
           PlanSoFar(WithChild, st), LevelsOpen(WithChild, st)
    PROVE  PlanInv'
<1>1. built' = WithChild /\ UNCHANGED <<in, phase, plan, error>> /\ phase = "build"
  BY DEF Descend, Entered, Turn, Building
<1>2. NodesCounted(WithChild, nodeCount')
  BY ChildIsRight
<1>3. PICK b, n : b = WithChild /\ n = nodeCount'
  OBVIOUS
<1>4. PlanSoFar(b, st) /\ LevelsOpen(b, st) /\ NodesCounted(b, n) /\ built' = b /\ nodeCount' = n
  BY <1>1, <1>2, <1>3
<1>5. BuildInv'
  BY <1>1, <1>4, BuildGoesOn
<1>6. IsPlan(plan)' /\ error' \in {error}
  BY <1>1 DEF PlanInv, IsPlan
<1>7. QED
  BY <1>1, <1>5, <1>6 DEF PlanInv

\* The levels that were open are open in the plan with the child.
LEMMA LevelsStayOpen ==
    ASSUME PlanInv, Descend
    PROVE  LevelsOpen(WithChild, NextKey)
<1>1. Turn /\ LevelsOpen(built, NextKey)
  BY NextKeyFacts DEF Descend, Entered
<1>2. DOMAIN built \subseteq DOMAIN WithChild
  BY ChildIsRight
<1>3. QED
  BY <1>1, <1>2 DEF LevelsOpen, OpenLevel

\* Below a computed edge there is nothing.
LEMMA DescendsToLeaf ==
    ASSUME PlanInv, Descend, ChildEdge.kind = "computed"
    PROVE  PlanInv'
<1>1. /\ Turn /\ ChildEdge # None /\ ClientKeys(ChildPath) = {} /\ stack' = NextKey
  BY DEF Descend, Entered, WithLevel
<1>2. ResourceAt(ChildPath) = None
  BY <1>1, ChildFacts
<1>3. \A k \in Keys : ~Belongs(ChildPath, k)
  BY <1>1, <1>2 DEF Belongs, ClientKeys
<1>4. NextKey # <<>>
  BY <1>1, NextKeyFacts
<1>5. PICK C, st : C = {} /\ st = NextKey
  OBVIOUS
<1>6. PlanSoFar(WithChild, st)
  <2>1. \A p, k : Pending(st, p, k) <=> \/ Pending(NextKey, p, k)
                                        \/ p = ChildPath /\ k \in C
    BY <1>5
  <2>2. \A k \in Keys : Belongs(ChildPath, k) => k \in C
    BY <1>3
  <2>3. QED
    BY <2>1, <2>2, ChildJoins
<1>7. LevelsOpen(WithChild, st)
  BY <1>5, LevelsStayOpen
<1>8. QED
  BY <1>1, <1>4, <1>5, <1>6, <1>7, DescendGoesOn

\* The level of a child starts with all that may belong below it.
LEMMA ChildLevel ==
    ASSUME PlanInv, Descend, ChildEdge.kind # "computed",
           NEW f, f = Frame(ChildPath, ChildEdge.target, ChildDepth, ChildSeen)
    PROVE  /\ f \in Frames /\ f.path = ChildPath /\ OpenLevel(f, WithChild)
           /\ \A k \in Keys : Belongs(ChildPath, k) => k \in Range(f.keys)
<1> DEFINE q == ChildPath
           r == ChildEdge.target
<1>1. /\ Turn /\ Accounted /\ ChildEdge # None /\ ~Cut /\ in \in Inputs /\ ChildDepth <= in.opts.MaxDepth
  BY DEF Descend, Entered, PlanInv
<1>2. /\ Top \in Frames /\ OpenLevel(Top, built) /\ q \in Seq(Keys) /\ Key \in Keys
      /\ Top.path \in Seq(Keys) /\ q = Append(Top.path, Key)
  BY <1>1, TurnFacts DEF Frames, ChildPath
<1>3. /\ ChildEdge \in Edge /\ r \in Resources /\ ResourceAt(q) = r
      /\ FromClient(q) => FromClient(Top.path) /\ Len(q) = Top.depth + 1
  BY <1>1, ChildFacts DEF Edge
<1>4. /\ Ordered(q, r) \in Seq(Keys) /\ IsInjective(Ordered(q, r))
      /\ Range(Ordered(q, r)) = Range(in.graph.defaults[r]) \cup ClientKeys(q)
  BY <1>1, <1>3, OrderedFacts
<1>5. /\ f.path = q /\ f.resource = r /\ f.depth = ChildDepth /\ f.seen = ChildSeen /\ f.keys = Ordered(q, r)
      /\ f = [path |-> q, resource |-> r, depth |-> ChildDepth, seen |-> ChildSeen, keys |-> Ordered(q, r)]
  BY DEF Frame
<1>6. Top.seen \subseteq Resources /\ Top.depth \in Nat /\ Top.seen = DefaultChain(Top.path)
  BY <1>2 DEF Frames, OpenLevel
<1>7. ChildDepth \in Nat /\ ChildSeen \subseteq Resources
  BY <1>3, <1>6 DEF ChildDepth, ChildSeen
<1>8. ChildSeen = DefaultChain(q)
  <2>1. DefaultChain(q) = DefaultChain(Top.path) \cup (IF FromClient(q) THEN {} ELSE {ResourceAt(q)})
    BY <1>1, <1>2, ChainByStep
  <2>2. QED
    BY <1>3, <1>6, <2>1 DEF ChildSeen
<1>9. FromClient(q) => ChildDepth = Len(q)
  BY <1>3 DEF ChildDepth
<1>10. q \in DOMAIN WithChild
  BY ChildIsRight
<1>11. f \in Frames
  BY <1>2, <1>3, <1>4, <1>5, <1>7 DEF Frames
<1>12. OpenLevel(f, WithChild)
  BY <1>1, <1>3, <1>4, <1>5, <1>8, <1>9, <1>10 DEF OpenLevel
<1>13. ASSUME NEW k \in Keys, Belongs(q, k) PROVE k \in Range(f.keys)
  <2>1. CASE FromClient(Append(q, k))
    BY <1>4, <1>5, <2>1 DEF ClientKeys
  <2>2. CASE ~FromClient(Append(q, k))
    <3>1. Contains(in.graph.defaults[r], k)
      BY <1>3, <1>13, <2>2 DEF Belongs
    <3>2. in.graph.defaults[r] \in Seq(Keys)
      BY <1>1, <1>3, CallFacts
    <3>3. k \in Range(in.graph.defaults[r])
      BY <3>1, <3>2, LenProperties DEF Contains, Range
    <3>4. QED
      BY <1>4, <1>5, <3>3
  <2>3. QED
    BY <2>1, <2>2
<1>14. QED
  BY <1>5, <1>11, <1>12, <1>13

\* Below any other edge the recursion goes on with a level of its own.
LEMMA DescendsToLevel ==
    ASSUME PlanInv, Descend, ChildEdge.kind # "computed"
    PROVE  PlanInv'
<1> DEFINE L == Len(stack)
<1>1. PICK f : f = Frame(ChildPath, ChildEdge.target, ChildDepth, ChildSeen)
  OBVIOUS
<1>2. /\ f \in Frames /\ f.path = ChildPath /\ OpenLevel(f, WithChild)
      /\ \A k \in Keys : Belongs(ChildPath, k) => k \in Range(f.keys)
  BY <1>1, ChildLevel
<1>3. PICK st, C : st = Append(NextKey, f) /\ C = Range(f.keys)
  OBVIOUS
<1>4. Turn /\ stack' = st
  BY <1>1, <1>3 DEF Descend, Entered, WithLevel
<1>5. /\ NextKey \in Seq(Frames) /\ Len(NextKey) = L /\ L \in Nat \ {0} /\ Len(ChildPath) = L
  BY <1>4, NextKeyFacts, TurnFacts
<1>6. /\ st \in Seq(Frames) /\ st # <<>> /\ Len(st) = L + 1 /\ st[L + 1] = f
      /\ \A i \in 1..L : st[i] = NextKey[i]
  BY <1>2, <1>3, <1>5, AppendProperties
<1>7. DOMAIN st = 1..(L + 1) /\ DOMAIN NextKey = 1..L /\ 1..(L + 1) = (1..L) \cup {L + 1}
  BY <1>5, <1>6, LenProperties
<1>8. LevelsOpen(WithChild, st)
  <2>1. \A i \in 1..L : Len(NextKey[i].path) = i - 1 /\ OpenLevel(NextKey[i], WithChild)
    BY <1>5, LevelsStayOpen DEF LevelsOpen
  <2>2. \A i \in 1..(L + 1) : Len(st[i].path) = i - 1 /\ OpenLevel(st[i], WithChild)
    BY <1>2, <1>5, <1>6, <1>7, <2>1
  <2>3. QED
    BY <1>6, <2>2 DEF LevelsOpen
<1>9. PlanSoFar(WithChild, st)
  <2>1. \A p, k : Pending(st, p, k) <=> \/ Pending(NextKey, p, k)
                                        \/ p = ChildPath /\ k \in C
    BY <1>2, <1>3, <1>6, <1>7 DEF Pending
  <2>2. QED
    BY <1>2, <1>3, <2>1, ChildJoins
<1>10. QED
  BY <1>4, <1>6, <1>8, <1>9, DescendGoesOn

\* Either way the child that is entered leaves the plan right.
LEMMA Descends ==
    ASSUME PlanInv, Descend
    PROVE  PlanInv'
  BY DescendsToLeaf, DescendsToLevel

-----------------------------------------------------------------------------
\* A plan whose nodes are right is a plan.
LEMMA NodesAreTyped ==
    ASSUME in \in Inputs, NEW b, NEW st, PlanSoFar(b, st)
    PROVE  IsPlan(b)
<1>1. ASSUME NEW p \in DOMAIN b PROVE b[p] \in PlanNodes
  <2>1. NodeRight(b, p) /\ p \in Seq(Keys)
    BY DEF PlanSoFar, IsTree
  <2>2. ResourceAt(p) \in Resources \cup {None}
    BY <2>1, ResourceByStep
  <2>3. ArgsAt(p) \in Args
    BY CallFacts DEF ArgsAt, FromClient, Args, NoArgs
  <2>4. QED
    BY <2>1, <2>2, <2>3 DEF NodeRight, PlanNodes
<1>2. QED
  BY <1>1 DEF IsPlan, PlanSoFar

\* A level whose keys are all behind it closes, and with the last the plan is built.
LEMMA Closes ==
    ASSUME PlanInv, LevelDone
    PROVE  PlanInv'
<1> DEFINE L == Len(stack)
<1>1. /\ Building /\ Top.keys = <<>> /\ stack' = Front(stack) /\ UNCHANGED <<in, nodeCount, built, error>>
      /\ phase' = (IF L = 1 THEN "exclude" ELSE "build") /\ plan' = (IF L = 1 THEN built ELSE plan)
      /\ stack # <<>> /\ ArgsAt(<<>>) = NoArgs
  BY DEF LevelDone, Building
<1>2. /\ in \in Inputs /\ PlanSoFar(built, stack) /\ LevelsOpen(built, stack)
      /\ NodesCounted(built, nodeCount)
      /\ stack \in Seq(Frames)
  BY DEF PlanInv, BuildInv, LevelsOpen
<1>3. PICK st : st = Front(stack)
  OBVIOUS
<1>4. /\ st \in Seq(Frames) /\ L \in Nat \ {0} /\ Len(st) = L - 1
      /\ \A i \in 1..(L - 1) : st[i] = stack[i]
      /\ Top = stack[L]
  BY <1>1, <1>2, <1>3, FrontFacts DEF Top, Last
<1>5. DOMAIN stack = 1..L /\ DOMAIN st = 1..(L - 1) /\ 1..L = (1..(L - 1)) \cup {L}
  BY <1>2, <1>4, LenProperties
<1>6. \A k : k \notin Range(Top.keys)
  BY <1>1 DEF Range
<1>7. \A p, k : Pending(st, p, k) <=> Pending(stack, p, k)
  BY <1>4, <1>5, <1>6 DEF Pending
<1>8. PlanSoFar(built, st)
  BY <1>2, <1>7 DEF PlanSoFar
<1>9. LevelsOpen(built, st)
  BY <1>2, <1>4, <1>5 DEF LevelsOpen
<1>10. PICK b, n : b = built /\ n = nodeCount
  OBVIOUS
<1>11. /\ built' = b /\ nodeCount' = n /\ stack' = st
       /\ PlanSoFar(b, st) /\ LevelsOpen(b, st) /\ NodesCounted(b, n)
  BY <1>1, <1>2, <1>3, <1>8, <1>9, <1>10
<1>12. BuildInv'
  BY <1>1, <1>11, BuildGoesOn
<1>13. IsPlan(plan')
  BY <1>1, <1>2, NodesAreTyped DEF PlanInv
<1>14. IsPlan(plan)' /\ error'.code \in Codes
  BY <1>1, <1>13 DEF PlanInv, IsPlan
<1>15. ArgsAt(<<>>)' = ArgsAt(<<>>)
  BY <1>1 DEF ArgsAt, FromClient
<1>16. IF L = 1 THEN stack' = <<>> ELSE stack' # <<>>
  BY <1>1, <1>3, <1>4, EmptySeq
<1>17. QED
  BY <1>1, <1>2, <1>12, <1>14, <1>15, <1>16 DEF PlanInv

-----------------------------------------------------------------------------
\* A rejection that is deserved is all that happens to the call.
LEMMA Rejects ==
    ASSUME PlanInv, NEW c \in Codes, NEW p, Reject(c, p), Deserves(c, p)
    PROVE  PlanInv'
<1>1. /\ phase' = "rejected" /\ error' = [code |-> c, path |-> p]
      /\ UNCHANGED <<in, stack, nodeCount, built, plan>>
  BY DEF Reject
<1>2. Deserves(c, p)'
  BY <1>1, VerdictIsFixed
<1>3. PICK b, st, n : b = built /\ st = stack /\ n = nodeCount
  OBVIOUS
<1>4. /\ built' = b /\ stack' = st /\ nodeCount' = n
      /\ PlanSoFar(b, st) /\ LevelsOpen(b, st) /\ NodesCounted(b, n)
  BY <1>1, <1>3 DEF PlanInv, BuildInv
<1>5. BuildInv'
  BY <1>1, <1>4, BuildGoesOn
<1>6. IsPlan(plan)' /\ error.code' = c /\ error.path' = p
  BY <1>1 DEF PlanInv, IsPlan
<1>7. Deserves(error.code, error.path)'
  BY <1>2, <1>6 DEF Deserves
<1>8. QED
  BY <1>1, <1>5, <1>6, <1>7 DEF PlanInv

\* A fault of a client path deserves its code.
LEMMA FaultDeserves ==
    ASSUME NEW p \in in.tree \ {<<>>}, NEW c \in NodeFaults(p)
    PROVE  c \in Codes /\ Deserves(c, p)
<1>1. NodeFaults(p) # {}
  OBVIOUS
<1>2. ~TreeIsValid
  BY <1>1 DEF TreeIsValid
<1>3. QED
  BY <1>2 DEF Deserves, NodeFaults

\* The root takes no args.
LEMMA RootArgsRejected ==
    ASSUME PlanInv, RejectRootArgs
    PROVE  PlanInv'
<1>1. ArgsAt(<<>>) # NoArgs /\ Reject("INVALID_INCLUDE", <<>>)
  BY DEF RejectRootArgs
<1>2. Deserves("INVALID_INCLUDE", <<>>)
  BY <1>1 DEF Deserves, TreeIsValid
<1>3. "INVALID_INCLUDE" \in Codes
  BY DEF Codes
<1>4. QED
  BY <1>1, <1>2, <1>3, Rejects

\* A client key that names no includable edge is a fault of its path.
LEMMA UnknownEdgeRejected ==
    ASSUME PlanInv, RejectUnknownEdge
    PROVE  PlanInv'
<1>1. /\ Turn /\ FromClient(ChildPath) /\ (ChildEdge # None => ~ChildEdge.includable)
      /\ Reject("INVALID_INCLUDE", ChildPath)
  BY DEF RejectUnknownEdge
<1>2. ChildEdge = EdgeOf(ChildPath) /\ ChildPath # <<>>
  BY <1>1, ChildFacts, TurnFacts
<1>3. "INVALID_INCLUDE" \in NodeFaults(ChildPath) /\ ChildPath \in in.tree \ {<<>>}
  BY <1>1, <1>2 DEF NodeFaults, Codes, FromClient
<1>4. QED
  BY <1>1, <1>3, FaultDeserves, Rejects

\* A client path beyond the count makes the whole tree too large.
LEMMA TooManyNodesRejected ==
    ASSUME PlanInv, RejectTooManyNodes
    PROVE  PlanInv'
<1> DEFINE O == (DOMAIN built \cap in.tree) \ {<<>>}
           C == in.tree \ {<<>>}
           q == ChildPath
<1>1. /\ Turn /\ FromClient(q) /\ nodeCount + 1 > in.opts.MaxNodes
      /\ Reject("INCLUDE_TOO_DEEP", q)
  BY DEF RejectTooManyNodes
<1>2. q # <<>> /\ q \notin DOMAIN built /\ q \in C
  BY <1>1, TurnFacts DEF FromClient
<1>3. /\ IsFiniteSet(in.tree) /\ <<>> \in in.tree /\ in.opts.MaxNodes \in Nat /\ nodeCount = Cardinality(O)
  BY CallFacts DEF PlanInv, BuildInv, NodesCounted
<1>4. /\ IsFiniteSet(C) /\ Cardinality(C) = Cardinality(in.tree) - 1
      /\ IsFiniteSet(O) /\ Cardinality(O) \in Nat /\ Cardinality(C) \in Nat /\ Cardinality(in.tree) \in Nat
  BY <1>3, FS_RemoveElement, FS_Subset, FS_CardinalityType
<1>5. Cardinality(O) < Cardinality(C)
  <2>1. O \subseteq C /\ O # C
    BY <1>2
  <2> HIDE DEF O, C
  <2>2. Cardinality(O) <= Cardinality(C) /\ (Cardinality(O) = Cardinality(C) => O = C)
    BY <1>4, <2>1, FS_Subset
  <2>3. QED
    BY <1>4, <2>1, <2>2
<1>6. Cardinality(in.tree) - 1 > in.opts.MaxNodes
  BY <1>1, <1>3, <1>4, <1>5
<1>7. "INCLUDE_TOO_DEEP" \in NodeFaults(q)
  BY <1>6 DEF NodeFaults, Codes
<1>8. QED
  BY <1>1, <1>2, <1>7, FaultDeserves, Rejects

\* Only a client path can be too deep: a default is as deep as its parent.
LEMMA TooDeepRejected ==
    ASSUME PlanInv, RejectTooDeep
    PROVE  PlanInv'
<1>1. Turn /\ ChildDepth > in.opts.MaxDepth /\ Reject("INCLUDE_TOO_DEEP", ChildPath)
  BY DEF RejectTooDeep, Entered
<1>2. /\ Top \in Frames /\ Top.depth <= in.opts.MaxDepth /\ ChildPath # <<>>
      /\ FromClient(ChildPath) => Len(ChildPath) = Top.depth + 1
  BY <1>1, TurnFacts, ChildFacts DEF OpenLevel
<1>3. Top.depth \in Nat /\ in.opts.MaxDepth \in Nat
  BY <1>2, CallFacts DEF Frames, PlanInv
<1>4. FromClient(ChildPath) /\ Len(ChildPath) > in.opts.MaxDepth
  BY <1>1, <1>2, <1>3 DEF ChildDepth
<1>5. "INCLUDE_TOO_DEEP" \in NodeFaults(ChildPath) /\ ChildPath \in in.tree \ {<<>>}
  BY <1>2, <1>4 DEF NodeFaults, Codes, FromClient
<1>6. QED
  BY <1>1, <1>5, FaultDeserves, Rejects

\* Only a client path can have args that are not valid.
LEMMA ArgsRejected ==
    ASSUME PlanInv, RejectArgs
    PROVE  PlanInv'
<1>1. /\ Turn /\ ChildEdge # None /\ ~ArgsValid(ChildEdge, ArgsAt(ChildPath))
      /\ Reject("INVALID_INCLUDE", ChildPath)
  BY DEF RejectArgs, Entered
<1>2. ChildEdge = EdgeOf(ChildPath) /\ ChildPath # <<>>
  BY <1>1, ChildFacts, TurnFacts
<1>3. ArgsValid(ChildEdge, NoArgs)
  BY DEF ArgsValid, NoArgs
<1>4. FromClient(ChildPath)
  BY <1>1, <1>3 DEF ArgsAt
<1>5. "INVALID_INCLUDE" \in NodeFaults(ChildPath) /\ ChildPath \in in.tree \ {<<>>}
  BY <1>1, <1>2, <1>4 DEF NodeFaults, Codes, FromClient
<1>6. QED
  BY <1>1, <1>5, FaultDeserves, Rejects

\* A key below a computed edge names no edge.
LEMMA UnderComputedRejected ==
    ASSUME PlanInv, RejectUnderComputed
    PROVE  PlanInv'
<1> DEFINE S == ClientKeys(ChildPath)
           s == Sorted(S)
           p == Append(ChildPath, Head(s))
<1>1. /\ Turn /\ ChildEdge.kind = "computed" /\ S # {} /\ Reject("INVALID_INCLUDE", p) /\ in \in Inputs
  BY DEF RejectUnderComputed, Entered, PlanInv
<1>2. /\ ChildPath \in Seq(Keys) /\ ResourceAt(ChildPath) = None
  BY <1>1, ChildFacts, TurnFacts
<1>3. KeyOrder \in Seq(Keys) /\ Range(KeyOrder) = Keys /\ S \subseteq Keys
  BY KeyOrderAssumption DEF ClientKeys
<1>4. s \in Seq(Keys) /\ IsInjective(s) /\ Range(s) = S
  <2>1. Keys \cap S = S
    BY <1>3
  <2>2. s = Picked(KeyOrder, S)
    BY DEF Sorted
  <2> HIDE DEF S, s
  <2>3. QED
    BY <1>3, <2>1, <2>2, PickedFacts
<1>5. s # <<>>
  BY <1>1, <1>4, LenProperties, EmptySeq DEF Range
<1>6. Head(s) \in S /\ Head(s) \in Keys
  <2> HIDE DEF s, S
  <2>1. QED
    BY <1>4, <1>5, TailDistinct
<1>7. FromClient(p)
  BY <1>6 DEF ClientKeys
<1>8. p # <<>> /\ EdgeOf(p) = None
  BY <1>1, <1>2, <1>6, ResourceByStep, AppendFacts
<1>9. "INVALID_INCLUDE" \in NodeFaults(p) /\ p \in in.tree \ {<<>>}
  BY <1>7, <1>8 DEF NodeFaults, Codes, FromClient
<1>10. QED
  <2> HIDE DEF p
  <2>1. QED
    BY <1>1, <1>9, FaultDeserves, Rejects

-----------------------------------------------------------------------------
\* When no key is to come the whole client tree is in the plan, and in order.
LEMMA BuiltIsValid ==
    ASSUME in \in Inputs, PlanSoFar(built, <<>>), NodesCounted(built, nodeCount), ArgsAt(<<>>) = NoArgs
    PROVE  TreeIsValid
<1> DEFINE T == {n \in Nat : \A p \in in.tree : Len(p) = n => p \in DOMAIN built}
           C == in.tree \ {<<>>}
<1>1. /\ \A p \in in.tree : p \in Seq(Keys) /\ (p # <<>> => Front(p) \in in.tree)
      /\ IsFiniteSet(in.tree) /\ <<>> \in in.tree
      /\ in.opts.MaxDepth \in Nat /\ in.opts.MaxNodes \in Nat
  BY CallFacts
<1>2. /\ <<>> \in DOMAIN built /\ \A p \in DOMAIN built : NodeRight(built, p)
      /\ \A p \in DOMAIN built : \A k \in Keys : Append(p, k) \in DOMAIN built <=> Belongs(p, k)
  <2>1. \A p, k : ~Pending(<<>>, p, k)
    BY DEF Pending
  <2>2. QED
    BY <2>1 DEF PlanSoFar
<1>3. 0 \in T
  <2>1. \A p \in in.tree : Len(p) = 0 => p = <<>>
    BY <1>1, EmptySeq
  <2>2. QED
    BY <1>2, <2>1
<1>4. ASSUME NEW n \in Nat, n \in T PROVE n + 1 \in T
  <2>1. ASSUME NEW p \in in.tree, Len(p) = n + 1 PROVE p \in DOMAIN built
    <3>1. p # <<>> /\ p \in Seq(Keys)
      BY <1>1, <2>1, EmptySeq
    <3>2. PICK q, k : q = Front(p) /\ k = Last(p)
      OBVIOUS
    <3>3. p = Append(q, k) /\ Len(q) = n /\ k \in Keys /\ q \in in.tree
      BY <1>1, <2>1, <3>1, <3>2, FrontFacts
    <3>4. q \in DOMAIN built
      BY <1>4, <3>3
    <3>5. Belongs(q, k)
      BY <3>3 DEF Belongs, FromClient
    <3>6. QED
      BY <1>2, <3>3, <3>4, <3>5
  <2>2. QED
    BY <2>1
<1>5. in.tree \subseteq DOMAIN built
  <2>1. Nat \subseteq T
    <3> HIDE DEF T
    <3>1. QED
      BY <1>3, <1>4, NaturalsByStep
  <2>2. \A p \in in.tree : Len(p) \in Nat
    BY <1>1, LenProperties
  <2>3. QED
    BY <2>1, <2>2
<1>6. Cardinality(in.tree) - 1 <= in.opts.MaxNodes /\ Cardinality(in.tree) \in Nat
  <2>1. (DOMAIN built \cap in.tree) \ {<<>>} = C
    BY <1>5
  <2>2. Cardinality(C) = Cardinality(in.tree) - 1 /\ Cardinality(in.tree) \in Nat
    BY <1>1, FS_RemoveElement, FS_CardinalityType
  <2>3. QED
    BY <2>1, <2>2 DEF NodesCounted
<1>7. ASSUME NEW p \in C PROVE NodeFaults(p) = {}
  <2>1. /\ EdgeOf(p) \in Edge /\ EdgeOf(p).includable /\ ArgsValid(EdgeOf(p), ArgsAt(p))
        /\ Len(p) <= in.opts.MaxDepth
    BY <1>2, <1>5 DEF NodeRight, FromClient
  <2>2. EdgeOf(p) # None /\ Len(p) \in Nat
    BY <1>1, <2>1, NoneAssumption, LenProperties
  <2>3. ~(Len(p) > in.opts.MaxDepth) /\ ~(Cardinality(in.tree) - 1 > in.opts.MaxNodes)
    BY <1>1, <1>6, <2>1, <2>2
  <2>4. QED
    BY <2>1, <2>2, <2>3 DEF NodeFaults
<1>8. QED
  BY <1>7 DEF TreeIsValid

\* Once the plan is built the tree was valid.
LEMMA ValidOnceBuilt ==
    ASSUME PlanInv, phase \in {"exclude", "cost", "accepted"}
    PROVE  TreeIsValid
<1>1. stack = <<>> /\ ArgsAt(<<>>) = NoArgs /\ in \in Inputs
  BY DEF PlanInv
<1>2. PlanSoFar(built, stack) /\ NodesCounted(built, nodeCount)
  BY DEF PlanInv, BuildInv
<1>3. QED
  BY <1>1, <1>2, BuiltIsValid

\* A built plan is only rejected for an exclude that is a fault of it.
LEMMA ExcludeRejected ==
    ASSUME PlanInv, RejectExclude
    PROVE  PlanInv'
<1> DEFINE F == FaultyExcludesOf(built)
           m == Min(F)
<1>1. /\ phase = "exclude" /\ FaultyExcludes # {}
      /\ Reject("INVALID_INCLUDE", in.exclude[Min(FaultyExcludes)])
      /\ plan = built /\ in \in Inputs
  BY DEF RejectExclude, PlanInv
<1>2. FaultyExcludes = F
  BY <1>1 DEF FaultyExcludes
<1>3. m \in F
  <2>1. F \in SUBSET Nat /\ F # {}
    BY <1>1, <1>2 DEF FaultyExcludesOf
  <2> HIDE DEF F
  <2>2. \E n \in F : \A i \in F : n <= i
    BY <2>1, LeastNatural
  <2>3. QED
    BY <2>2 DEF Min
<1>4. TreeIsValid
  BY <1>1, ValidOnceBuilt
<1>5. PICK p : p = in.exclude[m]
  OBVIOUS
<1>6. "INVALID_INCLUDE" \in Codes /\ Deserves("INVALID_INCLUDE", p)
  BY <1>3, <1>4, <1>5 DEF Deserves, Codes
<1>7. QED
  BY <1>1, <1>2, <1>5, <1>6, Rejects

\* A plan without its excludes is only rejected for what it costs.
LEMMA TooExpensiveRejected ==
    ASSUME PlanInv, RejectTooExpensive
    PROVE  PlanInv'
<1>1. phase = "cost" /\ Cost(plan) > MaxCost /\ Reject("INCLUDE_TOO_EXPENSIVE", <<>>)
  BY DEF RejectTooExpensive
<1>2. TreeIsValid
  BY <1>1, ValidOnceBuilt
<1>3. "INCLUDE_TOO_EXPENSIVE" \in Codes /\ Deserves("INCLUDE_TOO_EXPENSIVE", <<>>)
  BY <1>1, <1>2 DEF Deserves, Codes
<1>4. QED
  BY <1>1, <1>3, Rejects

-----------------------------------------------------------------------------
\* What the excludes leave is a plan.
LEMMA Excludes ==
    ASSUME PlanInv, ApplyExclude
    PROVE  PlanInv'
<1> DEFINE L == Len(in.exclude)
           D == Left(built, L)
<1>1. /\ phase = "exclude" /\ FaultyExcludes = {} /\ plan' = Pruned(plan, L) /\ phase' = "cost"
      /\ UNCHANGED <<in, stack, nodeCount, built, error>>
      /\ plan = built /\ in \in Inputs /\ stack = <<>> /\ ArgsAt(<<>>) = NoArgs
  BY DEF ApplyExclude, PlanInv
<1>2. PlanSoFar(built, stack) /\ LevelsOpen(built, stack) /\ NodesCounted(built, nodeCount) /\ IsPlan(built)
  BY <1>1 DEF PlanInv, BuildInv
<1>3. plan' = Restrict(built, D)
  BY <1>1, <1>2, PrunedFacts DEF PlanSoFar
<1>4. <<>> \in D
  <2>1. ASSUME NEW x \in Seq(Keys), IsPrefix(x, <<>>) PROVE x = <<>>
    <3>1. Len(x) <= Len(<<>>) /\ Len(x) \in Nat /\ Len(<<>>) = 0
      BY <2>1, PrefixFacts, EmptySeq
    <3>2. QED
      BY <3>1, EmptySeq
  <2>2. \A i \in 1..L : in.exclude[i] \in Seq(Keys)
    BY <1>1, CallFacts, ElementOfSeq
  <2>3. <<>> \in DOMAIN built
    BY <1>2 DEF PlanSoFar
  <2>4. QED
    BY <2>1, <2>2, <2>3 DEF Left, Names
<1>5. D \subseteq DOMAIN built
  BY DEF Left
<1>6. IsPlan(plan')
  <2> HIDE DEF D
  <2>1. DOMAIN plan' = D /\ \A p \in D : plan'[p] = built[p]
    BY <1>3 DEF Restrict
  <2>2. QED
    BY <1>2, <1>4, <1>5, <2>1 DEF IsPlan
<1>7. IsPlan(plan)'
  BY <1>6 DEF IsPlan
<1>8. PICK b, st, n : b = built /\ st = stack /\ n = nodeCount
  OBVIOUS
<1>9. /\ built' = b /\ stack' = st /\ nodeCount' = n
      /\ PlanSoFar(b, st) /\ LevelsOpen(b, st) /\ NodesCounted(b, n)
  BY <1>1, <1>2, <1>8
<1>10. BuildInv'
  BY <1>1, <1>9, BuildGoesOn
<1>11. FaultyExcludesOf(built)' = {}
  BY <1>1 DEF FaultyExcludes, FaultyExcludesOf, ExcludeFault, StrictFor
<1>12. (plan = Restrict(built, Left(built, Len(in.exclude))))'
  BY <1>1, <1>3 DEF Left, Names
<1>13. ArgsAt(<<>>)' = NoArgs /\ error' \in {error}
  BY <1>1 DEF ArgsAt, FromClient
<1>14. QED
  BY <1>1, <1>7, <1>10, <1>11, <1>12, <1>13 DEF PlanInv

\* An accepted plan is within its cost, and nothing else moves.
LEMMA Accepts ==
    ASSUME PlanInv, Accept \/ UNCHANGED vars
    PROVE  PlanInv'
<1>1. /\ UNCHANGED <<in, stack, nodeCount, built, plan, error>>
      /\ phase' = phase \/ (phase = "cost" /\ phase' = "accepted" /\ Cost(plan) <= MaxCost)
  BY DEF Accept, vars
<1>2. PICK b, st, n : b = built /\ st = stack /\ n = nodeCount
  OBVIOUS
<1>3. /\ built' = b /\ stack' = st /\ nodeCount' = n
      /\ PlanSoFar(b, st) /\ LevelsOpen(b, st) /\ NodesCounted(b, n)
  BY <1>1, <1>2 DEF PlanInv, BuildInv
<1>4. BuildInv'
  BY <1>1, <1>3, BuildGoesOn
<1>5. PICK c, p : c = error.code /\ p = error.path
  OBVIOUS
<1>6. Deserves(c, p)' = Deserves(c, p)
  BY <1>1, VerdictIsFixed
<1>7. Deserves(error.code, error.path)' = Deserves(error.code, error.path)
  BY <1>1, <1>5, <1>6 DEF Deserves
<1>8. FaultyExcludesOf(built)' = FaultyExcludesOf(built)
  BY <1>1 DEF FaultyExcludesOf, ExcludeFault, StrictFor
<1>9. (plan = Restrict(built, Left(built, Len(in.exclude))))'
          <=> plan = Restrict(built, Left(built, Len(in.exclude)))
  BY <1>1 DEF Left, Names
<1>10. ArgsAt(<<>>)' = ArgsAt(<<>>) /\ IsPlan(plan)' = IsPlan(plan) /\ MaxCost' = MaxCost
  BY <1>1 DEF ArgsAt, FromClient, IsPlan, MaxCost
<1>11. QED
  BY <1>1, <1>4, <1>7, <1>8, <1>9, <1>10 DEF PlanInv

-----------------------------------------------------------------------------
\* A call begins with the root's level.
LEMMA InitPlanInv ==
    ASSUME Init
    PROVE  PlanInv
<1> DEFINE f == Frame(<<>>, in.root, 0, {in.root})
<1>1. /\ in \in Inputs /\ phase = "build" /\ stack = <<f>> /\ nodeCount = 0
      /\ built = [p \in {<<>>} |-> [edge |-> None, resource |-> in.root, args |-> ArgsAt(p)]]
      /\ plan = built /\ error = NoError
  BY DEF Init
<1>2. /\ in.root \in Resources /\ in.opts.MaxDepth \in Nat /\ in.opts.MaxNodes \in Nat
      /\ in.graph.defaults[in.root] \in Seq(Keys)
  BY <1>1, CallFacts
<1>3. /\ Ordered(<<>>, in.root) \in Seq(Keys) /\ IsInjective(Ordered(<<>>, in.root))
      /\ Range(Ordered(<<>>, in.root)) = Range(in.graph.defaults[in.root]) \cup ClientKeys(<<>>)
  BY <1>1, <1>2, OrderedFacts
<1>4. /\ <<>> \in Seq(Keys) /\ Len(<<>>) = 0 /\ ResourceAt(<<>>) = in.root
  BY <1>1, EmptySeq, ResourceByStep
<1>5. DefaultChain(<<>>) = {in.root}
  BY <1>4 DEF DefaultChain
<1>6. DOMAIN built = {<<>>} /\ built = [p \in DOMAIN built |-> built[p]] /\ NodeRight(built, <<>>)
  BY <1>1, <1>4 DEF NodeRight
<1>7. f = [path |-> <<>>, resource |-> in.root, depth |-> 0, seen |-> {in.root},
           keys |-> Ordered(<<>>, in.root)]
  BY DEF Frame
<1>8. f \in Frames /\ OpenLevel(f, built) /\ f.path = <<>> /\ f.keys = Ordered(<<>>, in.root)
  <2> HIDE DEF f
  <2>1. f \in Frames
    <3>1. 0 \in Nat /\ {in.root} \in SUBSET Resources
      BY <1>2
    <3>2. QED
      BY <1>2, <1>3, <1>4, <1>7, <3>1 DEF Frames
  <2>2. OpenLevel(f, built)
    <3>1. /\ f.path = <<>> /\ f.resource = in.root /\ f.depth = 0 /\ f.seen = {in.root}
          /\ f.keys = Ordered(<<>>, in.root)
      BY <1>7
    <3>2. 0 <= in.opts.MaxDepth
      BY <1>2
    <3>3. QED
      BY <1>3, <1>4, <1>5, <1>6, <3>1, <3>2 DEF OpenLevel
  <2>3. QED
    BY <1>7, <2>1, <2>2
<1> HIDE DEF f
<1>9. stack \in Seq(Frames) /\ Len(stack) = 1 /\ stack[1] = f /\ stack # <<>> /\ DOMAIN stack = {1}
  BY <1>1, <1>8
<1>10. LevelsOpen(built, stack)
  BY <1>4, <1>8, <1>9 DEF LevelsOpen
<1>11. ASSUME NEW k \in Keys, Belongs(<<>>, k) PROVE Pending(stack, <<>>, k)
  <2>1. k \in Range(f.keys)
    <3>1. CASE FromClient(Append(<<>>, k))
      BY <1>3, <1>8, <3>1 DEF ClientKeys
    <3>2. CASE ~FromClient(Append(<<>>, k))
      <4>1. Contains(in.graph.defaults[in.root], k)
        BY <1>4, <1>11, <3>2 DEF Belongs
      <4>2. k \in Range(in.graph.defaults[in.root])
        BY <1>2, <4>1, LenProperties DEF Contains, Range
      <4>3. QED
        BY <1>3, <1>8, <4>2
    <3>3. QED
      BY <3>1, <3>2
  <2>2. QED
    BY <1>8, <1>9, <2>1 DEF Pending
<1>12. PlanSoFar(built, stack)
  <2>1. IsTree({<<>>})
    <3>1. SubSeq(<<>>, 1, 0) = <<>>
      BY <1>4, SubSeqFull
    <3>2. 0..0 = {0}
      OBVIOUS
    <3>3. QED
      BY <1>4, <3>1, <3>2 DEF IsTree
  <2>2. \A k \in Keys : Append(<<>>, k) # <<>>
    BY <1>4, AppendFacts
  <2>3. QED
    BY <1>6, <1>11, <2>1, <2>2 DEF PlanSoFar
<1>13. NodesCounted(built, nodeCount)
  <2>1. (DOMAIN built \cap in.tree) \ {<<>>} = {}
    BY <1>6
  <2>2. Cardinality({}) = 0
    BY FS_EmptySet
  <2>3. nodeCount = 0 /\ 0 <= in.opts.MaxNodes
    BY <1>1, <1>2
  <2>4. QED
    BY <2>1, <2>2, <2>3, Zenon DEF NodesCounted
<1>14. IsPlan(plan)
  BY <1>1, <1>12, NodesAreTyped
<1>15. error.code \in Codes
  BY <1>1 DEF NoError, Codes
<1>16. QED
  BY <1>1, <1>9, <1>10, <1>12, <1>13, <1>14, <1>15 DEF PlanInv, BuildInv

\* Every step of the call keeps the invariant.
LEMMA NextPlanInv ==
    ASSUME PlanInv, [Next]_vars
    PROVE  PlanInv'
<1>1. CASE RejectRootArgs
  BY <1>1, RootArgsRejected
<1>2. CASE RejectUnknownEdge
  BY <1>2, UnknownEdgeRejected
<1>3. CASE RejectTooManyNodes
  BY <1>3, TooManyNodesRejected
<1>4. CASE SkipDefault
  BY <1>4, Skips
<1>5. CASE RejectTooDeep
  BY <1>5, TooDeepRejected
<1>6. CASE RejectArgs
  BY <1>6, ArgsRejected
<1>7. CASE RejectUnderComputed
  BY <1>7, UnderComputedRejected
<1>8. CASE Descend
  BY <1>8, Descends
<1>9. CASE LevelDone
  BY <1>9, Closes
<1>10. CASE RejectExclude
  BY <1>10, ExcludeRejected
<1>11. CASE ApplyExclude
  BY <1>11, Excludes
<1>12. CASE RejectTooExpensive
  BY <1>12, TooExpensiveRejected
<1>13. CASE Accept \/ Returned \/ UNCHANGED vars
  BY <1>13, Accepts DEF Returned
<1>14. QED
  BY <1>1, <1>2, <1>3, <1>4, <1>5, <1>6, <1>7, <1>8, <1>9, <1>10, <1>11, <1>12, <1>13 DEF Next

\* The plan so far, the open levels and the count of nodes fit at every step.
THEOREM PlanInvariant == Spec => []PlanInv
<1>1. Init => PlanInv
  BY InitPlanInv
<1>2. PlanInv /\ [Next]_vars => PlanInv'
  BY NextPlanInv
<1>3. QED
  BY <1>1, <1>2, PTL DEF Spec

-----------------------------------------------------------------------------
\* Every variable keeps its type; the count of nodes stays within the tree.
THEOREM ResolvePlanTypeCorrect == Spec => []TypeOK
<1>1. ASSUME PlanInv PROVE TypeOK
  <2>1. in \in Inputs /\ IsInput(in)
    BY <1>1, InputsAssumption DEF PlanInv
  <2>2. PlanSoFar(built, stack) /\ LevelsOpen(built, stack) /\ NodesCounted(built, nodeCount)
    BY <1>1 DEF PlanInv, BuildInv
  <2>3. ASSUME NEW i \in 1..Len(stack)
        PROVE  /\ stack[i].path \in Seq(Keys)
               /\ stack[i].resource \in Resources
               /\ stack[i].depth \in 0..in.opts.MaxDepth
               /\ stack[i].seen \subseteq Resources
               /\ stack[i].keys \in Seq(Keys)
    <3>1. stack[i] \in Frames /\ OpenLevel(stack[i], built)
      BY <2>2, ElementOfSeq DEF LevelsOpen
    <3>2. in.opts.MaxDepth \in Nat
      BY <2>1, CallFacts
    <3>3. QED
      BY <3>1, <3>2 DEF Frames, OpenLevel
  <2>4. nodeCount \in 0..Cardinality(in.tree)
    <3> DEFINE O == (DOMAIN built \cap in.tree) \ {<<>>}
    <3>1. IsFiniteSet(in.tree) /\ O \subseteq in.tree /\ nodeCount = Cardinality(O)
      BY <2>1, <2>2, CallFacts DEF NodesCounted
    <3> HIDE DEF O
    <3>2. /\ Cardinality(O) \in Nat /\ Cardinality(in.tree) \in Nat
          /\ Cardinality(O) <= Cardinality(in.tree)
      BY <3>1, FS_Subset, FS_CardinalityType
    <3>3. QED
      BY <3>1, <3>2
  <2>5. IsPlan(built) /\ IsPlan(plan) /\ error.code \in Codes
    BY <1>1, <2>1, <2>2, NodesAreTyped DEF PlanInv
  <2>6. QED
    BY <1>1, <2>1, <2>3, <2>4, <2>5 DEF TypeOK, PlanInv
<1>2. QED
  BY <1>1, PlanInvariant, PTL

\* The plan as built is the client's tree and the defaults, no more and no less:
\* build of ResolvePlan, for every graph, tree and limits.
THEOREM ResolvePlanBuildsWhatWasAsked == Spec => []PlanIsWhatWasAsked
<1>1. ASSUME PlanInv PROVE PlanIsWhatWasAsked
  <2>1. SUFFICES ASSUME phase \in {"exclude", "cost", "accepted"}, NEW p \in DOMAIN built
                 PROVE  /\ p # <<>> => Front(p) \in DOMAIN built
                        /\ built[p].resource = ResourceAt(p)
                        /\ built[p].args = ArgsAt(p)
                        /\ \A k \in Keys : Append(p, k) \in DOMAIN built <=> Belongs(p, k)
    BY DEF PlanIsWhatWasAsked
  <2>2. PlanSoFar(built, <<>>)
    BY <1>1, <2>1 DEF PlanInv, BuildInv
  <2>3. built[p].resource = ResourceAt(p) /\ built[p].args = ArgsAt(p)
    BY <2>2 DEF PlanSoFar, NodeRight
  <2>4. \A k \in Keys : Append(p, k) \in DOMAIN built <=> Belongs(p, k)
    <3>1. \A k : ~Pending(<<>>, p, k)
      BY DEF Pending
    <3>2. QED
      BY <2>2, <3>1 DEF PlanSoFar
  <2>5. ASSUME p # <<>> PROVE Front(p) \in DOMAIN built
    <3>1. p \in Seq(Keys) /\ \A n \in 0..Len(p) : SubSeq(p, 1, n) \in DOMAIN built
      BY <2>2 DEF PlanSoFar, IsTree
    <3>2. Len(p) - 1 \in 0..Len(p)
      BY <2>5, <3>1, EmptySeq
    <3>3. QED
      BY <3>1, <3>2 DEF Front
  <2>6. QED
    BY <2>3, <2>4, <2>5
<1>2. QED
  BY <1>1, PlanInvariant, PTL

\* A plan is accepted when tree, excludes and cost are in order, and rejected for
\* a reason that is really there: the errors of ResolvePlan.
THEOREM ResolvePlanVerdictIsRight == Spec => []VerdictIsRight
<1>1. ASSUME PlanInv PROVE VerdictIsRight
  <2>1. phase = "accepted" => TreeIsValid /\ FaultyExcludesOf(built) = {} /\ Cost(plan) <= MaxCost
    BY <1>1, ValidOnceBuilt DEF PlanInv
  <2>2. phase = "rejected" => Deserves(error.code, error.path)
    BY <1>1 DEF PlanInv
  <2>3. QED
    BY <2>1, <2>2 DEF VerdictIsRight, Deserves
<1>2. QED
  BY <1>1, PlanInvariant, PTL

\* The plan returned is the one built without the subtrees the excludes name, in
\* whatever order they come: applyExclude.
THEOREM ResolvePlanExcludesExactly == Spec => []ExcludeIsExact
<1>1. ASSUME PlanInv PROVE ExcludeIsExact
  <2>1. Left(built, Len(in.exclude)) = {p \in DOMAIN built : ~Excluded(p)}
    BY DEF Left, Names, Excluded
  <2>2. phase = "accepted" => plan = Restrict(built, Left(built, Len(in.exclude)))
    BY <1>1 DEF PlanInv
  <2>3. QED
    BY <2>1, <2>2 DEF ExcludeIsExact
<1>2. QED
  BY <1>1, PlanInvariant, PTL

-----------------------------------------------------------------------------
\* What a level of the published paths contributes, and the levels it goes on to.
PathOwn == [l \in PathLevels |-> {Append(l.path, k) : k \in Includable(l)}]
PathOnward == [l \in PathLevels |-> {PathBelow(l, k) : k \in Walked(l)}]

\* The level below an includable edge is the one of its target.
LEMMA WalkedFacts ==
    ASSUME in \in Inputs, NEW l \in PathLevels, NEW k \in Includable(l)
    PROVE  /\ l.path \in Seq(Keys) /\ l.resource \in Resources /\ k \in Keys
           /\ EdgeAt(l.resource, k) \in Edge /\ EdgeAt(l.resource, k).includable
           /\ Len(l.path) \in Nat /\ in.opts.MaxDepth \in Nat /\ Len(l.path) < in.opts.MaxDepth
           /\ k \in Walked(l) => PathBelow(l, k) \in PathLevels
<1>1. l.path \in Seq(Keys) /\ l.resource \in Resources /\ k \in Keys
  BY DEF PathLevels, Includable
<1>2. EdgeAt(l.resource, k) # None /\ EdgeAt(l.resource, k).includable /\ Len(l.path) < in.opts.MaxDepth
  BY DEF Includable, MayDescend
<1>3. EdgeAt(l.resource, k) \in Edge
  BY <1>1, <1>2, CallFacts DEF EdgeAt
<1>4. EdgeAt(l.resource, k).target \in Resources
  BY <1>3 DEF Edge
<1>5. Append(l.path, k) \in Seq(Keys) /\ Len(l.path) \in Nat /\ in.opts.MaxDepth \in Nat
  BY <1>1, AppendFacts, CallFacts
<1>6. PathBelow(l, k) \in PathLevels
  BY <1>4, <1>5 DEF PathBelow, PathLevels
<1>7. QED
  BY <1>1, <1>2, <1>3, <1>5, <1>6

\* IncludePaths is such a recursion.
LEMMA PathsCollected ==
    ASSUME in \in Inputs
    PROVE  Collects(IncludePathsFrom, PathLevels, PathOwn, PathOnward)
<1>1. ASSUME NEW l \in PathLevels
      PROVE  /\ {Append(l.path, k) : k \in Includable(l)} \in SUBSET Seq(Keys)
             /\ {PathBelow(l, k) : k \in Walked(l)} \in SUBSET PathLevels
  <2>1. \A k \in Includable(l) : Append(l.path, k) \in Seq(Keys)
    BY WalkedFacts, AppendFacts
  <2>2. Walked(l) \subseteq Includable(l)
    BY DEF Walked
  <2>3. \A k \in Walked(l) : PathBelow(l, k) \in PathLevels
    BY <2>2, WalkedFacts
  <2>4. QED
    BY <2>1, <2>3
<1>2. PathOwn \in [PathLevels -> SUBSET Seq(Keys)] /\ PathOnward \in [PathLevels -> SUBSET PathLevels]
  BY <1>1, Zenon DEF PathOwn, PathOnward
<1>3. PICK f : Collects(f, PathLevels, PathOwn, PathOnward)
  BY <1>2, CollectExists
<1> DEFINE Steps(g) == g = [l \in PathLevels |->
                               {Append(l.path, k) : k \in Includable(l)}
                                   \cup UNION {g[PathBelow(l, k)] : k \in Walked(l)}]
<1>4. ASSUME NEW g PROVE Steps(g) <=> Collects(g, PathLevels, PathOwn, PathOnward)
  <2>1. ASSUME NEW l \in PathLevels
        PROVE  PathOwn[l] \cup UNION {g[t] : t \in PathOnward[l]}
                   = {Append(l.path, k) : k \in Includable(l)}
                         \cup UNION {g[PathBelow(l, k)] : k \in Walked(l)}
    <3>1. PathOwn[l] = {Append(l.path, k) : k \in Includable(l)} /\ PathOnward[l] = {PathBelow(l, k) : k \in Walked(l)}
      BY DEF PathOwn, PathOnward
    <3>2. UNION {g[t] : t \in {PathBelow(l, k) : k \in Walked(l)}} = UNION {g[PathBelow(l, k)] : k \in Walked(l)}
      OBVIOUS
    <3>3. QED
      BY <3>1, <3>2, Zenon
  <2>2. QED
    BY <2>1, Zenon DEF Collects
<1>5. \E g : Steps(g)
  BY <1>3, <1>4
<1>6. IncludePathsFrom = CHOOSE g : Steps(g)
  BY DEF IncludePathsFrom
<1> HIDE DEF Steps
<1>7. Steps(IncludePathsFrom)
  BY <1>5, <1>6
<1>8. QED
  BY <1>4, <1>7

\* A level publishes its own paths and those of the levels below it.
LEMMA PathsOfLevel ==
    ASSUME in \in Inputs, NEW l \in PathLevels, NEW k \in Includable(l)
    PROVE  /\ Append(l.path, k) \in IncludePathsFrom[l]
           /\ k \in Walked(l) => IncludePathsFrom[PathBelow(l, k)] \subseteq IncludePathsFrom[l]
<1>1. IncludePathsFrom[l] = PathOwn[l] \cup UNION {IncludePathsFrom[t] : t \in PathOnward[l]}
  BY PathsCollected DEF Collects
<1>2. Append(l.path, k) \in PathOwn[l]
  BY DEF PathOwn
<1>3. k \in Walked(l) => PathBelow(l, k) \in PathOnward[l]
  BY DEF PathOnward
<1>4. QED
  BY <1>1, <1>2, <1>3

\* A client may use every path that is published.
Usable(p) == /\ EdgeOf(p) # None
             /\ EdgeOf(p).includable
             /\ Len(p) <= in.opts.MaxDepth
LEMMA PublishedIsUsable ==
    ASSUME in \in Inputs, NEW p \in IncludePaths
    PROVE  Usable(p)
<1> DEFINE G == {l \in PathLevels : l.resource = ResourceAt(l.path)}
           R == {q \in Seq(Keys) : Usable(q)}
           D == in.opts.MaxDepth
           m == [l \in G |-> IF Len(l.path) <= D THEN D - Len(l.path) ELSE 0]
           root == [path |-> <<>>, resource |-> in.root]
<1>1. D \in Nat
  BY CallFacts
<1>2. \A l \in G : l \in PathLevels /\ Len(l.path) \in Nat
  BY LenProperties DEF PathLevels
<1>3. m \in [G -> Nat]
  BY <1>1, <1>2
<1>4. ASSUME NEW l \in G
      PROVE  PathOwn[l] \subseteq R /\ PathOnward[l] \subseteq G /\ \A t \in PathOnward[l] : m[t] < m[l]
  <2>1. ASSUME NEW k \in Includable(l)
        PROVE  /\ Append(l.path, k) \in R
               /\ k \in Walked(l) => PathBelow(l, k) \in G /\ m[PathBelow(l, k)] < m[l]
    <3> DEFINE q == Append(l.path, k)
    <3>1. /\ l.path \in Seq(Keys) /\ l.resource \in Resources /\ k \in Keys
          /\ EdgeAt(l.resource, k) \in Edge /\ EdgeAt(l.resource, k).includable
          /\ Len(l.path) \in Nat /\ Len(l.path) < D
          /\ k \in Walked(l) => PathBelow(l, k) \in PathLevels
      BY <1>2, WalkedFacts
    <3>2. q \in Seq(Keys) /\ Len(q) = Len(l.path) + 1
      BY <3>1, AppendFacts
    <3>3. l.resource # None /\ EdgeAt(l.resource, k) # None
      BY <3>1, NoneAssumption
    <3>4. EdgeOf(q) = EdgeAt(l.resource, k) /\ ResourceAt(q) = Beyond(l.resource, k)
      BY <3>1, <3>3, ResourceByStep
    <3>5. q \in R
      BY <1>1, <3>1, <3>2, <3>3, <3>4 DEF Usable
    <3>6. ASSUME k \in Walked(l) PROVE PathBelow(l, k) \in G /\ m[PathBelow(l, k)] < m[l]
      <4>1. ResourceAt(q) = EdgeAt(l.resource, k).target
        BY <3>3, <3>4, <3>6 DEF Walked, Beyond
      <4>2. PathBelow(l, k).path = q /\ PathBelow(l, k) \in G
        BY <3>1, <3>6, <4>1 DEF PathBelow
      <4>3. m[PathBelow(l, k)] = D - Len(q) /\ m[l] = D - Len(l.path)
        BY <1>1, <3>1, <3>2, <4>2
      <4>4. QED
        BY <1>1, <3>1, <3>2, <4>2, <4>3
    <3>7. QED
      BY <3>5, <3>6
  <2>2. Walked(l) \subseteq Includable(l)
    BY DEF Walked
  <2>3. PathOwn[l] = {Append(l.path, k) : k \in Includable(l)} /\ PathOnward[l] = {PathBelow(l, k) : k \in Walked(l)}
    BY <1>2 DEF PathOwn, PathOnward
  <2> HIDE DEF G, R, m
  <2>4. QED
    BY <2>1, <2>2, <2>3
<1>5. root \in G
  <2>1. <<>> \in Seq(Keys) /\ in.root \in Resources /\ ResourceAt(<<>>) = in.root
    BY EmptySeq, CallFacts, ResourceByStep
  <2>2. QED
    BY <2>1 DEF PathLevels
<1>6. G \in SUBSET PathLevels /\ Collects(IncludePathsFrom, PathLevels, PathOwn, PathOnward)
  BY PathsCollected
<1> HIDE DEF G, R, m
<1>7. \A l \in G : IncludePathsFrom[l] \subseteq R
  BY <1>3, <1>4, <1>6, CollectsNoMore
<1>8. p \in R
  BY <1>5, <1>7 DEF IncludePaths
<1>9. QED
  BY <1>8 DEF R

\* A path of the plan grows from its prefixes.
LEMMA PrefixGrows ==
    ASSUME NEW p \in Seq(Keys), NEW i \in 0..(Len(p) - 1)
    PROVE  /\ SubSeq(p, 1, i) \in Seq(Keys) /\ Len(SubSeq(p, 1, i)) = i
           /\ SubSeq(p, 1, i + 1) = Append(SubSeq(p, 1, i), p[i + 1]) /\ p[i + 1] \in Keys
<1> DEFINE a == SubSeq(p, 1, i)
           b == SubSeq(p, 1, i + 1)
<1>1. Len(p) \in Nat /\ i \in 0..Len(p) /\ i + 1 \in 0..Len(p) /\ i + 1 \in 1..Len(p)
  BY LenProperties
<1>2. /\ a \in Seq(Keys) /\ Len(a) = i /\ \A j \in 1..i : a[j] = p[j]
      /\ b \in Seq(Keys) /\ Len(b) = i + 1 /\ \A j \in 1..(i + 1) : b[j] = p[j]
  BY <1>1, PrefixFacts
<1>3. p[i + 1] \in Keys
  BY <1>1, ElementOfSeq
<1> DEFINE c == Append(a, p[i + 1])
<1>4. c \in Seq(Keys) /\ Len(c) = i + 1 /\ c[i + 1] = p[i + 1] /\ \A j \in 1..i : c[j] = a[j]
  BY <1>2, <1>3, AppendProperties
<1>5. \A j \in 1..(i + 1) : b[j] = c[j]
  BY <1>1, <1>2, <1>4
<1> HIDE DEF a, b, c
<1>6. b = c
  BY <1>2, <1>4, <1>5, SeqEqual
<1>7. QED
  BY <1>2, <1>3, <1>6 DEF a, b, c

\* The prefixes of a path the client asked for are asked for too.
LEMMA PrefixesAsked ==
    ASSUME in \in Inputs, NEW p \in in.tree, NEW n \in 0..(Len(p) - 1)
    PROVE  /\ p \in Seq(Keys) /\ Len(p) \in Nat /\ p[n + 1] \in Keys
           /\ SubSeq(p, 1, n) \in Seq(Keys) /\ Len(SubSeq(p, 1, n)) = n
           /\ SubSeq(p, 1, n + 1) = Append(SubSeq(p, 1, n), p[n + 1])
           /\ SubSeq(p, 1, n) \in in.tree /\ SubSeq(p, 1, n + 1) \in in.tree
<1>1. p \in Seq(Keys) /\ Len(p) \in Nat /\ SubSeq(p, 1, Len(p)) = p
  BY CallFacts, LenProperties, SubSeqFull
<1> DEFINE T == {j \in 0..Len(p) : SubSeq(p, 1, Len(p) - j) \in in.tree}
<1>2. ASSUME NEW i \in 0..(Len(p) - 1)
      PROVE  /\ SubSeq(p, 1, i) \in Seq(Keys) /\ Len(SubSeq(p, 1, i)) = i
             /\ SubSeq(p, 1, i + 1) = Append(SubSeq(p, 1, i), p[i + 1]) /\ p[i + 1] \in Keys
  BY <1>1, PrefixGrows
<1>3. 0 \in T
  <2>1. Len(p) - 0 = Len(p) /\ 0 \in 0..Len(p)
    BY <1>1
  <2>2. QED
    BY <1>1, <2>1
<1>4. ASSUME NEW j \in 0..(Len(p) - 1), j \in T PROVE j + 1 \in T
  <2>1. PICK i : i = Len(p) - (j + 1)
    OBVIOUS
  <2>2. i \in 0..(Len(p) - 1) /\ i + 1 = Len(p) - j /\ j + 1 \in 0..Len(p)
    BY <1>1, <2>1
  <2>3. SubSeq(p, 1, i + 1) \in in.tree
    BY <1>4, <2>2
  <2>4. SubSeq(p, 1, i + 1) = Append(SubSeq(p, 1, i), p[i + 1]) /\ SubSeq(p, 1, i) \in Seq(Keys) /\ p[i + 1] \in Keys
    BY <1>2, <2>2
  <2> DEFINE a == SubSeq(p, 1, i)
             c == Append(a, p[i + 1])
  <2>5. c # <<>> /\ Front(c) = a
    <3> HIDE DEF a
    <3>1. a \in Seq(Keys) /\ p[i + 1] \in Keys
      BY <2>4 DEF a
    <3>2. QED
      BY <3>1, AppendFacts
  <2>6. SubSeq(p, 1, i) \in in.tree
    BY <2>3, <2>4, <2>5, CallFacts
  <2>7. QED
    BY <2>1, <2>2, <2>6
<1>5. 0..Len(p) \subseteq T
  <2> HIDE DEF T
  <2>1. QED
    BY <1>1, <1>3, <1>4, IntervalByStep
<1>6. ASSUME NEW i \in 0..Len(p) PROVE SubSeq(p, 1, i) \in in.tree
  <2>1. Len(p) - i \in 0..Len(p) /\ Len(p) - (Len(p) - i) = i
    BY <1>1
  <2>2. QED
    BY <1>5, <2>1
<1>7. n \in 0..Len(p) /\ n + 1 \in 0..Len(p)
  BY <1>1
<1>8. QED
  BY <1>1, <1>2, <1>6, <1>7

\* Every path of a tree that is in order is published.
LEMMA UsableIsPublished ==
    ASSUME in \in Inputs, TreeIsValid, NEW p \in in.tree \ {<<>>}
    PROVE  p \in IncludePaths
<1> DEFINE At(n) == [path |-> SubSeq(p, 1, n), resource |-> ResourceAt(SubSeq(p, 1, n))]
           T == {n \in 0..(Len(p) - 1) :
                    At(n) \in PathLevels /\ IncludePathsFrom[At(n)] \subseteq IncludePaths}
           L == Len(p)
<1>1. p \in Seq(Keys) /\ L \in Nat \ {0} /\ p \in in.tree /\ SubSeq(p, 1, L) = p
  <2>1. p \in Seq(Keys)
    BY CallFacts
  <2>2. QED
    BY <2>1, FrontFacts, SubSeqFull
<1>2. ASSUME NEW n \in 0..(L - 1), n \in T
      PROVE  /\ p[n + 1] \in Includable(At(n)) /\ At(n) \in PathLevels
             /\ At(n).path = SubSeq(p, 1, n) /\ At(n).resource = ResourceAt(SubSeq(p, 1, n))
             /\ EdgeOf(SubSeq(p, 1, n + 1)) = EdgeAt(At(n).resource, p[n + 1])
             /\ ResourceAt(SubSeq(p, 1, n + 1)) = Beyond(At(n).resource, p[n + 1])
             /\ EdgeOf(SubSeq(p, 1, n + 1)) # None
  <2> DEFINE a == SubSeq(p, 1, n)
             k == p[n + 1]
             q == SubSeq(p, 1, n + 1)
  <2>1. /\ a \in Seq(Keys) /\ k \in Keys /\ q = Append(a, k) /\ Len(a) = n /\ q \in in.tree
        /\ n \in Nat /\ n < L
    <3>1. n \in Nat /\ n < L
      BY <1>1
    <3>2. QED
      BY <1>1, <3>1, PrefixesAsked
  <2>2. q # <<>> /\ Len(q) = n + 1
    BY <2>1, AppendFacts
  <2>3. /\ At(n).path = a /\ At(n).resource = ResourceAt(a) /\ At(n) \in PathLevels
    BY <1>2
  <2>4. ResourceAt(a) # None
    BY <2>3, NoneAssumption DEF PathLevels
  <2>5. EdgeOf(q) = EdgeAt(ResourceAt(a), k) /\ ResourceAt(q) = Beyond(ResourceAt(a), k)
    BY <2>1, <2>4, ResourceByStep
  <2>6. NodeFaults(q) = {}
    BY <2>1, <2>2 DEF TreeIsValid
  <2>7. EdgeOf(q) # None /\ EdgeOf(q).includable /\ Len(q) <= in.opts.MaxDepth
    <3>1. "INVALID_INCLUDE" \in Codes /\ "INCLUDE_TOO_DEEP" \in Codes
      BY DEF Codes
    <3>2. Len(q) \in Nat /\ in.opts.MaxDepth \in Nat
      BY <2>1, <2>2, CallFacts
    <3>3. QED
      BY <2>6, <3>1, <3>2 DEF NodeFaults
  <2>8. n < in.opts.MaxDepth
    BY <2>1, <2>2, <2>7, CallFacts
  <2>9. k \in Includable(At(n))
    BY <2>1, <2>3, <2>5, <2>7, <2>8 DEF Includable, MayDescend
  <2>10. QED
    BY <2>3, <2>5, <2>7, <2>9
<1>3. 0 \in T
  <2>1. SubSeq(p, 1, 0) = <<>>
    <3>1. SubSeq(p, 1, 0) \in Seq(Keys) /\ Len(SubSeq(p, 1, 0)) = 0
      BY <1>1, PrefixFacts
    <3>2. QED
      BY <3>1, EmptySeq
  <2>2. At(0) = [path |-> <<>>, resource |-> in.root]
    BY <2>1, ResourceByStep
  <2>3. At(0) \in PathLevels
    BY <2>2, CallFacts, EmptySeq DEF PathLevels
  <2>4. QED
    BY <1>1, <2>2, <2>3 DEF IncludePaths
<1>4. ASSUME NEW n \in 0..((L - 1) - 1), n \in T PROVE n + 1 \in T
  <2> DEFINE k == p[n + 1]
  <2>1. n \in 0..(L - 1) /\ n + 1 \in 0..(L - 1)
    BY <1>1
  <2>2. /\ k \in Includable(At(n)) /\ At(n) \in PathLevels
        /\ At(n).path = SubSeq(p, 1, n) /\ At(n).resource = ResourceAt(SubSeq(p, 1, n))
        /\ EdgeOf(SubSeq(p, 1, n + 1)) = EdgeAt(At(n).resource, k)
        /\ ResourceAt(SubSeq(p, 1, n + 1)) = Beyond(At(n).resource, k)
    BY <1>2, <1>4, <2>1
  <2>3. EdgeOf(SubSeq(p, 1, (n + 1) + 1)) # None
    <3>1. SubSeq(p, 1, n + 1) \in Seq(Keys) /\ p[(n + 1) + 1] \in Keys
          /\ SubSeq(p, 1, (n + 1) + 1) = Append(SubSeq(p, 1, n + 1), p[(n + 1) + 1])
          /\ SubSeq(p, 1, (n + 1) + 1) \in in.tree
      BY <1>1, <2>1, PrefixesAsked
    <3>2. SubSeq(p, 1, (n + 1) + 1) # <<>>
      BY <3>1, AppendFacts
    <3>3. NodeFaults(SubSeq(p, 1, (n + 1) + 1)) = {}
      BY <3>1, <3>2 DEF TreeIsValid
    <3>4. "INVALID_INCLUDE" \in Codes
      BY DEF Codes
    <3>5. QED
      BY <3>3, <3>4 DEF NodeFaults
  <2>4. ResourceAt(SubSeq(p, 1, n + 1)) # None
    <3>1. SubSeq(p, 1, n + 1) \in Seq(Keys) /\ p[(n + 1) + 1] \in Keys
          /\ SubSeq(p, 1, (n + 1) + 1) = Append(SubSeq(p, 1, n + 1), p[(n + 1) + 1])
      BY <1>1, <2>1, PrefixesAsked
    <3>2. QED
      BY <2>3, <3>1, ResourceByStep
  <2>5. k \in Walked(At(n)) /\ ResourceAt(SubSeq(p, 1, n + 1)) = EdgeAt(At(n).resource, k).target
    <3>1. Beyond(At(n).resource, k) # None
      BY <2>2, <2>4
    <3>2. EdgeAt(At(n).resource, k).kind # "computed" /\ Beyond(At(n).resource, k) = EdgeAt(At(n).resource, k).target
      BY <3>1 DEF Beyond
    <3>3. QED
      BY <2>2, <3>2 DEF Walked
  <2>6. PathBelow(At(n), k) = At(n + 1)
    <3>1. SubSeq(p, 1, n + 1) = Append(SubSeq(p, 1, n), k)
      BY <1>1, <2>1, PrefixesAsked
    <3>2. QED
      BY <2>2, <2>5, <3>1 DEF PathBelow
  <2> HIDE DEF At
  <2>7. At(n + 1) \in PathLevels
    BY <2>2, <2>5, <2>6, WalkedFacts
  <2>8. IncludePathsFrom[At(n + 1)] \subseteq IncludePathsFrom[At(n)]
    BY <2>2, <2>5, <2>6, PathsOfLevel
  <2>9. QED
    BY <1>4, <2>1, <2>7, <2>8
<1>5. L - 1 \in T
  <2> HIDE DEF T
  <2>1. L - 1 \in Nat
    BY <1>1
  <2>2. 0..(L - 1) \subseteq T
    BY <1>3, <1>4, <2>1, IntervalByStep
  <2>3. QED
    BY <2>1, <2>2
<1> HIDE DEF T
<1>6. PICK n : n = L - 1
  OBVIOUS
<1>7. n \in 0..(L - 1) /\ n \in T /\ n + 1 = L
  BY <1>1, <1>5, <1>6
<1>8. /\ p[n + 1] \in Includable(At(n)) /\ At(n) \in PathLevels /\ At(n).path = SubSeq(p, 1, n)
      /\ IncludePathsFrom[At(n)] \subseteq IncludePaths
  BY <1>2, <1>7 DEF T
<1>9. Append(At(n).path, p[n + 1]) = p
  <2>1. Append(SubSeq(p, 1, n), p[n + 1]) = p
    BY <1>1, <1>7, PrefixesAsked
  <2>2. QED
    BY <1>8, <2>1
<1>10. PICK l, k : l = At(n) /\ k = p[n + 1]
  OBVIOUS
<1>11. l \in PathLevels /\ k \in Includable(l) /\ Append(l.path, k) = p
  BY <1>8, <1>9, <1>10
<1>12. p \in IncludePathsFrom[l]
  BY <1>11, PathsOfLevel
<1>13. QED
  BY <1>8, <1>10, <1>12

-----------------------------------------------------------------------------
\* A client path that is wrong is one that is not published, or one too many.
LEMMA FaultIsUnusable ==
    ASSUME in \in Inputs, NoArgsNorExcludes, NEW p \in in.tree \ {<<>>}, NodeFaults(p) # {}
    PROVE  ~Usable(p) \/ Cardinality(in.tree) - 1 > in.opts.MaxNodes
<1>1. ArgsAt(p) = NoArgs
  BY DEF NoArgsNorExcludes
<1>2. ASSUME EdgeOf(p) # None PROVE ArgsValid(EdgeOf(p), ArgsAt(p))
  BY <1>1 DEF ArgsValid, NoArgs
<1>3. Len(p) \in Nat /\ in.opts.MaxDepth \in Nat
  BY CallFacts, LenProperties
<1>4. QED
  BY <1>2, <1>3 DEF NodeFaults, Usable

\* A call without args and excludes that build rejects has such a path.
LEMMA RejectedForAPath ==
    ASSUME PlanInv, RejectedByBuild
    PROVE  \/ \E p \in in.tree \ {<<>>} : ~Usable(p)
           \/ Cardinality(in.tree) - 1 > in.opts.MaxNodes
<1>1. /\ phase = "rejected" /\ NoArgsNorExcludes /\ error.code # "INCLUDE_TOO_EXPENSIVE"
      /\ in \in Inputs
  BY DEF RejectedByBuild, PlanInv
<1>2. Deserves(error.code, error.path)
  BY <1>1 DEF PlanInv
<1>3. FaultyExcludesOf(built) = {}
  <2>1. Len(in.exclude) = 0
    BY <1>1, EmptySeq DEF NoArgsNorExcludes
  <2>2. QED
    BY <2>1 DEF FaultyExcludesOf
<1>4. ~TreeIsValid
  BY <1>1, <1>2, <1>3 DEF Deserves
<1>5. ArgsAt(<<>>) = NoArgs
  BY <1>1, CallFacts DEF NoArgsNorExcludes
<1>6. PICK p \in in.tree \ {<<>>} : NodeFaults(p) # {}
  BY <1>4, <1>5 DEF TreeIsValid
<1>7. QED
  BY <1>1, <1>6, FaultIsUnusable

\* The include paths a client is told of are those it may use: a tree of them is
\* planned unless it is too large, and no other tree is (IncludePaths against
\* ResolvePlan).
THEOREM PublishedPathsServe == Spec => []PublishedPathsAreServed
<1>1. ASSUME PlanInv PROVE PublishedPathsAreServed
  <2>1. in \in Inputs
    BY <1>1 DEF PlanInv
  <2>2. ASSUME Built PROVE in.tree \ {<<>>} \subseteq IncludePaths
    <3>1. TreeIsValid
      BY <1>1, <2>2, ValidOnceBuilt DEF Built
    <3>2. QED
      BY <2>1, <3>1, UsableIsPublished
  <2>3. ASSUME RejectedByBuild, in.tree \ {<<>>} \subseteq IncludePaths
        PROVE  Cardinality(in.tree) - 1 > in.opts.MaxNodes
    BY <1>1, <2>1, <2>3, RejectedForAPath, PublishedIsUsable
  <2>4. QED
    BY <2>2, <2>3 DEF PublishedPathsAreServed
<1>2. QED
  BY <1>1, PlanInvariant, PTL

-----------------------------------------------------------------------------
\* What a level of the schema contributes, and the levels inlined below it.
SchemaOwn == [l \in SchemaLevels |->
                 {[path |-> Append(l.path, k), is |-> SchemaForEdge(l, k)] : k \in Present(l)}]
SchemaOnward == [l \in SchemaLevels |-> {LevelBelow(l, k) : k \in Inlined(l)}]
SchemaEntries == [path : Seq(Keys), is : Descriptions]

\* What is at a key of a level, and the level inlined there.
LEMMA PresentFacts ==
    ASSUME in \in Inputs, NEW l \in SchemaLevels, NEW k \in Present(l)
    PROVE  /\ l.path \in Seq(Keys) /\ l.resource \in Resources /\ k \in Keys
           /\ l.seen \in SUBSET Resources
           /\ k \in Range(in.graph.defaults[l.resource]) \cup ClientKeys(l.path)
           /\ [path |-> Append(l.path, k), is |-> SchemaForEdge(l, k)] \in SchemaEntries
           /\ k \in Inlined(l) => /\ EdgeAt(l.resource, k) \in Edge
                                  /\ EdgeAt(l.resource, k).kind # "computed"
                                  /\ LevelBelow(l, k) \in SchemaLevels
<1> DEFINE e == EdgeAt(l.resource, k)
           q == Append(l.path, k)
<1>1. l.path \in Seq(Keys) /\ l.resource \in Resources /\ l.seen \in SUBSET Resources
  BY DEF SchemaLevels
<1>2. k \in Range(Ordered(l.path, l.resource)) /\ ~LeftOut(l, k)
  BY DEF Present
<1>3. k \in Range(in.graph.defaults[l.resource]) \cup ClientKeys(l.path)
  BY <1>1, <1>2, OrderedFacts
<1>4. k \in Keys
  <2>1. Range(in.graph.defaults[l.resource]) \subseteq Keys
    BY <1>1, CallFacts, RangeOfSeq
  <2>2. QED
    BY <1>3, <2>1 DEF ClientKeys
<1>5. q \in Seq(Keys)
  BY <1>1, <1>4, AppendFacts
<1>6. SchemaForEdge(l, k) \in Descriptions
  BY DEF SchemaForEdge, Descriptions
<1>7. ASSUME k \in Inlined(l)
      PROVE  e \in Edge /\ e.kind # "computed" /\ LevelBelow(l, k) \in SchemaLevels
  <2>1. SchemaForEdge(l, k) = "object"
    BY <1>7 DEF Inlined
  <2>2. e.kind # "computed" /\ (FromClient(q) => e # None /\ e.includable)
    BY <2>1 DEF SchemaForEdge
  <2>3. e # None
    BY <1>2, <2>2 DEF LeftOut
  <2>4. e \in Edge
    BY <1>1, <1>4, <2>3, CallFacts DEF EdgeAt
  <2>5. e.target \in Resources
    BY <2>4 DEF Edge
  <2>6. LevelBelow(l, k) \in SchemaLevels
    BY <1>1, <1>5, <2>5 DEF LevelBelow, SchemaLevels
  <2>7. QED
    BY <2>2, <2>4, <2>6
<1>8. QED
  BY <1>1, <1>3, <1>4, <1>5, <1>6, <1>7 DEF SchemaEntries

\* SchemaForNode is such a recursion.
LEMMA SchemaCollected ==
    ASSUME in \in Inputs
    PROVE  Collects(SchemaForNode, SchemaLevels, SchemaOwn, SchemaOnward)
<1> DEFINE Own(l) == {[path |-> Append(l.path, k), is |-> SchemaForEdge(l, k)] : k \in Present(l)}
<1>1. ASSUME NEW l \in SchemaLevels
      PROVE  /\ Own(l) \in SUBSET SchemaEntries
             /\ {LevelBelow(l, k) : k \in Inlined(l)} \in SUBSET SchemaLevels
  <2>1. \A k \in Present(l) : [path |-> Append(l.path, k), is |-> SchemaForEdge(l, k)] \in SchemaEntries
    BY PresentFacts
  <2>2. Inlined(l) \subseteq Present(l)
    BY DEF Inlined
  <2>3. \A k \in Inlined(l) : LevelBelow(l, k) \in SchemaLevels
    BY <2>2, PresentFacts
  <2>4. QED
    BY <2>1, <2>3
<1>2. /\ SchemaOwn \in [SchemaLevels -> SUBSET SchemaEntries]
      /\ SchemaOnward \in [SchemaLevels -> SUBSET SchemaLevels]
  BY <1>1, Zenon DEF SchemaOwn, SchemaOnward
<1>3. PICK f : Collects(f, SchemaLevels, SchemaOwn, SchemaOnward)
  BY <1>2, CollectExists
<1> DEFINE Steps(g) == g = [l \in SchemaLevels |->
               Own(l) \cup UNION {g[LevelBelow(l, k)] : k \in Inlined(l)}]
<1>4. ASSUME NEW g PROVE Steps(g) <=> Collects(g, SchemaLevels, SchemaOwn, SchemaOnward)
  <2>1. ASSUME NEW l \in SchemaLevels
        PROVE  SchemaOwn[l] \cup UNION {g[t] : t \in SchemaOnward[l]}
                   = Own(l) \cup UNION {g[LevelBelow(l, k)] : k \in Inlined(l)}
    <3>1. SchemaOwn[l] = Own(l) /\ SchemaOnward[l] = {LevelBelow(l, k) : k \in Inlined(l)}
      BY DEF SchemaOwn, SchemaOnward
    <3>2. UNION {g[t] : t \in {LevelBelow(l, k) : k \in Inlined(l)}}
              = UNION {g[LevelBelow(l, k)] : k \in Inlined(l)}
      OBVIOUS
    <3> HIDE DEF Own
    <3>3. QED
      BY <3>1, <3>2, Zenon
  <2> HIDE DEF Own
  <2>2. QED
    BY <2>1, Zenon DEF Collects
<1>5. \E g : Steps(g)
  BY <1>3, <1>4
<1>6. SchemaForNode = CHOOSE g : Steps(g)
  BY DEF SchemaForNode
<1> HIDE DEF Steps
<1>7. Steps(SchemaForNode)
  BY <1>5, <1>6
<1>8. QED
  BY <1>4, <1>7

\* A level describes its own keys and what is inlined below them.
LEMMA SchemaOfLevel ==
    ASSUME in \in Inputs, NEW l \in SchemaLevels, NEW k \in Present(l)
    PROVE  /\ [path |-> Append(l.path, k), is |-> SchemaForEdge(l, k)] \in SchemaForNode[l]
           /\ k \in Inlined(l) => SchemaForNode[LevelBelow(l, k)] \subseteq SchemaForNode[l]
<1>1. SchemaForNode[l] = SchemaOwn[l] \cup UNION {SchemaForNode[t] : t \in SchemaOnward[l]}
  BY SchemaCollected DEF Collects
<1>2. [path |-> Append(l.path, k), is |-> SchemaForEdge(l, k)] \in SchemaOwn[l]
  BY DEF SchemaOwn
<1>3. k \in Inlined(l) => LevelBelow(l, k) \in SchemaOnward[l]
  BY DEF SchemaOnward
<1>4. QED
  BY <1>1, <1>2, <1>3

\* The recursion ends: a client key goes deeper into a finite tree, and a default
\* takes one more of finitely many resources onto the chain.
LEMMA SchemaDescribesNoMore ==
    ASSUME in \in Inputs, NEW G \in SUBSET SchemaLevels, NEW R,
           \A l \in G : SchemaOwn[l] \subseteq R /\ SchemaOnward[l] \subseteq G
    PROVE  \A l \in G : SchemaForNode[l] \subseteq R
<1>1. PICK D \in Nat : \A p \in in.tree : Len(p) <= D
  <2>1. in.tree \in SUBSET Seq(Keys) /\ IsFiniteSet(in.tree)
    BY CallFacts
  <2>2. QED
    BY <2>1, LengthsBounded
<1> DEFINE above(n) == IF n <= D THEN D - n ELSE 0
           open(l) == Resources \ l.seen
           m == [l \in G |-> above(Len(l.path)) + Cardinality(open(l))]
<1>2. ASSUME NEW l \in SchemaLevels
      PROVE  /\ Len(l.path) \in Nat /\ l.path \in Seq(Keys) /\ IsFiniteSet(open(l))
             /\ Cardinality(open(l)) \in Nat /\ above(Len(l.path)) \in Nat
  <2>1. l.path \in Seq(Keys) /\ Len(l.path) \in Nat
    BY LenProperties DEF SchemaLevels
  <2>2. IsFiniteSet(open(l)) /\ Cardinality(open(l)) \in Nat
    BY ResourcesAssumption, FS_Subset, FS_CardinalityType
  <2>3. QED
    BY <2>1, <2>2
<1>3. m \in [G -> Nat] /\ \A l \in G : m[l] = above(Len(l.path)) + Cardinality(open(l))
  <2>1. \A l \in G : above(Len(l.path)) + Cardinality(open(l)) \in Nat
    <3> HIDE DEF above, open
    <3>1. QED
      BY <1>2
  <2>2. QED
    BY <2>1
<1>4. ASSUME NEW l \in G, NEW k \in Inlined(l), LevelBelow(l, k) \in G
      PROVE  m[LevelBelow(l, k)] < m[l]
  <2> DEFINE t == LevelBelow(l, k)
             q == Append(l.path, k)
             e == EdgeAt(l.resource, k)
  <2>1. /\ k \in Present(l) /\ l \in SchemaLevels /\ t \in SchemaLevels
    BY <1>4 DEF Inlined
  <2>2. /\ l.path \in Seq(Keys) /\ k \in Keys /\ e \in Edge /\ e.kind # "computed"
        /\ e.target \in Resources
    BY <1>4, <2>1, PresentFacts DEF Edge
  <2>3. t.path = q /\ Len(q) = Len(l.path) + 1 /\ Len(l.path) \in Nat
    BY <2>2, AppendFacts DEF LevelBelow
  <2>4. above(Len(q)) <= above(Len(l.path))
    BY <2>3
  <2>5. /\ IsFiniteSet(open(l)) /\ Cardinality(open(l)) \in Nat /\ Cardinality(open(t)) \in Nat
        /\ above(Len(l.path)) \in Nat /\ above(Len(q)) \in Nat
        /\ m[t] = above(Len(q)) + Cardinality(open(t)) /\ m[l] = above(Len(l.path)) + Cardinality(open(l))
    <3> HIDE DEF above, open, m, t, q
    <3>1. m[t] = above(Len(t.path)) + Cardinality(open(t)) /\ m[l] = above(Len(l.path)) + Cardinality(open(l))
      BY <1>3, <1>4 DEF t
    <3>2. above(Len(t.path)) \in Nat
      BY <1>2, <2>1
    <3>3. QED
      BY <1>2, <2>1, <2>3, <3>1, <3>2
  <2>6. CASE FromClient(q)
    <3>1. t.seen = l.seen
      BY <2>6 DEF LevelBelow
    <3>2. q \in in.tree
      BY <2>6 DEF FromClient
    <3>3. above(Len(q)) < above(Len(l.path))
      <4>1. Len(q) <= D
        BY <1>1, <3>2
      <4> HIDE DEF q
      <4>2. QED
        BY <2>3, <4>1
    <3>4. open(t) = open(l)
      BY <3>1
    <3> HIDE DEF above, open, m, t, q
    <3>5. QED
      BY <2>5, <3>3, <3>4 DEF t
  <2>7. CASE ~FromClient(q)
    <3>1. t.seen = l.seen \cup {e.target}
      BY <2>7 DEF LevelBelow
    <3>2. e.target \notin l.seen
      <4>1. ~LeftOut(l, k) /\ e # None
        BY <2>1, <2>2, NoneAssumption DEF Present
      <4>2. QED
        BY <2>2, <2>7, <4>1 DEF LeftOut
    <3>3. open(t) = open(l) \ {e.target} /\ e.target \in open(l)
      BY <2>2, <3>1, <3>2
    <3>4. Cardinality(open(t)) = Cardinality(open(l)) - 1
      <4>1. PICK S : S = open(l)
        OBVIOUS
      <4>2. PICK x : x = e.target
        OBVIOUS
      <4>3. Cardinality(S \ {x}) = Cardinality(S) - 1
        <5> HIDE DEF open
        <5>1. IsFiniteSet(S) /\ x \in S
          BY <2>5, <3>3, <4>1, <4>2
        <5>2. QED
          BY <5>1, FS_RemoveElement
      <4>4. QED
        BY <3>3, <4>1, <4>2, <4>3
    <3> HIDE DEF above, open, m, t, q
    <3>5. QED
      BY <2>4, <2>5, <3>4 DEF t
  <2>8. QED
    BY <2>6, <2>7
<1>5. ASSUME NEW l \in G
      PROVE  SchemaOwn[l] \subseteq R /\ SchemaOnward[l] \subseteq G /\ \A t \in SchemaOnward[l] : m[t] < m[l]
  <2>1. SchemaOnward[l] = {LevelBelow(l, k) : k \in Inlined(l)}
    BY DEF SchemaOnward
  <2> HIDE DEF m
  <2>2. QED
    BY <1>4, <2>1
<1> HIDE DEF m
<1>6. Collects(SchemaForNode, SchemaLevels, SchemaOwn, SchemaOnward)
  BY SchemaCollected
<1>7. QED
  BY <1>3, <1>5, <1>6, CollectsNoMore

-----------------------------------------------------------------------------
\* The level of the schema at a path of the plan.
LevelOf(p) == [path |-> p, resource |-> ResourceAt(p), seen |-> DefaultChain(p)]

\* The level inlined below a level is that of the path one key longer.
LEMMA LevelOfBelow ==
    ASSUME in \in Inputs, NEW p \in Seq(Keys), LevelOf(p) \in SchemaLevels, NEW k \in Inlined(LevelOf(p))
    PROVE  /\ LevelBelow(LevelOf(p), k) = LevelOf(Append(p, k))
           /\ LevelOf(Append(p, k)) \in SchemaLevels
           /\ SchemaForNode[LevelOf(Append(p, k))] \subseteq SchemaForNode[LevelOf(p)]
<1> DEFINE q == Append(p, k)
           r == ResourceAt(p)
<1>1. PICK l : l = LevelOf(p)
  OBVIOUS
<1>2. l.path = p /\ l.resource = r /\ l.seen = DefaultChain(p) /\ l \in SchemaLevels /\ k \in Inlined(l)
  BY <1>1 DEF LevelOf
<1>3. k \in Present(l)
  BY <1>2 DEF Inlined
<1>4. /\ r \in Resources /\ k \in Keys /\ EdgeAt(r, k) \in Edge /\ EdgeAt(r, k).kind # "computed"
      /\ LevelBelow(l, k) \in SchemaLevels
  BY <1>2, <1>3, PresentFacts
<1>5. ResourceAt(q) = EdgeAt(r, k).target
  BY <1>4, ResourceByStep, NoneAssumption DEF Beyond
<1>6. DefaultChain(q) = DefaultChain(p) \cup (IF FromClient(q) THEN {} ELSE {ResourceAt(q)})
  BY <1>4, ChainByStep
<1>7. LevelBelow(l, k) = LevelOf(q)
  BY <1>2, <1>5, <1>6 DEF LevelBelow, LevelOf
<1>8. SchemaForNode[LevelBelow(l, k)] \subseteq SchemaForNode[l]
  BY <1>2, <1>3, SchemaOfLevel
<1>9. QED
  BY <1>1, <1>4, <1>7, <1>8

\* The schema begins at the root's level.
LEMMA SchemaBegins ==
    ASSUME in \in Inputs
    PROVE  LevelOf(<<>>) \in SchemaLevels /\ Schema = SchemaForNode[LevelOf(<<>>)]
<1>1. <<>> \in Seq(Keys) /\ in.root \in Resources /\ ResourceAt(<<>>) = in.root
  BY EmptySeq, CallFacts, ResourceByStep
<1>2. DefaultChain(<<>>) = {in.root}
  <2>1. 1..Len(<<>>) = {}
    BY EmptySeq
  <2>2. QED
    BY <2>1 DEF DefaultChain
<1>3. LevelOf(<<>>) = [path |-> <<>>, resource |-> in.root, seen |-> {in.root}]
  BY <1>1, <1>2 DEF LevelOf
<1>4. {in.root} \in SUBSET Resources
  BY <1>1
<1>5. LevelOf(<<>>) \in SchemaLevels
  <2>1. PICK p, r, c : p = <<>> /\ r = in.root /\ c = {in.root}
    OBVIOUS
  <2>2. p \in Seq(Keys) /\ r \in Resources /\ c \in SUBSET Resources
    BY <1>1, <1>4, <2>1
  <2>3. [path |-> p, resource |-> r, seen |-> c] \in SchemaLevels
    BY <2>2 DEF SchemaLevels
  <2>4. QED
    BY <1>3, <2>1, <2>3
<1>6. Schema = SchemaForNode[LevelOf(<<>>)]
  BY <1>3 DEF Schema
<1>7. QED
  BY <1>5, <1>6

\* A schema without an error has every client path usable.
LEMMA NoErrorIsUsable ==
    ASSUME in \in Inputs, \A s \in Schema : s.is # "error", NEW p \in in.tree \ {<<>>}
    PROVE  EdgeOf(p) # None /\ EdgeOf(p).includable
<1> DEFINE L == Len(p)
           a(n) == SubSeq(p, 1, n)
           T == {n \in 0..(L - 1) :
                    LevelOf(a(n)) \in SchemaLevels /\ SchemaForNode[LevelOf(a(n))] \subseteq Schema}
<1>1. p \in Seq(Keys) /\ L \in Nat \ {0} /\ p \in in.tree /\ a(L) = p
  <2>1. p \in Seq(Keys)
    BY CallFacts
  <2>2. QED
    BY <2>1, FrontFacts, SubSeqFull
<1>2. ASSUME NEW n \in 0..(L - 1), n \in T
      PROVE  /\ EdgeOf(a(n + 1)) # None /\ EdgeOf(a(n + 1)).includable
             /\ ClientKeys(a(n + 1)) # {} => /\ LevelOf(a(n + 1)) \in SchemaLevels
                                             /\ SchemaForNode[LevelOf(a(n + 1))] \subseteq Schema
  <2>1. PICK b, k, q : b = a(n) /\ k = p[n + 1] /\ q = a(n + 1)
    OBVIOUS
  <2>2. b \in Seq(Keys) /\ k \in Keys /\ q = Append(b, k) /\ q \in in.tree
    BY <1>1, <2>1, PrefixesAsked
  <2>3. LevelOf(b) \in SchemaLevels /\ SchemaForNode[LevelOf(b)] \subseteq Schema
    BY <1>2, <2>1
  <2> HIDE DEF a, T
  <2>4. PICK l : l = LevelOf(b)
    OBVIOUS
  <2>5. l.path = b /\ l.resource = ResourceAt(b) /\ l.resource \in Resources
    BY <2>3, <2>4 DEF LevelOf, SchemaLevels
  <2>6. ResourceAt(b) # None /\ EdgeOf(q) = EdgeAt(l.resource, k)
    BY <2>2, <2>5, NoneAssumption, ResourceByStep
  <2>7. FromClient(q) /\ k \in ClientKeys(b)
    BY <2>2 DEF FromClient, ClientKeys
  <2>8. k \in Present(l)
    <3>1. k \in Range(Ordered(b, l.resource))
      BY <2>5, <2>7, OrderedFacts
    <3>2. QED
      BY <2>2, <2>5, <2>7, <3>1 DEF Present, LeftOut
  <2>9. SchemaForEdge(l, k) # "error"
    <3>1. [path |-> q, is |-> SchemaForEdge(l, k)] \in SchemaForNode[l]
      BY <2>2, <2>3, <2>4, <2>5, <2>8, SchemaOfLevel
    <3>2. QED
      BY <2>3, <2>4, <3>1
  <2>10. EdgeOf(q) # None /\ EdgeOf(q).includable
    BY <2>2, <2>5, <2>6, <2>7, <2>9 DEF SchemaForEdge
  <2>11. ASSUME ClientKeys(q) # {}
         PROVE  LevelOf(q) \in SchemaLevels /\ SchemaForNode[LevelOf(q)] \subseteq Schema
    <3>1. SchemaForEdge(l, k) = "object"
      BY <2>2, <2>5, <2>9, <2>11 DEF SchemaForEdge
    <3>2. k \in Inlined(l)
      BY <2>8, <3>1 DEF Inlined
    <3>3. QED
      BY <2>2, <2>3, <2>4, <3>2, LevelOfBelow
  <2>12. QED
    BY <2>1, <2>10, <2>11
<1>3. 0 \in T
  <2>1. a(0) = <<>>
    <3>1. a(0) \in Seq(Keys) /\ Len(a(0)) = 0
      BY <1>1, PrefixFacts
    <3>2. QED
      BY <3>1, EmptySeq
  <2> HIDE DEF a
  <2>2. QED
    BY <1>1, <2>1, SchemaBegins
<1>4. ASSUME NEW n \in 0..((L - 1) - 1), n \in T PROVE n + 1 \in T
  <2>1. n \in 0..(L - 1) /\ n + 1 \in 0..(L - 1)
    BY <1>1
  <2>2. PICK b, k, q : b = a(n + 1) /\ k = p[(n + 1) + 1] /\ q = a((n + 1) + 1)
    OBVIOUS
  <2>3. b \in Seq(Keys) /\ k \in Keys /\ q = Append(b, k) /\ q \in in.tree
    BY <1>1, <2>1, <2>2, PrefixesAsked
  <2>4. ClientKeys(a(n + 1)) # {}
    BY <2>2, <2>3 DEF ClientKeys, FromClient
  <2>5. LevelOf(a(n + 1)) \in SchemaLevels /\ SchemaForNode[LevelOf(a(n + 1))] \subseteq Schema
    BY <1>2, <1>4, <2>1, <2>4
  <2>6. QED
    BY <2>1, <2>5
<1> HIDE DEF T
<1>5. L - 1 \in T
  <2>1. L - 1 \in Nat
    BY <1>1
  <2>2. 0..(L - 1) \subseteq T
    BY <1>3, <1>4, <2>1, IntervalByStep
  <2>3. QED
    BY <2>1, <2>2
<1>6. PICK n : n = L - 1
  OBVIOUS
<1>7. n \in 0..(L - 1) /\ n \in T /\ a(n + 1) = p
  BY <1>1, <1>5, <1>6
<1>8. EdgeOf(a(n + 1)) # None /\ EdgeOf(a(n + 1)).includable
  BY <1>2, <1>7
<1>9. QED
  BY <1>7, <1>8

-----------------------------------------------------------------------------
\* In a plan that is built, what the schema has at a node is what the plan has.
LEMMA PlanIsDescribed ==
    ASSUME in \in Inputs, PlanSoFar(built, <<>>), TreeIsValid,
           NEW p \in DOMAIN built, LevelOf(p) \in SchemaLevels, NEW k \in Keys
    PROVE  /\ k \in Present(LevelOf(p)) <=> Append(p, k) \in DOMAIN built
           /\ k \in Present(LevelOf(p)) =>
                 SchemaForEdge(LevelOf(p), k) = DescribedIn(built, Append(p, k))
           /\ k \in Present(LevelOf(p)) /\ k \notin Inlined(LevelOf(p)) =>
                 \A j \in Keys : Append(Append(p, k), j) \notin DOMAIN built
<1> DEFINE q == Append(p, k)
           r == ResourceAt(p)
           e == EdgeAt(r, k)
<1>1. PICK l : l = LevelOf(p)
  OBVIOUS
<1>2. /\ p \in Seq(Keys) /\ \A x \in DOMAIN built : NodeRight(built, x)
      /\ \A x \in DOMAIN built : \A j \in Keys : Append(x, j) \in DOMAIN built <=> Belongs(x, j)
  <2>1. \A x, j : ~Pending(<<>>, x, j)
    BY DEF Pending
  <2>2. QED
    BY <2>1 DEF PlanSoFar, IsTree
<1>3. l.path = p /\ l.resource = r /\ l.seen = DefaultChain(p) /\ l \in SchemaLevels
  BY <1>1 DEF LevelOf
<1>4. r \in Resources /\ r # None /\ l.path \in Seq(Keys)
  BY <1>3, NoneAssumption DEF SchemaLevels
<1>5. q \in Seq(Keys) /\ q # <<>> /\ Front(q) = p /\ Last(q) = k
  BY <1>2, AppendFacts
<1>6. EdgeOf(q) = e /\ ResourceAt(q) = Beyond(r, k) /\ e \in Edge \cup {None}
  BY <1>2, <1>4, ResourceByStep, BeyondIsPlace
<1>7. \A d \in Seq(Keys) : \A j \in Keys : Contains(d, j) <=> j \in Range(d)
  BY LenProperties DEF Contains, Range
<1>8. in.graph.defaults[r] \in Seq(Keys)
  BY <1>4, CallFacts
<1>9. k \in Present(l) <=> q \in DOMAIN built
  <2>1. k \in Range(Ordered(p, r)) <=> k \in Range(in.graph.defaults[r]) \/ FromClient(q)
    BY <1>4, OrderedFacts DEF ClientKeys
  <2>2. k \in Present(l) <=> (k \in Range(in.graph.defaults[r]) \/ FromClient(q)) /\ ~LeftOut(l, k)
    BY <1>3, <2>1 DEF Present
  <2>3. LeftOut(l, k) <=> ~FromClient(q) /\ (e # None => e.kind # "computed" /\ e.target \in DefaultChain(p))
    BY <1>3 DEF LeftOut
  <2>4. Belongs(p, k) <=> \/ FromClient(q)
                         \/ /\ k \in Range(in.graph.defaults[r]) /\ e # None
                            /\ e.kind # "computed" => e.target \notin DefaultChain(p)
    BY <1>4, <1>6, <1>7, <1>8 DEF Belongs
  <2> HIDE DEF q, r, e
  <2>5. QED
    BY <1>2, <2>2, <2>3, <2>4 DEF q
<1>10. ASSUME k \in Present(l)
       PROVE  /\ SchemaForEdge(l, k) = DescribedIn(built, q)
              /\ k \notin Inlined(l) => \A j \in Keys : Append(q, j) \notin DOMAIN built
  <2>1. q \in DOMAIN built /\ NodeRight(built, q)
    BY <1>2, <1>9, <1>10
  <2>2. built[q].edge = e /\ e \in Edge /\ e # None
    BY <1>5, <1>6, <2>1, NoneAssumption DEF NodeRight
  <2>3. FromClient(q) => e.includable
    BY <1>5, <1>6, <2>1 DEF NodeRight
  <2>4. CASE e.kind = "computed"
    <3>1. ResourceAt(q) = None
      BY <1>6, <2>4 DEF Beyond
    <3>2. \A j \in Keys : EdgeOf(Append(q, j)) = None
      BY <1>5, <3>1, ResourceByStep
    <3>3. \A j \in Keys : ~FromClient(Append(q, j))
      <4>1. ASSUME NEW j \in Keys, FromClient(Append(q, j)) PROVE FALSE
        <5>1. Append(q, j) \in in.tree \ {<<>>}
          BY <1>5, <4>1, AppendFacts DEF FromClient
        <5>2. NodeFaults(Append(q, j)) = {} /\ EdgeOf(Append(q, j)) = None
          BY <3>2, <5>1 DEF TreeIsValid
        <5>3. QED
          BY <5>2 DEF NodeFaults, Codes
      <4>2. QED
        BY <4>1
    <3>4. ClientKeys(q) = {}
      BY <3>3 DEF ClientKeys
    <3>5. \A j \in Keys : Append(q, j) \notin DOMAIN built
      BY <1>2, <2>1, <3>1, <3>3 DEF Belongs
    <3>6. SchemaForEdge(l, k) = "computed"
      BY <1>3, <2>2, <2>3, <2>4, <3>4 DEF SchemaForEdge
    <3>7. DescribedIn(built, q) = "computed"
      BY <2>2, <2>4 DEF DescribedIn
    <3>8. QED
      BY <3>5, <3>6, <3>7
  <2>5. CASE e.kind # "computed"
    <3> DEFINE chain == LevelBelow(l, k).seen
               t == e.target
    <3>1. t \in Resources /\ ResourceAt(q) = t /\ t # None
      BY <1>4, <1>6, <2>2, <2>5, NoneAssumption DEF Beyond, Edge
    <3>2. chain = DefaultChain(q)
      <4>1. chain = IF FromClient(q) THEN DefaultChain(p) ELSE DefaultChain(p) \cup {t}
        BY <1>3 DEF LevelBelow
      <4>2. DefaultChain(q) = DefaultChain(p) \cup (IF FromClient(q) THEN {} ELSE {ResourceAt(q)})
        BY <1>2, ChainByStep
      <4>3. QED
        BY <3>1, <4>1, <4>2
    <3>3. in.graph.defaults[t] \in Seq(Keys) /\ Range(in.graph.defaults[t]) \subseteq Keys
      BY <3>1, CallFacts, RangeOfSeq
    <3>4. ASSUME NEW j \in Keys
          PROVE  Append(q, j) \in DOMAIN built <=>
                    \/ FromClient(Append(q, j))
                    \/ /\ j \in Range(in.graph.defaults[t]) /\ EdgeAt(t, j) # None
                       /\ EdgeAt(t, j).kind # "computed" => EdgeAt(t, j).target \notin DefaultChain(q)
      <4>1. EdgeOf(Append(q, j)) = EdgeAt(t, j)
        BY <1>5, <3>1, ResourceByStep
      <4>2. Append(q, j) \in DOMAIN built <=> Belongs(q, j)
        BY <1>2, <2>1
      <4>3. QED
        BY <1>7, <3>1, <3>3, <4>1, <4>2 DEF Belongs
    <3>5. (\E j \in Keys : Append(q, j) \in DOMAIN built)
              <=> ClientKeys(q) # {} \/ HasLiveDefaults(t, chain)
      <4>1. HasLiveDefaults(t, chain) <=>
                \E j \in Keys : /\ j \in Range(in.graph.defaults[t]) /\ EdgeAt(t, j) # None
                                /\ EdgeAt(t, j).kind # "computed" => EdgeAt(t, j).target \notin DefaultChain(q)
        BY <3>2, <3>3 DEF HasLiveDefaults
      <4>2. ClientKeys(q) # {} <=> \E j \in Keys : FromClient(Append(q, j))
        BY DEF ClientKeys
      <4> HIDE DEF q, t, chain
      <4>3. QED
        BY <3>4, <4>1, <4>2
    <3>6. SchemaForEdge(l, k) = IF ClientKeys(q) = {} /\ ~HasLiveDefaults(t, chain) THEN "ref" ELSE "object"
      BY <1>3, <2>2, <2>3, <2>5 DEF SchemaForEdge
    <3>7. DescribedIn(built, q) = IF \E j \in Keys : Append(q, j) \in DOMAIN built THEN "object" ELSE "ref"
      BY <2>2, <2>5 DEF DescribedIn
    <3>8. k \in Inlined(l) <=> SchemaForEdge(l, k) = "object"
      BY <1>10 DEF Inlined
    <3> HIDE DEF q, t, chain
    <3>9. QED
      BY <3>5, <3>6, <3>7, <3>8
  <2>6. QED
    BY <2>4, <2>5
<1>11. QED
  BY <1>1, <1>9, <1>10

\* A tree that is in order is within the limits SchemaFor applies.
LEMMA ValidIsWithinLimits ==
    ASSUME in \in Inputs, TreeIsValid
    PROVE  WithinTreeLimits
<1>1. /\ in.opts.MaxDepth \in Nat /\ in.opts.MaxNodes \in Nat /\ <<>> \in in.tree /\ IsFiniteSet(in.tree)
      /\ \A p \in in.tree : Len(p) \in Nat
  BY CallFacts, LenProperties
<1>2. \A p \in in.tree \ {<<>>} : Len(p) <= in.opts.MaxDepth /\ Cardinality(in.tree) - 1 <= in.opts.MaxNodes
  <2>1. Cardinality(in.tree) \in Nat
    BY <1>1, FS_CardinalityType
  <2>2. ASSUME NEW p \in in.tree \ {<<>>}
        PROVE  Len(p) <= in.opts.MaxDepth /\ Cardinality(in.tree) - 1 <= in.opts.MaxNodes
    <3>1. "INCLUDE_TOO_DEEP" \in Codes /\ "INCLUDE_TOO_DEEP" \notin NodeFaults(p)
      BY DEF TreeIsValid, Codes
    <3>2. ~(Len(p) > in.opts.MaxDepth) /\ ~(Cardinality(in.tree) - 1 > in.opts.MaxNodes)
      BY <3>1 DEF NodeFaults
    <3>3. QED
      BY <1>1, <2>1, <3>2
  <2>3. QED
    BY <2>2
<1>3. Len(<<>>) = 0
  BY EmptySeq
<1>4. CASE in.tree = {<<>>}
  <2>1. Cardinality(in.tree) = 1
    BY <1>4, FS_Singleton
  <2>2. Lim.MaxDepth \in Nat /\ Lim.MaxNodes \in Nat
    BY <1>1 DEF Lim, DefaultLimits
  <2>3. QED
    BY <1>3, <1>4, <2>1, <2>2 DEF WithinTreeLimits
<1>5. CASE in.tree # {<<>>}
  <2>1. PICK p \in in.tree : p # <<>>
    BY <1>1, <1>5
  <2>2. Len(p) <= in.opts.MaxDepth /\ Len(p) # 0
    BY <1>1, <1>2, <2>1, CallFacts, EmptySeq
  <2>3. LimitsGiven
    BY <1>1, <2>1, <2>2 DEF LimitsGiven
  <2>4. QED
    BY <1>1, <1>2, <1>3, <2>1, <2>3 DEF WithinTreeLimits, Lim
<1>6. QED
  BY <1>4, <1>5

\* The schema of a plan that is built is that plan, node by node.
LEMMA SchemaOfPlan ==
    ASSUME in \in Inputs, PlanSoFar(built, <<>>), TreeIsValid
    PROVE  Schema = {[path |-> p, is |-> DescribedIn(built, p)] : p \in DOMAIN built \ {<<>>}}
<1> DEFINE R == {[path |-> p, is |-> DescribedIn(built, p)] : p \in DOMAIN built \ {<<>>}}
           G == {l \in SchemaLevels : l.path \in DOMAIN built /\ l = LevelOf(l.path)}
<1>1. <<>> \in DOMAIN built /\ IsTree(DOMAIN built)
  BY DEF PlanSoFar
<1>2. Schema \subseteq R
  <2>1. ASSUME NEW l \in G PROVE SchemaOwn[l] \subseteq R /\ SchemaOnward[l] \subseteq G
    <3>1. PICK p : p = l.path
      OBVIOUS
    <3>2. p \in DOMAIN built /\ p \in Seq(Keys) /\ l = LevelOf(p) /\ l \in SchemaLevels
      BY <1>1, <3>1 DEF IsTree
    <3>3. ASSUME NEW k \in Present(l)
          PROVE  /\ [path |-> Append(l.path, k), is |-> SchemaForEdge(l, k)] \in R
                 /\ k \in Inlined(l) => LevelBelow(l, k) \in G
      <4>1. PICK q : q = Append(p, k)
        OBVIOUS
      <4>2. k \in Keys
        BY <3>2, PresentFacts
      <4>3. q \in DOMAIN built /\ q # <<>> /\ SchemaForEdge(l, k) = DescribedIn(built, q)
        BY <3>2, <4>1, <4>2, AppendFacts, PlanIsDescribed
      <4>4. k \in Inlined(l) => LevelBelow(l, k) = LevelOf(q) /\ LevelOf(q) \in SchemaLevels
        BY <3>2, <4>1, LevelOfBelow
      <4>5. LevelOf(q).path = q
        BY DEF LevelOf
      <4>6. QED
        BY <3>1, <4>1, <4>3, <4>4, <4>5
    <3>4. /\ SchemaOwn[l] = {[path |-> Append(l.path, k), is |-> SchemaForEdge(l, k)] : k \in Present(l)}
          /\ SchemaOnward[l] = {LevelBelow(l, k) : k \in Inlined(l)} /\ Inlined(l) \subseteq Present(l)
      BY <3>2 DEF SchemaOwn, SchemaOnward, Inlined
    <3> HIDE DEF R, G
    <3>5. QED
      BY <3>3, <3>4
  <2>2. LevelOf(<<>>) \in G
    <3>1. LevelOf(<<>>).path = <<>>
      BY DEF LevelOf
    <3>2. QED
      BY <1>1, <3>1, SchemaBegins
  <2>3. G \in SUBSET SchemaLevels
    OBVIOUS
  <2> HIDE DEF R, G
  <2>4. \A l \in G : SchemaForNode[l] \subseteq R
    BY <2>1, <2>3, SchemaDescribesNoMore
  <2>5. QED
    BY <2>2, <2>4, SchemaBegins
<1>3. ASSUME NEW p \in DOMAIN built \ {<<>>}
      PROVE  [path |-> p, is |-> DescribedIn(built, p)] \in Schema
  <2> DEFINE L == Len(p)
             a(n) == SubSeq(p, 1, n)
             T == {n \in 0..(L - 1) :
                      LevelOf(a(n)) \in SchemaLevels /\ SchemaForNode[LevelOf(a(n))] \subseteq Schema}
  <2>1. /\ p \in Seq(Keys) /\ L \in Nat \ {0} /\ a(L) = p
        /\ \A n \in 0..L : a(n) \in DOMAIN built
    <3>1. p \in Seq(Keys) /\ \A n \in 0..L : a(n) \in DOMAIN built
      BY <1>1 DEF IsTree
    <3>2. QED
      BY <3>1, FrontFacts, SubSeqFull
  <2>2. ASSUME NEW n \in 0..(L - 1)
        PROVE  /\ a(n) \in Seq(Keys) /\ p[n + 1] \in Keys /\ a(n + 1) = Append(a(n), p[n + 1])
    <3>1. n \in 0..L /\ n + 1 \in 0..L /\ n + 1 \in 1..L
      BY <2>1
    <3>2. QED
      BY <2>1, <3>1, PrefixGrows
  <2>3. ASSUME NEW n \in 0..(L - 1), n \in T
        PROVE  /\ [path |-> a(n + 1), is |-> DescribedIn(built, a(n + 1))] \in Schema
               /\ n + 1 \in 0..(L - 1) => n + 1 \in T
    <3>1. PICK b, k, q : b = a(n) /\ k = p[n + 1] /\ q = a(n + 1)
      OBVIOUS
    <3>2. /\ b \in Seq(Keys) /\ k \in Keys /\ q = Append(b, k)
          /\ b \in DOMAIN built /\ q \in DOMAIN built
      <4>1. n \in 0..L /\ n + 1 \in 0..L
        BY <2>1
      <4>2. QED
        BY <2>1, <2>2, <3>1, <4>1
    <3>3. LevelOf(b) \in SchemaLevels /\ SchemaForNode[LevelOf(b)] \subseteq Schema
      BY <2>3, <3>1
    <3>4. /\ k \in Present(LevelOf(b)) /\ SchemaForEdge(LevelOf(b), k) = DescribedIn(built, q)
          /\ k \notin Inlined(LevelOf(b)) => \A j \in Keys : Append(q, j) \notin DOMAIN built
      BY <3>2, <3>3, PlanIsDescribed
    <3>5. LevelOf(b).path = b
      BY DEF LevelOf
    <3>6. [path |-> q, is |-> DescribedIn(built, q)] \in SchemaForNode[LevelOf(b)]
      BY <3>2, <3>3, <3>4, <3>5, SchemaOfLevel
    <3>7. ASSUME n + 1 \in 0..(L - 1)
          PROVE  LevelOf(q) \in SchemaLevels /\ SchemaForNode[LevelOf(q)] \subseteq Schema
      <4>1. PICK j : j = p[(n + 1) + 1]
        OBVIOUS
      <4>2. j \in Keys /\ Append(q, j) \in DOMAIN built
        <5>1. (n + 1) + 1 \in 0..L
          BY <2>1, <3>7
        <5>2. QED
          BY <2>1, <2>2, <3>1, <3>7, <4>1, <5>1
      <4>3. k \in Inlined(LevelOf(b))
        BY <3>4, <4>2
      <4>4. QED
        BY <3>2, <3>3, <4>3, LevelOfBelow
    <3>8. QED
      BY <3>1, <3>3, <3>6, <3>7
  <2>4. 0 \in T
    <3>1. a(0) = <<>>
      <4>1. a(0) \in Seq(Keys) /\ Len(a(0)) = 0
        BY <2>1, PrefixFacts
      <4>2. QED
        BY <4>1, EmptySeq
    <3> HIDE DEF a
    <3>2. QED
      BY <2>1, <3>1, SchemaBegins
  <2> HIDE DEF T
  <2>5. L - 1 \in T
    <3>1. L - 1 \in Nat
      BY <2>1
    <3>2. ASSUME NEW n \in 0..((L - 1) - 1), n \in T PROVE n + 1 \in T
      <4>1. n \in 0..(L - 1) /\ n + 1 \in 0..(L - 1)
        BY <2>1
      <4>2. QED
        BY <2>3, <3>2, <4>1
    <3>3. 0..(L - 1) \subseteq T
      BY <2>4, <3>1, <3>2, IntervalByStep
    <3>4. QED
      BY <3>1, <3>3
  <2>6. PICK n : n = L - 1
    OBVIOUS
  <2>7. n \in 0..(L - 1) /\ n \in T /\ a(n + 1) = p
    BY <2>1, <2>5, <2>6
  <2>8. [path |-> a(n + 1), is |-> DescribedIn(built, a(n + 1))] \in Schema
    BY <2>3, <2>7
  <2>9. QED
    BY <2>7, <2>8
<1>4. QED
  BY <1>2, <1>3

\* The schema recomputed for an include tree is that of the plan: the same nodes,
\* a reference exactly where nothing hangs below, and an error exactly where the
\* planner rejects the tree (SchemaFor against ResolvePlan).
THEOREM SchemaForMirrorsPlan == Spec => []SchemaMirrorsPlan
<1>1. ASSUME PlanInv PROVE SchemaMirrorsPlan
  <2>1. in \in Inputs /\ in.opts.MaxDepth \in Nat /\ in.opts.MaxNodes \in Nat
    BY <1>1, CallFacts DEF PlanInv
  <2>2. ASSUME Built
        PROVE  /\ ~SchemaFails
               /\ Schema = {[path |-> p, is |-> DescribedIn(built, p)] : p \in DOMAIN built \ {<<>>}}
    <3>1. TreeIsValid /\ PlanSoFar(built, <<>>)
      BY <1>1, <2>2, ValidOnceBuilt DEF Built, PlanInv, BuildInv
    <3>2. Schema = {[path |-> p, is |-> DescribedIn(built, p)] : p \in DOMAIN built \ {<<>>}}
      BY <2>1, <3>1, SchemaOfPlan
    <3>3. \A s \in Schema : s.is # "error"
      BY <3>2 DEF DescribedIn
    <3>4. WithinTreeLimits
      BY <1>1, <2>1, <2>2, <3>1, ValidIsWithinLimits DEF PlanInv, BuildInv
    <3>5. QED
      BY <3>2, <3>3, <3>4 DEF SchemaFails
  <2>3. ASSUME RejectedByBuild, LimitsGiven PROVE SchemaFails
    <3>1. SUFFICES ASSUME ~SchemaFails PROVE FALSE
      OBVIOUS
    <3>2. /\ \A s \in Schema : s.is # "error"
          /\ \A p \in in.tree : Len(p) <= in.opts.MaxDepth
          /\ Cardinality(in.tree) - 1 <= in.opts.MaxNodes
      BY <2>3, <3>1 DEF SchemaFails, WithinTreeLimits, Lim
    <3>3. \A p \in in.tree \ {<<>>} : Usable(p)
      BY <2>1, <3>2, NoErrorIsUsable DEF Usable
    <3>4. Cardinality(in.tree) \in Nat
      BY <2>1, CallFacts, FS_CardinalityType
    <3>5. QED
      BY <1>1, <2>1, <2>3, <3>2, <3>3, <3>4, RejectedForAPath
  <2>4. QED
    BY <2>2, <2>3 DEF SchemaMirrorsPlan
<1>2. QED
  BY <1>1, PlanInvariant, PTL
=============================================================================
