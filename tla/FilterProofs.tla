---------------------------- MODULE FilterProofs ----------------------------
(***************************************************************************)
(* What one call of ResolveFilter may cost, and that its verdict, its      *)
(* error and its resolved tree are right, proved for every graph, every    *)
(* tree and all limits.                                                    *)
(*                                                                         *)
(* WorkInv bounds the counters.  VerdictInv adds what the verdict rests    *)
(* on: while the call runs, the positions before the one at hand in        *)
(* document order are legal, resolved and counted.                         *)
(***************************************************************************)
EXTENDS Filter, Induction, SequenceTheorems, TLAPS

MaxDepth == Bound("MaxFilterDepth")
MaxMany == Bound("MaxFilterMany")
MaxNodes == Bound("MaxFilterNodes")
MaxSubqueries == Bound("MaxFilterSubqueries")

\* Only the node that breaks the limit is counted beyond it, and it ends the call.
NodesBounded ==
    /\ nodes \in Nat
    /\ nodes <= MaxNodes + 1
    /\ pc # "done" => nodes <= MaxNodes

\* Between conditions the total is within its limit; on a path it exceeds it by
\* no more than that path's own to-many hops.
TotalBounded ==
    /\ many \in Nat /\ subqueries \in Nat
    /\ many <= MaxMany
    /\ subqueries <= MaxSubqueries + MaxMany
    /\ pc = "resolve" => subqueries <= MaxSubqueries
    /\ pc = "hop" => subqueries <= MaxSubqueries + many

\* A walk stays on a path that is within the depth limit.
WalkBounded ==
    /\ hops \in Seq([key : Keys, quant : Quants, from : Resources, to : Resources])
    /\ Len(hops) <= MaxDepth
    /\ pc = "hop" => /\ Node.kind = "cond"
                     /\ Len(hops) <= Len(Path)
                     /\ Len(Path) <= MaxDepth
                     /\ in.root # Nil

WorkInv ==
    /\ in \in Inputs
    /\ pc \in {"resolve", "hop", "done"}
    /\ at \in DOMAIN in.filter
    /\ NodesBounded
    /\ TotalBounded
    /\ WalkBounded

-----------------------------------------------------------------------------
\* Every limit in force is a positive number.
LEMMA BoundsArePositive ==
    ASSUME in \in Inputs
    PROVE  /\ MaxDepth \in Nat \ {0} /\ MaxMany \in Nat \ {0}
           /\ MaxNodes \in Nat \ {0} /\ MaxSubqueries \in Nat \ {0}
<1>1. in.limits \in [Bounds -> Nat]
  BY InputsAssumption DEF IsInput
<1>2. QED
  BY <1>1, LimitsAssumption DEF Bounds, Bound, MaxDepth, MaxMany, MaxNodes, MaxSubqueries

\* The limits are those of the call and do not move.
LEMMA BoundsAreFixed ==
    ASSUME UNCHANGED in
    PROVE  /\ MaxDepth' = MaxDepth /\ MaxMany' = MaxMany
           /\ MaxNodes' = MaxNodes /\ MaxSubqueries' = MaxSubqueries
BY DEF Bound, MaxDepth, MaxMany, MaxNodes, MaxSubqueries

\* A condition's path is a sequence of steps.
LEMMA PathsAreSequences ==
    ASSUME in \in Inputs, at \in DOMAIN in.filter, Node.kind = "cond"
    PROVE  /\ Path \in Seq([key : Keys, quant : Quants])
           /\ Len(Path) \in Nat
<1>1. IsInput(in)
  BY InputsAssumption
<1>2. Path \in Seq([key : Keys, quant : Quants])
  <2> DEFINE f == in.filter
  <2>1. f[at].kind = "cond" => f[at].path \in Seq([key : Keys, quant : Quants])
    BY <1>1 DEF IsInput
  <2>2. QED
    BY <2>1 DEF Node, Path
<1>3. QED
  BY <1>2

\* Where a walk stands is a resource, and the edge it may cross leads to one.
LEMMA CrossingLeadsOn ==
    ASSUME WorkInv, Crossing
    PROVE  /\ Current \in Resources
           /\ Step \in [key : Keys, quant : Quants]
           /\ EdgeHere \in Edge
           /\ EdgeHere.target # "nowhere" => EdgeHere.target \in Resources
<1> USE DEF Crossing, Hopping
<1>1. pc = "hop" /\ Len(hops) < Len(Path)
  OBVIOUS
<1>2. Path \in Seq([key : Keys, quant : Quants]) /\ Len(Path) \in Nat /\ Len(hops) \in Nat
  BY <1>1, PathsAreSequences DEF WorkInv, WalkBounded
<1>3. Step \in [key : Keys, quant : Quants]
  <2>1. Len(hops) + 1 \in 1..Len(Path)
    BY <1>1, <1>2
  <2>2. QED
    BY <1>2, <2>1, ElementOfSeq DEF Step
<1>4. in.root \in Resources
  BY <1>1, InputsAssumption DEF WorkInv, WalkBounded, IsInput
<1>5. Current \in Resources
  <2>1. CASE hops = <<>>
    BY <2>1, <1>4 DEF Current
  <2>2. CASE hops # <<>>
    <3> DEFINE S == [key : Keys, quant : Quants, from : Resources, to : Resources]
    <3>1. hops \in Seq(S)
      BY DEF WorkInv, WalkBounded
    <3>2. Len(hops) \in 1..Len(hops)
      BY <2>2, <3>1
    <3>3. hops[Len(hops)] \in S
      BY <3>1, <3>2, ElementOfSeq
    <3>4. QED
      BY <2>2, <3>3 DEF Current, Last
  <2>3. QED
    BY <2>1, <2>2
<1>6. EdgeHere \in Edge
  BY <1>3, <1>5, GraphAssumption DEF EdgeHere
<1>7. QED
  BY <1>3, <1>5, <1>6 DEF Traversable, Edge

\* What a resolved position leaves: the same condition's counters, and a position
\* of the tree, the next one or the last.
LEMMA ResolvedMovesOn ==
    ASSUME NEW node, at \in DOMAIN in.filter, Resolved(node)
    PROVE  /\ pc' \in {"resolve", "done"}
           /\ at' \in DOMAIN in.filter
<1>1. CASE Following(at) = Nil
  BY <1>1 DEF Resolved
<1>2. CASE Following(at) # Nil
  <2>1. Following(at) \in DOMAIN in.filter
    BY <1>2 DEF Following
  <2>2. QED
    BY <1>2, <2>1 DEF Resolved
<1>3. QED
  BY <1>1, <1>2

-----------------------------------------------------------------------------
\* The call starts with nothing counted.
LEMMA WorkInit == Init => WorkInv
<1> SUFFICES ASSUME Init PROVE WorkInv
  OBVIOUS
<1>1. in \in Inputs /\ IsInput(in)
  BY InputsAssumption DEF Init
<1>2. at \in DOMAIN in.filter
  BY <1>1 DEF Init, IsInput
<1>3. /\ MaxDepth \in Nat \ {0} /\ MaxMany \in Nat \ {0}
      /\ MaxNodes \in Nat \ {0} /\ MaxSubqueries \in Nat \ {0}
  BY <1>1, BoundsArePositive
<1>4. NodesBounded /\ TotalBounded
  BY <1>3 DEF Init, NodesBounded, TotalBounded
<1>5. WalkBounded
  BY <1>3 DEF Init, WalkBounded
<1>6. QED
  BY <1>1, <1>2, <1>4, <1>5 DEF Init, WorkInv

\* A call that fails keeps its bounds when its counters do.
LEMMA FailKeepsBounds ==
    ASSUME WorkInv,
           pc' = "done", UNCHANGED <<in, at, hops, many>>,
           nodes' \in Nat, nodes' <= MaxNodes + 1,
           subqueries' \in Nat, subqueries' <= MaxSubqueries + MaxMany
    PROVE  WorkInv'
<1>1. /\ MaxDepth' = MaxDepth /\ MaxMany' = MaxMany
      /\ MaxNodes' = MaxNodes /\ MaxSubqueries' = MaxSubqueries
  BY BoundsAreFixed
<1>2. NodesBounded' /\ TotalBounded'
  BY <1>1 DEF WorkInv, NodesBounded, TotalBounded
<1>3. WalkBounded'
  BY <1>1 DEF WorkInv, WalkBounded
<1>4. QED
  BY <1>2, <1>3 DEF WorkInv

\* Visiting a position counts it, and the limit is judged at once.
LEMMA VisitKeepsBounds ==
    ASSUME WorkInv, TooManyNodes \/ Malformed \/ OpenGroup \/ PathTooLong \/ OpenCond
    PROVE  WorkInv'
<1>1. /\ MaxDepth \in Nat /\ MaxMany \in Nat /\ MaxNodes \in Nat /\ MaxSubqueries \in Nat
  BY BoundsArePositive DEF WorkInv
<1>2. /\ nodes' = nodes + 1 /\ subqueries' = subqueries /\ pc = "resolve" /\ in.root # Nil
  BY DEF TooManyNodes, Malformed, OpenGroup, PathTooLong, OpenCond, Visit
<1>3. /\ nodes \in Nat /\ nodes <= MaxNodes /\ many \in Nat /\ many <= MaxMany
      /\ subqueries \in Nat /\ subqueries <= MaxSubqueries
  BY <1>2 DEF WorkInv, NodesBounded, TotalBounded
<1>4. CASE TooManyNodes \/ Malformed \/ PathTooLong
  <2>1. pc' = "done" /\ UNCHANGED <<in, at, hops, many>>
    BY <1>4 DEF TooManyNodes, Malformed, PathTooLong, Fail, FailTooDeep
  <2>2. /\ nodes' \in Nat /\ nodes' <= MaxNodes + 1
        /\ subqueries' \in Nat /\ subqueries' <= MaxSubqueries + MaxMany
    BY <1>1, <1>2, <1>3
  <2>3. QED
    BY <2>1, <2>2, FailKeepsBounds
<1>5. CASE OpenGroup \/ OpenCond
  <2>1. nodes' <= MaxNodes
    BY <1>1, <1>2, <1>3, <1>5 DEF OpenGroup, OpenCond, OverNodes, MaxNodes
  <2>2. UNCHANGED in
    BY <1>5 DEF OpenGroup, OpenCond
  <2>3. /\ MaxDepth' = MaxDepth /\ MaxMany' = MaxMany
        /\ MaxNodes' = MaxNodes /\ MaxSubqueries' = MaxSubqueries
    BY <2>2, BoundsAreFixed
  <2>4. NodesBounded'
    BY <1>1, <1>2, <1>3, <2>1, <2>3 DEF NodesBounded
  <2>5. CASE OpenGroup
    <3>1. pc' \in {"resolve", "done"} /\ at' \in DOMAIN in.filter
      BY <2>5, ResolvedMovesOn DEF OpenGroup, WorkInv
    <3>2. UNCHANGED <<hops, many>>
      BY <2>5 DEF OpenGroup
    <3>3. TotalBounded'
      BY <1>1, <1>2, <1>3, <2>3, <3>1, <3>2 DEF TotalBounded
    <3>4. WalkBounded'
      BY <2>3, <3>1, <3>2 DEF WorkInv, WalkBounded
    <3>5. QED
      BY <2>2, <2>4, <3>1, <3>3, <3>4 DEF WorkInv
  <2>6. CASE OpenCond
    <3>1. pc' = "hop" /\ UNCHANGED at /\ hops' = <<>> /\ many' = 0
      BY <2>6 DEF OpenCond
    <3>2. Node.kind = "cond" /\ Len(Path) <= MaxDepth
      BY <2>6 DEF OpenCond, MaxDepth
    <3>3. TotalBounded'
      BY <1>1, <1>2, <1>3, <2>3, <3>1 DEF TotalBounded
    <3>4. Len(Path) \in Nat
      BY <3>2, PathsAreSequences DEF WorkInv
    <3>5. Node' = Node /\ Path' = Path
      BY <2>2, <3>1 DEF Node, Path
    <3>6. WalkBounded'
      <4>1. /\ hops' \in Seq([key : Keys, quant : Quants, from : Resources, to : Resources])
            /\ Len(hops') = 0
        BY <3>1
      <4>2. QED
        BY <1>1, <1>2, <2>2, <2>3, <3>1, <3>2, <3>4, <3>5, <4>1 DEF WalkBounded
    <3>7. QED
      BY <2>2, <2>4, <3>1, <3>3, <3>6 DEF WorkInv
  <2>7. QED
    BY <1>5, <2>5, <2>6
<1>6. QED
  BY <1>4, <1>5

\* A hop adds at most one to the total, and then one to its path.
LEMMA CrossKeepsBounds ==
    ASSUME WorkInv, TargetMissing \/ Hop
    PROVE  WorkInv'
<1>1. /\ MaxDepth \in Nat /\ MaxMany \in Nat /\ MaxNodes \in Nat /\ MaxSubqueries \in Nat
  BY BoundsArePositive DEF WorkInv
<1>2. Cross /\ Crossing /\ pc = "hop" /\ Len(hops) < Len(Path)
  BY DEF TargetMissing, Hop, Cross, Crossing, Hopping
<1>3. /\ EdgeHere \in Edge /\ Current \in Resources
      /\ Step \in [key : Keys, quant : Quants]
      /\ EdgeHere.target # "nowhere" => EdgeHere.target \in Resources
  BY <1>2, CrossingLeadsOn
<1>4. /\ many \in Nat /\ many <= MaxMany /\ nodes \in Nat /\ nodes <= MaxNodes
      /\ subqueries \in Nat /\ subqueries <= MaxSubqueries + many
  BY <1>2 DEF WorkInv, NodesBounded, TotalBounded
<1>5. /\ Crossed \in {0, 1}
      /\ many + Crossed <= MaxMany
  <2>1. CASE EdgeHere.many
    BY <1>2, <2>1 DEF Cross, Crossed, MaxMany
  <2>2. CASE ~EdgeHere.many
    BY <1>1, <1>4, <2>2 DEF Crossed
  <2>3. QED
    BY <2>1, <2>2
<1>6. nodes' = nodes /\ subqueries' = subqueries + Crossed
  BY <1>2 DEF Cross
<1>7. CASE TargetMissing
  <2>1. pc' = "done" /\ UNCHANGED <<in, at, hops, many>>
    BY <1>7 DEF TargetMissing, Fail
  <2>2. /\ nodes' \in Nat /\ nodes' <= MaxNodes + 1
        /\ subqueries' \in Nat /\ subqueries' <= MaxSubqueries + MaxMany
    BY <1>1, <1>4, <1>5, <1>6
  <2>3. QED
    BY <2>1, <2>2, FailKeepsBounds
<1>8. CASE Hop
  <2>1. UNCHANGED <<in, pc, at>> /\ many' = many + Crossed /\ EdgeHere.target \in Resources
    BY <1>3, <1>8 DEF Hop
  <2>2. /\ MaxDepth' = MaxDepth /\ MaxMany' = MaxMany
        /\ MaxNodes' = MaxNodes /\ MaxSubqueries' = MaxSubqueries
    BY <2>1, BoundsAreFixed
  <2>3. NodesBounded'
    BY <1>1, <1>4, <1>6, <2>2 DEF NodesBounded
  <2>4. TotalBounded'
    BY <1>1, <1>2, <1>4, <1>5, <1>6, <2>1, <2>2 DEF TotalBounded
  <2>5. WalkBounded'
    <3> DEFINE S == [key : Keys, quant : Quants, from : Resources, to : Resources]
               hop == [key |-> Step.key, quant |-> Step.quant, from |-> Current, to |-> EdgeHere.target]
    <3>1. hop \in S
      BY <1>3, <2>1
    <3>2. hops' = Append(hops, hop) /\ hops \in Seq(S)
      BY <1>8 DEF Hop, WorkInv, WalkBounded
    <3>3. hops' \in Seq(S) /\ Len(hops') = Len(hops) + 1 /\ Len(hops) \in Nat
      BY <3>1, <3>2
    <3>4. /\ Node.kind = "cond" /\ Len(Path) \in Nat /\ Len(Path) <= MaxDepth /\ in.root # Nil
      BY <1>2, PathsAreSequences DEF WorkInv, WalkBounded
    <3>5. Node' = Node /\ Path' = Path
      BY <2>1 DEF Node, Path
    <3>6. QED
      BY <1>1, <1>2, <2>1, <2>2, <3>3, <3>4, <3>5 DEF WalkBounded
  <2>6. QED
    BY <2>1, <2>3, <2>4, <2>5 DEF WorkInv
<1>9. QED
  BY <1>7, <1>8

\* A condition whose path is walked resolves only while the total is within its
\* limit.
LEMMA LeafKeepsBounds ==
    ASSUME WorkInv, ResolveCond
    PROVE  WorkInv'
<1>1. /\ MaxDepth \in Nat /\ MaxMany \in Nat /\ MaxNodes \in Nat /\ MaxSubqueries \in Nat
  BY BoundsArePositive DEF WorkInv
<1>2. /\ pc = "hop" /\ UNCHANGED <<in, hops, many, nodes, subqueries>>
  BY DEF ResolveCond, AtLeaf
<1>3. subqueries \in Nat /\ subqueries <= MaxSubqueries
  BY <1>1 DEF ResolveCond, OverSubqueries, MaxSubqueries, WorkInv, TotalBounded
<1>4. pc' \in {"resolve", "done"} /\ at' \in DOMAIN in.filter
  BY ResolvedMovesOn DEF ResolveCond, WorkInv
<1>5. /\ MaxDepth' = MaxDepth /\ MaxMany' = MaxMany
      /\ MaxNodes' = MaxNodes /\ MaxSubqueries' = MaxSubqueries
  BY <1>2, BoundsAreFixed
<1>6. NodesBounded'
  BY <1>1, <1>2, <1>5 DEF WorkInv, NodesBounded
<1>7. TotalBounded'
  BY <1>1, <1>2, <1>3, <1>4, <1>5 DEF WorkInv, TotalBounded
<1>8. WalkBounded'
  BY <1>2, <1>4, <1>5 DEF WorkInv, WalkBounded
<1>9. QED
  BY <1>2, <1>4, <1>6, <1>7, <1>8 DEF WorkInv

\* Every step keeps the bounds.
LEMMA WorkNext == WorkInv /\ [Next]_vars => WorkInv'
<1> SUFFICES ASSUME WorkInv, [Next]_vars PROVE WorkInv'
  OBVIOUS
<1>1. CASE TooManyNodes \/ Malformed \/ OpenGroup \/ PathTooLong \/ OpenCond
  BY <1>1, VisitKeepsBounds
<1>2. CASE TargetMissing \/ Hop
  BY <1>2, CrossKeepsBounds
<1>3. CASE ResolveCond
  BY <1>3, LeafKeepsBounds
<1>4. CASE \/ NoFilter \/ NoRoot \/ NilMember
           \/ UnknownEdge \/ EdgeNotFilterable \/ BadQuantifier \/ TooManyMany
           \/ TooExpensive \/ BadLeaf
  <2>1. pc' = "done" /\ UNCHANGED <<in, at, hops, many, nodes, subqueries>>
    BY <1>4 DEF NoFilter, NoRoot, NilMember, UnknownEdge, EdgeNotFilterable, BadQuantifier,
                TooManyMany, TooExpensive, BadLeaf, Fail, FailTooDeep
  <2>2. /\ nodes' \in Nat /\ nodes' <= MaxNodes + 1
        /\ subqueries' \in Nat /\ subqueries' <= MaxSubqueries + MaxMany
    BY <2>1 DEF WorkInv, NodesBounded, TotalBounded
  <2>3. QED
    BY <2>1, <2>2, FailKeepsBounds
<1>5. CASE UNCHANGED vars
  <2>1. UNCHANGED <<in, pc, at, hops, many, nodes, subqueries>>
    BY <1>5 DEF vars
  <2>2. /\ MaxDepth' = MaxDepth /\ MaxMany' = MaxMany
        /\ MaxNodes' = MaxNodes /\ MaxSubqueries' = MaxSubqueries
    BY <2>1, BoundsAreFixed
  <2>3. Node' = Node /\ Path' = Path
    BY <2>1 DEF Node, Path
  <2>4. QED
    BY <2>1, <2>2, <2>3 DEF WorkInv, NodesBounded, TotalBounded, WalkBounded
<1>6. QED
  BY <1>1, <1>2, <1>3, <1>4, <1>5 DEF Next, Returned

-----------------------------------------------------------------------------
\* ResolveFilter does a bounded amount of work, for every graph, every tree a
\* parser may produce and all limits: one node over the node limit and one path
\* over the tree-wide limit at most (filter.go, resolve and cond).
THEOREM ResolveFilterIsBounded == Spec => []WorkIsBounded
<1>1. WorkInv => WorkIsBounded
  BY DEF WorkInv, NodesBounded, TotalBounded, WalkBounded, WorkIsBounded,
         MaxDepth, MaxMany, MaxNodes, MaxSubqueries
<1>2. QED
  BY <1>1, WorkInit, WorkNext, PTL DEF Spec

-----------------------------------------------------------------------------
\* A position is a sequence of positive numbers; beyond its end its digits are 0.
Positions == Seq(Nat \ {0})
Digit(p, k) == IF k <= Len(p) THEN p[k] ELSE 0

\* A digit is 0 exactly beyond the end.
LEMMA DigitsAreNaturals ==
    ASSUME NEW p \in Positions
    PROVE  /\ Len(p) \in Nat
           /\ \A k \in Nat \ {0} : Digit(p, k) \in Nat /\ (Digit(p, k) # 0 <=> k <= Len(p))
<1>1. Len(p) \in Nat
  BY LenProperties DEF Positions
<1>2. \A k \in 1..Len(p) : p[k] \in Nat \ {0}
  BY ElementOfSeq DEF Positions
<1>3. QED
  BY <1>1, <1>2 DEF Digit

\* One position comes before another when its first differing digit is smaller.
FirstDifference(p, q, k) == /\ Digit(p, k) < Digit(q, k)
                            /\ \A j \in 1..(k - 1) : Digit(p, j) = Digit(q, j)

\* A prefix agrees digit by digit.
LEMMA PrefixByIndex ==
    ASSUME NEW p \in Positions, NEW q \in Positions
    PROVE  IsPrefix(p, q) <=> Len(p) <= Len(q) /\ \A j \in 1..Len(p) : p[j] = q[j]
<1>1. Len(p) \in Nat /\ Len(q) \in Nat
  BY LenProperties DEF Positions
<1>2. SubSeq(p, 1, Len(p)) = p
  BY SubSeqFull DEF Positions
<1>3. ASSUME Len(p) <= Len(q)
      PROVE  SubSeq(q, 1, Len(p)) = p <=> \A j \in 1..Len(p) : p[j] = q[j]
  <2> DEFINE r == SubSeq(q, 1, Len(p))
  <2>1. \A i \in 1..Len(p) : q[i] \in Nat \ {0}
    BY <1>1, <1>3, ElementOfSeq DEF Positions
  <2>2. r \in Positions /\ Len(r) = Len(p) /\ \A i \in 1..Len(p) : r[i] = q[i]
    BY <1>1, <2>1, SubSeqProperties DEF Positions
  <2>3. ASSUME \A j \in 1..Len(p) : p[j] = q[j] PROVE r = p
    BY <2>2, <2>3, SeqEqual DEF Positions
  <2>4. QED
    BY <2>2, <2>3
<1>4. QED
  BY <1>1, <1>2, <1>3 DEF IsPrefix

\* Document order is the order of the first difference.
LEMMA BeforeByDigit ==
    ASSUME NEW p \in Positions, NEW q \in Positions
    PROVE  Before(p, q) <=> \E k \in Nat \ {0} : FirstDifference(p, q, k)
<1>1. Len(p) \in Nat /\ Len(q) \in Nat
  BY DigitsAreNaturals
<1>2. \A k \in Nat \ {0} : /\ Digit(p, k) \in Nat /\ (Digit(p, k) # 0 <=> k <= Len(p))
                           /\ Digit(q, k) \in Nat /\ (Digit(q, k) # 0 <=> k <= Len(q))
  BY DigitsAreNaturals
<1>3. ASSUME IsStrictPrefix(p, q) PROVE FirstDifference(p, q, Len(p) + 1)
  <2>1. p # q /\ Len(p) <= Len(q) /\ \A j \in 1..Len(p) : p[j] = q[j]
    BY <1>3, PrefixByIndex DEF IsStrictPrefix
  <2>2. Len(p) < Len(q)
    BY <1>1, <2>1, SeqEqual DEF Positions
  <2>3. Digit(p, Len(p) + 1) < Digit(q, Len(p) + 1)
    BY <1>1, <1>2, <2>2
  <2>4. \A j \in 1..((Len(p) + 1) - 1) : Digit(p, j) = Digit(q, j)
    BY <1>1, <2>1 DEF Digit
  <2>5. QED
    BY <2>3, <2>4 DEF FirstDifference
<1>4. ASSUME NEW k \in 1..Len(p), k <= Len(q), p[k] < q[k], \A j \in 1..(k - 1) : p[j] = q[j]
      PROVE  FirstDifference(p, q, k)
  BY <1>1, <1>4 DEF FirstDifference, Digit
<1>5. ASSUME NEW k \in Nat \ {0}, FirstDifference(p, q, k) PROVE Before(p, q)
  <2>1. k <= Len(q)
    BY <1>2, <1>5 DEF FirstDifference
  <2>2. CASE k <= Len(p)
    <3>1. k \in 1..Len(p) /\ p[k] < q[k] /\ \A j \in 1..(k - 1) : p[j] = q[j]
      BY <1>1, <1>5, <2>1, <2>2 DEF FirstDifference, Digit
    <3>2. QED
      BY <2>1, <3>1 DEF Before
  <2>3. CASE ~(k <= Len(p))
    <3>1. \A j \in 1..Len(p) : p[j] = q[j]
      BY <1>1, <1>5, <2>1, <2>3 DEF FirstDifference, Digit
    <3>2. Len(p) < Len(q)
      BY <1>1, <2>1, <2>3
    <3>3. IsPrefix(p, q) /\ p # q
      BY <1>1, <3>1, <3>2, PrefixByIndex
    <3>4. QED
      BY <3>3 DEF Before, IsStrictPrefix
  <2>4. QED
    BY <2>2, <2>3
<1>6. Len(p) + 1 \in Nat \ {0} /\ \A k \in 1..Len(p) : k \in Nat \ {0}
  BY <1>1
<1>7. Before(p, q) => \E k \in Nat \ {0} : FirstDifference(p, q, k)
  BY <1>3, <1>4, <1>6 DEF Before
<1>8. QED
  BY <1>5, <1>7

\* Document order is a strict total order on positions.
LEMMA BeforeIsAnOrder ==
    /\ \A p \in Positions : ~Before(p, p)
    /\ \A p, q, r \in Positions : Before(p, q) /\ Before(q, r) => Before(p, r)
    /\ \A p, q \in Positions : p # q => Before(p, q) \/ Before(q, p)
<1>1. ASSUME NEW p \in Positions PROVE ~Before(p, p)
  <2>1. \A k \in Nat \ {0} : Digit(p, k) \in Nat
    BY DigitsAreNaturals
  <2>2. QED
    BY <2>1, BeforeByDigit DEF FirstDifference
<1>2. ASSUME NEW p \in Positions, NEW q \in Positions, NEW r \in Positions,
             Before(p, q), Before(q, r)
      PROVE  Before(p, r)
  <2>1. PICK k \in Nat \ {0} : FirstDifference(p, q, k)
    BY <1>2, BeforeByDigit
  <2>2. PICK m \in Nat \ {0} : FirstDifference(q, r, m)
    BY <1>2, BeforeByDigit
  <2>3. \A n \in Nat \ {0} : Digit(p, n) \in Nat /\ Digit(q, n) \in Nat /\ Digit(r, n) \in Nat
    BY DigitsAreNaturals
  <2>4. CASE k <= m
    <3>1. FirstDifference(p, r, k)
      BY <2>1, <2>2, <2>3, <2>4 DEF FirstDifference
    <3>2. QED
      BY <3>1, BeforeByDigit
  <2>5. CASE ~(k <= m)
    <3>1. FirstDifference(p, r, m)
      BY <2>1, <2>2, <2>3, <2>5 DEF FirstDifference
    <3>2. QED
      BY <3>1, BeforeByDigit
  <2>6. QED
    BY <2>4, <2>5
<1>3. ASSUME NEW p \in Positions, NEW q \in Positions, p # q
      PROVE  Before(p, q) \/ Before(q, p)
  <2> DEFINE T == {k \in Nat : k # 0 /\ Digit(p, k) # Digit(q, k)}
  <2>1. /\ Len(p) \in Nat /\ Len(q) \in Nat
        /\ \A k \in Nat \ {0} : /\ Digit(p, k) \in Nat /\ (Digit(p, k) # 0 <=> k <= Len(p))
                                /\ Digit(q, k) \in Nat /\ (Digit(q, k) # 0 <=> k <= Len(q))
    BY DigitsAreNaturals
  <2>2. T # {}
    <3>1. CASE Len(p) = Len(q)
      <4>1. PICK k \in 1..Len(p) : p[k] # q[k]
        BY <1>3, <2>1, <3>1, SeqEqual DEF Positions
      <4>2. k \in Nat /\ k # 0 /\ k <= Len(p) /\ k <= Len(q)
        BY <2>1, <3>1, <4>1
      <4>3. k \in T
        BY <4>1, <4>2 DEF Digit
      <4>4. QED
        BY <4>3
    <3>2. CASE Len(p) < Len(q)
      <4>1. Len(q) \in T
        BY <2>1, <3>2
      <4>2. QED
        BY <4>1
    <3>3. CASE Len(q) < Len(p)
      <4>1. Len(p) \in T
        BY <2>1, <3>3
      <4>2. QED
        BY <4>1
    <3>4. QED
      BY <2>1, <3>1, <3>2, <3>3
  <2>3. PICK k \in T : \A m \in T : k <= m
    <3>1. T \in SUBSET Nat
      OBVIOUS
    <3> HIDE DEF T
    <3>2. QED
      BY <2>2, <3>1, LeastNatural
  <2>4. \A j \in 1..(k - 1) : Digit(p, j) = Digit(q, j)
    BY <2>3
  <2>5. k \in Nat \ {0} /\ Digit(p, k) # Digit(q, k) /\ Digit(p, k) \in Nat /\ Digit(q, k) \in Nat
    BY <2>1, <2>3
  <2>6. FirstDifference(p, q, k) \/ FirstDifference(q, p, k)
    BY <2>4, <2>5 DEF FirstDifference
  <2>7. QED
    BY <2>5, <2>6, BeforeByDigit
<1>4. QED
  BY <1>1, <1>2, <1>3

-----------------------------------------------------------------------------
Seen == {p \in DOMAIN in.filter : Before(p, at)}

\* A finite set of positions has a first one.
LEMMA FirstPosition ==
    ASSUME NEW R \in SUBSET Positions, IsFiniteSet(R), R # {}
    PROVE  \E q \in R : \A o \in R : ~Before(o, q)
<1> DEFINE Ahead(q) == {o \in R : Before(o, q)}
           Sizes == {Cardinality(Ahead(q)) : q \in R}
<1>1. \A q \in R : IsFiniteSet(Ahead(q)) /\ Cardinality(Ahead(q)) \in Nat
  BY FS_Subset, FS_CardinalityType
<1>2. PICK n \in Sizes : \A m \in Sizes : n <= m
  <2>1. Sizes \in SUBSET Nat /\ Sizes # {}
    BY <1>1
  <2> HIDE DEF Sizes
  <2>2. QED
    BY <2>1, LeastNatural
<1>3. PICK q \in R : n = Cardinality(Ahead(q))
  BY <1>2
<1>4. ASSUME NEW o \in R, Before(o, q) PROVE FALSE
  <2>1. Ahead(o) \subseteq Ahead(q) /\ o \in Ahead(q) /\ o \notin Ahead(o)
    BY <1>4, BeforeIsAnOrder
  <2>2. Cardinality(Ahead(o)) <= Cardinality(Ahead(q)) /\ Cardinality(Ahead(o)) # Cardinality(Ahead(q))
    <3> DEFINE A == Ahead(o)
               B == Ahead(q)
    <3>1. IsFiniteSet(B) /\ A \in SUBSET B /\ A # B
      BY <1>1, <2>1
    <3> HIDE DEF A, B
    <3>2. Cardinality(A) <= Cardinality(B) /\ Cardinality(A) # Cardinality(B)
      BY <3>1, FS_Subset
    <3>3. QED
      BY <3>2 DEF A, B
  <2>3. n <= Cardinality(Ahead(o))
    BY <1>2
  <2>4. Cardinality(Ahead(o)) \in Nat /\ Cardinality(Ahead(q)) \in Nat
    BY <1>1
  <2> HIDE DEF Ahead
  <2>5. QED
    BY <1>3, <2>2, <2>3, <2>4
<1>5. QED
  BY <1>4

\* Following is the next position in document order.
LEMMA FollowingIsNext ==
    ASSUME in \in Inputs, at \in DOMAIN in.filter
    PROVE  /\ at \notin Seen
           /\ Following(at) = Nil => DOMAIN in.filter = Seen \cup {at}
           /\ Following(at) # Nil =>
                 /\ Following(at) \in DOMAIN in.filter
                 /\ {p \in DOMAIN in.filter : Before(p, Following(at))} = Seen \cup {at}
<1> DEFINE D == DOMAIN in.filter
           rest == {q \in D : Before(at, q)}
           next == {q \in rest : \A o \in rest : ~Before(o, q)}
<1>1. D \subseteq Positions /\ IsFiniteSet(D) /\ Nil \notin D
  BY InputsAssumption, GraphAssumption DEF IsInput, Positions
<1>2. at \notin Seen /\ D = Seen \cup {at} \cup rest /\ rest \subseteq D
  BY <1>1, BeforeIsAnOrder DEF Seen
<1>3. rest # {} => next # {}
  <2>1. rest \in SUBSET Positions /\ IsFiniteSet(rest)
    BY <1>1, FS_Subset
  <2> HIDE DEF rest
  <2>2. QED
    BY <2>1, FirstPosition
<1>4. CASE next = {}
  <2>1. Following(at) = Nil
    BY <1>4 DEF Following
  <2>2. QED
    BY <1>2, <1>3, <1>4, <2>1
<1>5. CASE next # {}
  <2> DEFINE q == CHOOSE x \in next : TRUE
  <2>1. Following(at) = q /\ q \in next
    BY <1>5 DEF Following
  <2>2. q \in D /\ Before(at, q) /\ q # Nil
    BY <1>1, <2>1
  <2>3. ASSUME NEW p \in D PROVE Before(p, q) <=> p \in Seen \cup {at}
    <3>1. CASE p \in rest
      <4>1. ~Before(p, q)
        BY <2>1, <3>1
      <4>2. p \notin Seen /\ p # at
        BY <1>1, <3>1, BeforeIsAnOrder DEF Seen
      <4>3. QED
        BY <4>1, <4>2
    <3>2. CASE p \notin rest
      <4>1. p \in Seen \cup {at}
        BY <1>2, <3>2
      <4>2. Before(p, q)
        BY <1>1, <2>2, <4>1, BeforeIsAnOrder DEF Seen
      <4>3. QED
        BY <4>1, <4>2
    <3>3. QED
      BY <3>1, <3>2
  <2>4. Seen \cup {at} \subseteq D
    BY DEF Seen
  <2> HIDE DEF q, next, rest
  <2>5. QED
    BY <1>2, <2>1, <2>2, <2>3, <2>4
<1>6. QED
  BY <1>4, <1>5

\* Where a step leads from a place.
Onward(path, n, r) ==
    LET e == IF r \in Resources THEN Edges[r][path[n].key] ELSE Nil
    IN  IF e = Nil THEN Nil
        ELSE IF e.filterable /\ e.target \in Resources THEN e.target ELSE Nil

\* The first n steps of a path have places, one step after the other.
Walked(g, path, n) ==
    g = [k \in 0..n |-> IF k = 0 THEN in.root ELSE Onward(path, k, g[k - 1])]

-----------------------------------------------------------------------------
\* Each place of a path is one step on from the one before it.
LEMMA PlaceByStep ==
    ASSUME NEW path, Len(path) \in Nat
    PROVE  /\ Place(path, 0) = in.root
           /\ \A k \in 1..Len(path) : Place(path, k) = Onward(path, k, Place(path, k - 1))
<1> DEFINE L == Len(path)
           Done == {n \in 0..L : \E g : Walked(g, path, n)}
<1>1. 0 \in Done
  <2> DEFINE g == [k \in 0..0 |-> in.root]
  <2>1. Walked(g, path, 0)
    BY DEF Walked
  <2>2. QED
    BY <2>1
<1>2. ASSUME NEW n \in 0..(L - 1), n \in Done PROVE n + 1 \in Done
  <2>1. PICK g : Walked(g, path, n)
    BY <1>2
  <2> DEFINE h == [k \in 0..(n + 1) |-> IF k = 0 THEN in.root ELSE Onward(path, k, g[k - 1])]
  <2>2. \A k \in 0..n : h[k] = g[k]
    BY <2>1 DEF Walked
  <2>3. ASSUME NEW k \in 0..(n + 1)
        PROVE  h[k] = IF k = 0 THEN in.root ELSE Onward(path, k, h[k - 1])
    <3>1. CASE k = 0
      BY <3>1
    <3>2. CASE k # 0
      <4>1. k - 1 \in 0..n
        BY <3>2
      <4>2. h[k - 1] = g[k - 1]
        BY <2>2, <4>1
      <4>3. QED
        BY <3>2, <4>2
    <3>3. QED
      BY <3>1, <3>2
  <2>4. Walked(h, path, n + 1)
    BY <2>3 DEF Walked
  <2>5. QED
    BY <2>4
<1>3. L \in Done
  <2> HIDE DEF Done
  <2>1. 0..L \subseteq Done
    BY <1>1, <1>2, IntervalByStep
  <2>2. QED
    BY <2>1
<1>4. PICK g : Walked(g, path, L)
  BY <1>3
<1> DEFINE place == CHOOSE f : Walked(f, path, L)
<1>5. Walked(place, path, L)
  BY <1>4
<1>6. \A k \in 0..L : Place(path, k) = place[k]
  BY DEF Place, Walked, Onward
<1>7. ASSUME NEW k \in 1..L PROVE Place(path, k) = Onward(path, k, Place(path, k - 1))
  <2>1. k \in 0..L /\ k - 1 \in 0..L /\ k # 0
    OBVIOUS
  <2>2. place[k] = Onward(path, k, place[k - 1])
    BY <1>5, <2>1 DEF Walked
  <2>3. QED
    BY <1>6, <2>1, <2>2
<1>8. place[0] = in.root
  <2>1. 0 \in 0..L
    OBVIOUS
  <2> HIDE DEF place
  <2>2. QED
    BY <1>5, <2>1 DEF Walked
<1>9. QED
  BY <1>6, <1>7, <1>8

-----------------------------------------------------------------------------
Weights == [p \in DOMAIN in.filter |-> ToManyOf(p)]

\* What the verdict says of a tree depends on the tree alone.
LEMMA TreeIsFixed ==
    ASSUME UNCHANGED in, NEW p, NEW S
    PROVE  /\ LegalNode(p)' = LegalNode(p) /\ LegalPart(S)' = LegalPart(S)
           /\ ToManyHops(S)' = ToManyHops(S)
<1>1. ToManyHops(S)' = ToManyHops(S)
  BY DEF ToManyHops, ToManyOf, ToMany, EdgeOf, Place
<1>2. LegalNode(p)' = LegalNode(p)
  BY DEF LegalNode, IsEmpty, LegalCond, LegalPath, ToMany, EdgeOf, Place, Bound
<1>3. LegalPart(S)' = LegalPart(S)
  BY DEF LegalPart, ToManyHops, ToManyOf, LegalNode, IsEmpty, LegalCond, LegalPath, ToMany, EdgeOf,
         Place, Bound
<1>4. QED
  BY <1>1, <1>2, <1>3

\* A tree is finite, and its nodes have a number of to-many hops.
LEMMA WeightsAreNaturals ==
    ASSUME in \in Inputs
    PROVE  /\ IsFiniteSet(DOMAIN in.filter)
           /\ Weights \in [DOMAIN in.filter -> Nat]
           /\ \A S : ToManyHops(S) = SumFunctionOnSet(Weights, S)
<1>1. IsInput(in)
  BY InputsAssumption
<1>2. ASSUME NEW p \in DOMAIN in.filter PROVE ToManyOf(p) \in Nat
  <2>1. CASE in.filter[p].kind = "cond"
    <3> DEFINE path == in.filter[p].path
    <3>1. path \in Seq([key : Keys, quant : Quants])
      BY <1>1, <2>1 DEF IsInput
    <3>2. Len(path) \in Nat /\ DOMAIN path = 1..Len(path)
      BY <3>1, LenProperties
    <3>3. IsFiniteSet(DOMAIN path)
      BY <3>2, FS_Interval
    <3>4. ToMany(path) \in SUBSET DOMAIN path
      BY DEF ToMany
    <3> HIDE DEF path
    <3>5. Cardinality(ToMany(path)) \in Nat
      BY <3>3, <3>4, FS_Subset, FS_CardinalityType
    <3>6. QED
      BY <2>1, <3>5 DEF ToManyOf, path
  <2>2. CASE in.filter[p].kind # "cond"
    BY <2>2 DEF ToManyOf
  <2>3. QED
    BY <2>1, <2>2
<1>3. QED
  BY <1>1, <1>2 DEF IsInput, Weights, ToManyHops

\* Part of a legal tree is legal.
LEMMA PartsOfLegalAreLegal ==
    ASSUME in \in Inputs, LegalPart(DOMAIN in.filter), NEW S \in SUBSET DOMAIN in.filter
    PROVE  LegalPart(S)
<1> DEFINE D == DOMAIN in.filter
<1>1. /\ IsFiniteSet(D) /\ Weights \in [D -> Nat]
      /\ ToManyHops(S) = SumFunctionOnSet(Weights, S) /\ ToManyHops(D) = SumFunctionOnSet(Weights, D)
  BY WeightsAreNaturals
<1>2. Cardinality(S) <= Cardinality(D) /\ Cardinality(S) \in Nat /\ Cardinality(D) \in Nat
  BY <1>1, FS_Subset, FS_CardinalityType
<1>3. SumFunctionOnSet(Weights, S) <= SumFunctionOnSet(Weights, D)
  BY <1>1, SumGrows
<1>4. SumFunctionOnSet(Weights, S) \in Nat /\ SumFunctionOnSet(Weights, D) \in Nat
  BY <1>1, SumFacts
<1>5. MaxNodes \in Nat /\ MaxSubqueries \in Nat
  BY BoundsArePositive
<1>6. Cardinality(D) <= MaxNodes /\ ToManyHops(D) <= MaxSubqueries /\ \A p \in D : LegalNode(p)
  BY DEF LegalPart, MaxNodes, MaxSubqueries
<1> HIDE DEF D
<1>7. Cardinality(S) <= MaxNodes /\ ToManyHops(S) <= MaxSubqueries
  BY <1>1, <1>2, <1>3, <1>4, <1>5, <1>6
<1>8. QED
  BY <1>6, <1>7 DEF D, LegalPart, MaxNodes, MaxSubqueries

-----------------------------------------------------------------------------
\* The hops so far are the places of the path, one after the other.
Follows(h, path) ==
    \A k \in 1..Len(h) : /\ h[k].key = path[k].key /\ h[k].quant = path[k].quant
                         /\ h[k].from = Place(path, k - 1)
                         /\ h[k].to = Place(path, k)
                         /\ Place(path, k) \in Resources
                         /\ QuantifierFits(EdgeOf(path, k), path[k].quant)

ManyAmong(n) == {k \in 1..n : EdgeOf(Path, k).many}

\* A resolved node is the one at its position of the tree.
Mirror(p, node) ==
    /\ node.kind = in.filter[p].kind
    /\ node.kind = "cond" =>
          LET c == in.filter[p]
          IN  /\ Len(node.hops) = Len(c.path)
              /\ node.hops \in Seq([key : Keys, quant : Quants, from : Resources, to : Resources])
              /\ Follows(node.hops, c.path)
              /\ node.node = Place(c.path, Len(c.path))
              /\ node.column = Columns[node.node][c.field]

\* While the call runs, what precedes the position is legal, resolved and
\* counted.
RunningInv ==
    /\ err = Nil
    /\ DOMAIN out = Seen
    /\ \A p \in Seen : LegalNode(p) /\ Mirror(p, out[p])
    /\ nodes = Cardinality(Seen) + (IF pc = "hop" THEN 1 ELSE 0)
    /\ subqueries = ToManyHops(Seen) + (IF pc = "hop" THEN many ELSE 0)
    /\ pc = "hop" => Follows(hops, Path) /\ many = Cardinality(ManyAmong(Len(hops)))

VerdictInv ==
    /\ WorkInv
    /\ err \in Error \cup {Nil}
    /\ pc # "done" => RunningInv
    /\ pc = "done" => VerdictIsRight /\ FirstFaultWins /\ ResolvedMirrorsFilter /\ EchoIsBounded

\* What precedes the position is a legal part, and how the position adds to it.
LEMMA SeenIsLegal ==
    ASSUME VerdictInv, pc # "done"
    PROVE  /\ LegalPart(Seen)
           /\ Cardinality(Seen) \in Nat /\ ToManyHops(Seen) \in Nat /\ ToManyOf(at) \in Nat
           /\ Cardinality(Seen \cup {at}) = Cardinality(Seen) + 1
           /\ ToManyHops(Seen \cup {at}) = ToManyHops(Seen) + ToManyOf(at)
<1>1. WorkInv /\ RunningInv /\ in \in Inputs /\ at \in DOMAIN in.filter
  BY DEF VerdictInv, WorkInv
<1>2. /\ IsFiniteSet(DOMAIN in.filter) /\ Weights \in [DOMAIN in.filter -> Nat]
      /\ \A S : ToManyHops(S) = SumFunctionOnSet(Weights, S)
  BY <1>1, WeightsAreNaturals
<1>3. Seen \in SUBSET DOMAIN in.filter /\ at \in (DOMAIN in.filter) \ Seen
  BY <1>1, FollowingIsNext DEF Seen
<1>4. Cardinality(Seen) \in Nat /\ Cardinality(Seen \cup {at}) = Cardinality(Seen) + 1
  <2>1. IsFiniteSet(Seen)
    BY <1>2, <1>3, FS_Subset
  <2>2. QED
    BY <1>3, <2>1, FS_AddElement, FS_CardinalityType
<1>5. Weights[at] = ToManyOf(at) /\ Weights[at] \in Nat
  BY <1>2, <1>3 DEF Weights
<1>6. /\ SumFunctionOnSet(Weights, Seen) \in Nat
      /\ SumFunctionOnSet(Weights, Seen \cup {at}) = SumFunctionOnSet(Weights, Seen) + Weights[at]
  BY <1>2, <1>3, SumFacts
<1>7. ToManyHops(Seen) \in Nat /\ ToManyHops(Seen \cup {at}) = ToManyHops(Seen) + ToManyOf(at)
  BY <1>2, <1>5, <1>6
<1>8. Cardinality(Seen) <= MaxNodes
  <2>1. nodes <= MaxNodes /\ nodes \in Nat /\ MaxNodes \in Nat
    BY <1>1, BoundsArePositive DEF WorkInv, NodesBounded
  <2>2. nodes = Cardinality(Seen) \/ nodes = Cardinality(Seen) + 1
    BY <1>1, <1>4 DEF RunningInv
  <2>3. QED
    BY <1>4, <2>1, <2>2
<1>9. ToManyHops(Seen) <= MaxSubqueries
  <2>1. /\ pc = "resolve" => subqueries <= MaxSubqueries
        /\ pc = "hop" => subqueries <= MaxSubqueries + many
        /\ pc \in {"resolve", "hop"} /\ many \in Nat /\ MaxSubqueries \in Nat
    BY <1>1, BoundsArePositive DEF WorkInv, TotalBounded
  <2>2. subqueries = ToManyHops(Seen) + (IF pc = "hop" THEN many ELSE 0)
    BY <1>1 DEF RunningInv
  <2>3. QED
    BY <1>7, <2>1, <2>2
<1>10. LegalPart(Seen)
  BY <1>1, <1>8, <1>9 DEF LegalPart, RunningInv, MaxNodes, MaxSubqueries
<1>11. QED
  BY <1>4, <1>5, <1>7, <1>10

-----------------------------------------------------------------------------
\* What FirstFaultWins and EchoIsBounded ask of an error.
Narrow == Node.kind = "cond" => /\ Len(Path) <= Bound("MaxFilterDepth")
                                /\ LegalPath(Path)
                                /\ Cardinality(ToMany(Path)) <= Bound("MaxFilterMany")
Blames(e) ==
    /\ ~LegalPart(Seen \cup {at})
    /\ e.code = "FILTER_TOO_EXPENSIVE" =>
          Narrow /\ ToManyHops(Seen \cup {at}) > Bound("MaxFilterSubqueries")
    /\ e.code = "FILTER_TOO_DEEP" => ~Narrow \/ Cardinality(Seen) >= Bound("MaxFilterNodes")
    /\ e.code = "INVALID_FILTER" => ~LegalNode(at) /\ (e.position = at \/ Node.kind = "cond")
KnownAt(r, text) == \/ text \in Keys /\ Edges[r][text] # Nil
                    \/ text \in Fields /\ Columns[r][text] # Nil
Echoes(e) ==
    /\ Len(e.path) <= Bound("MaxFilterDepth") + 2
    /\ \A k \in DOMAIN e.path : ~e.path[k].clipped => /\ k <= Len(Path) + 1
                                                      /\ Place(Path, k - 1) # Nil
                                                      /\ KnownAt(Place(Path, k - 1), e.path[k].text)

\* A call that fails reports the first fault when its error blames the position
\* the call is at.
LEMMA Refuses ==
    ASSUME VerdictInv, pc # "done", WorkInv', pc' = "done", UNCHANGED <<in, at>>,
           NEW e \in Error, err' = e, in.root # Nil => Blames(e), Echoes(e)
    PROVE  VerdictInv'
<1>1. Seen' = Seen /\ Node' = Node /\ Path' = Path
  BY DEF Seen, Node, Path
<1>2. in \in Inputs /\ LegalPart(Seen) /\ Seen \cup {at} \subseteq DOMAIN in.filter
  BY SeenIsLegal DEF VerdictInv, WorkInv, Seen
<1>3. e # Nil
  BY GraphAssumption
<1>4. VerdictIsRight'
  <2>1. in.root # Nil => ~LegalPart(DOMAIN in.filter)
    BY <1>2, PartsOfLegalAreLegal DEF Blames
  <2>2. LegalPart(DOMAIN in.filter)' = LegalPart(DOMAIN in.filter)
    BY DEF LegalPart, ToManyHops, ToManyOf, LegalNode, IsEmpty, LegalCond, LegalPath, ToMany, EdgeOf,
           Place, Bound
  <2>3. QED
    BY <1>3, <2>1, <2>2 DEF VerdictIsRight
<1>5. FirstFaultWins'
  <2> SUFFICES ASSUME Refused', in.root # Nil
               PROVE  /\ LegalPart(Seen)' /\ (~LegalPart(Seen \cup {at}))'
                      /\ e.code = "FILTER_TOO_EXPENSIVE" =>
                            Narrow' /\ (ToManyHops(Seen \cup {at}) > Bound("MaxFilterSubqueries"))'
                      /\ e.code = "FILTER_TOO_DEEP" =>
                            ~Narrow' \/ (Cardinality(Seen) >= Bound("MaxFilterNodes"))'
                      /\ e.code = "INVALID_FILTER" =>
                            (~LegalNode(at))' /\ (e.position = at \/ Node.kind = "cond")
    BY <1>1 DEF FirstFaultWins, Seen, Narrow
  <2>1. /\ LegalPart(Seen)' = LegalPart(Seen)
        /\ LegalPart(Seen \cup {at})' = LegalPart(Seen \cup {at})
        /\ ToManyHops(Seen \cup {at})' = ToManyHops(Seen \cup {at})
        /\ LegalNode(at)' = LegalNode(at)
    <3> DEFINE S == Seen
               T == Seen \cup {at}
    <3>1. S' = S /\ T' = T
      BY <1>1
    <3>2. QED
      BY <1>1, TreeIsFixed DEF LegalPart, ToManyHops, ToManyOf, LegalNode, IsEmpty, LegalCond, LegalPath,
           ToMany, EdgeOf, Place, Bound
  <2>2. Narrow' = Narrow
    BY <1>1 DEF Narrow, LegalPath, ToMany, EdgeOf, Place, Bound
  <2>3. (Cardinality(Seen) >= Bound("MaxFilterNodes"))' = (Cardinality(Seen) >= Bound("MaxFilterNodes"))
    BY <1>1 DEF Bound
  <2>4. (ToManyHops(Seen \cup {at}) > Bound("MaxFilterSubqueries"))'
            = (ToManyHops(Seen \cup {at}) > Bound("MaxFilterSubqueries"))
    BY <1>1, <2>1 DEF Bound
  <2>5. QED
    BY <1>2, <2>1, <2>2, <2>3, <2>4 DEF Blames
<1>6. EchoIsBounded'
  <2>1. ASSUME NEW k PROVE Place(Path, k)' = Place(Path, k)
    BY <1>1 DEF Place
  <2>2. Bound("MaxFilterDepth")' = Bound("MaxFilterDepth")
    BY DEF Bound
  <2>3. ASSUME NEW k \in DOMAIN e.path, ~e.path[k].clipped
        PROVE  /\ k <= Len(Path') + 1
               /\ (Place(Path, k - 1) # Nil)'
               /\ KnownAt(Place(Path, k - 1)', e.path[k].text)
    BY <1>1, <2>1, <2>3 DEF Echoes
  <2>4. QED
    BY <2>2, <2>3 DEF EchoIsBounded, Echoes, KnownAt
<1>7. ResolvedMirrorsFilter'
  BY <1>3 DEF ResolvedMirrorsFilter, Accepted
<1>8. QED
  BY <1>4, <1>5, <1>6, <1>7 DEF VerdictInv

\* A step that leaves no place makes a path illegal, and a position that is not
\* legal is to blame.
LEMMA IllegalIsToBlame ==
    ASSUME VerdictInv, pc # "done", ~LegalNode(at), NEW e,
           e.code = "INVALID_FILTER", e.position = at \/ Node.kind = "cond"
    PROVE  Blames(e)
BY DEF Blames, LegalPart

\* An error without a path echoes nothing.
LEMMA NoEcho ==
    ASSUME in \in Inputs, NEW e, e.path = <<>>
    PROVE  Echoes(e)
<1>1. MaxDepth \in Nat
  BY BoundsArePositive
<1>2. QED
  BY <1>1 DEF Echoes, MaxDepth

\* A position that is not a condition to walk.
LEMMA RefusesPosition ==
    ASSUME VerdictInv, WorkInv', NoRoot \/ NilMember \/ TooManyNodes \/ Malformed
    PROVE  VerdictInv'
<1>1. /\ pc = "resolve" /\ pc' = "done" /\ UNCHANGED <<in, at>>
      /\ in \in Inputs /\ IsInput(in) /\ at \in DOMAIN in.filter
  BY InputsAssumption DEF NoRoot, NilMember, TooManyNodes, Malformed, Visit, Fail, VerdictInv, WorkInv
<1>2. at \in Seq(Nat \ {0}) /\ <<>> \in Seq(Nat \ {0}) /\ <<>> \in Seq(Part)
  BY <1>1 DEF IsInput
<1>3. CASE NoRoot
  <2> DEFINE e == [code |-> "INVALID_FILTER", position |-> <<>>, path |-> <<>>, more |-> FALSE]
  <2>1. err' = e /\ e \in Error /\ in.root = Nil
    BY <1>2, <1>3 DEF NoRoot, Fail, Error
  <2>2. Echoes(e)
    BY <1>1, NoEcho
  <2> HIDE DEF e
  <2>3. QED
    BY <1>1, <2>1, <2>2, Refuses
<1>4. CASE NilMember \/ Malformed
  <2> DEFINE e == [code |-> "INVALID_FILTER", position |-> at, path |-> <<>>, more |-> FALSE]
  <2>1. err' = e /\ e \in Error
    BY <1>2, <1>4 DEF NilMember, Malformed, Fail, Error
  <2>2. ~LegalNode(at)
    BY <1>4 DEF NilMember, Malformed, LegalNode, Node, Groups
  <2>3. Blames(e) /\ Echoes(e)
    BY <1>1, <2>2, IllegalIsToBlame, NoEcho
  <2> HIDE DEF e
  <2>4. QED
    BY <1>1, <2>1, <2>3, Refuses
<1>5. CASE TooManyNodes
  <2> DEFINE e == [code |-> "FILTER_TOO_DEEP", position |-> <<>>, path |-> <<>>, more |-> FALSE]
  <2>1. err' = e /\ e \in Error
    BY <1>2, <1>5 DEF TooManyNodes, Fail, Error
  <2>2. nodes + 1 > MaxNodes /\ nodes = Cardinality(Seen) /\ MaxNodes \in Nat
    BY <1>1, <1>5, SeenIsLegal, BoundsArePositive
       DEF TooManyNodes, OverNodes, MaxNodes, VerdictInv, RunningInv
  <2>3. Cardinality(Seen) >= MaxNodes /\ Cardinality(Seen \cup {at}) > MaxNodes
    BY <1>1, <2>2, SeenIsLegal
  <2>4. ~LegalPart(Seen \cup {at})
    <3>1. Cardinality(Seen \cup {at}) \in Nat
      BY <1>1, SeenIsLegal
    <3>2. QED
      BY <2>2, <2>3, <3>1 DEF LegalPart, MaxNodes
  <2>5. Blames(e) /\ Echoes(e)
    BY <1>1, <2>3, <2>4, NoEcho DEF Blames, MaxNodes
  <2> HIDE DEF e
  <2>6. QED
    BY <1>1, <2>1, <2>5, Refuses
<1>6. QED
  BY <1>3, <1>4, <1>5

\* A rejected path is cut to one key more than the depth limit.
LEMMA CutIsShort ==
    ASSUME VerdictInv, Node.kind = "cond", NEW e, e = err', FailTooDeep
    PROVE  e \in Error /\ e.code = "FILTER_TOO_DEEP" /\ Echoes(e)
<1> DEFINE L == Len(Path)
           n == Bound("MaxFilterDepth") + 1
           m == IF L < n THEN L ELSE n
           path == [k \in 1..m |-> Echo(Path[k].key)]
<1>1. /\ Path \in Seq([key : Keys, quant : Quants]) /\ L \in Nat
      /\ Bound("MaxFilterDepth") \in Nat
  BY PathsAreSequences, BoundsArePositive DEF VerdictInv, WorkInv, MaxDepth
<1>2. e = [code |-> "FILTER_TOO_DEEP", position |-> <<>>, path |-> path, more |-> L > n]
  BY DEF FailTooDeep, Truncated
<1>3. m \in Nat /\ m <= n /\ m <= L
  BY <1>1
<1>4. \A k \in 1..m : Echo(Path[k].key) \in Part /\ Echo(Path[k].key).clipped
  <2>1. ASSUME NEW k \in 1..m PROVE Path[k] \in [key : Keys, quant : Quants]
    <3>1. k \in 1..Len(Path)
      BY <1>1, <1>3
    <3>2. QED
      BY <1>1, <3>1, ElementOfSeq
  <2>2. QED
    BY <2>1 DEF Echo, Part
<1> HIDE DEF m
<1>5. path \in Seq(Part) /\ Len(path) = m
  BY <1>3, <1>4
<1>6. e \in Error
  <2>1. <<>> \in Seq(Nat \ {0}) /\ (L > n) \in BOOLEAN
    OBVIOUS
  <2> HIDE DEF path, L, n
  <2>2. QED
    BY <1>2, <1>5, <2>1 DEF Error
<1>7. Echoes(e)
  BY <1>1, <1>2, <1>3, <1>4, <1>5 DEF Echoes
<1>8. QED
  BY <1>2, <1>6, <1>7

-----------------------------------------------------------------------------
\* On a path the walk stands at the place its hops lead to.
LEMMA WalkIsOnThePath ==
    ASSUME VerdictInv, pc = "hop"
    PROVE  /\ Path \in Seq([key : Keys, quant : Quants]) /\ Len(Path) \in Nat
           /\ Len(hops) \in 0..Len(Path)
           /\ Node.kind = "cond" /\ Len(Path) <= Bound("MaxFilterDepth")
           /\ \A k \in 0..Len(hops) : Place(Path, k) \in Resources
           /\ \A k \in 1..Len(hops) : Edges[Place(Path, k - 1)][Path[k].key] # Nil
           /\ Current = Place(Path, Len(hops))
<1>1. WorkInv /\ Follows(hops, Path) /\ in.root # Nil /\ in \in Inputs
  BY DEF VerdictInv, RunningInv, WorkInv, WalkBounded
<1>2. /\ Path \in Seq([key : Keys, quant : Quants]) /\ Len(Path) \in Nat
      /\ Len(hops) <= Len(Path) /\ Node.kind = "cond" /\ Len(Path) <= Bound("MaxFilterDepth")
  BY <1>1, PathsAreSequences DEF WorkInv, WalkBounded, MaxDepth
<1> DEFINE H == [key : Keys, quant : Quants, from : Resources, to : Resources]
<1>3. hops \in Seq(H) /\ Len(hops) \in Nat
  BY <1>1, LenProperties DEF WorkInv, WalkBounded
<1>4. in.root \in Resources
  BY <1>1, InputsAssumption DEF IsInput
<1>5. /\ Place(Path, 0) = in.root
      /\ \A k \in 1..Len(Path) : Place(Path, k) = Onward(Path, k, Place(Path, k - 1))
  BY <1>2, PlaceByStep
<1>6. ASSUME NEW k \in 0..Len(hops) PROVE Place(Path, k) \in Resources
  <2>1. CASE k = 0
    BY <1>4, <1>5, <2>1
  <2>2. CASE k # 0
    <3>1. k \in 1..Len(hops)
      BY <2>2
    <3>2. QED
      BY <1>1, <3>1 DEF Follows
  <2>3. QED
    BY <2>1, <2>2
<1>7. ASSUME NEW k \in 1..Len(hops) PROVE Edges[Place(Path, k - 1)][Path[k].key] # Nil
  <2>1. k \in 0..Len(hops) /\ k - 1 \in 0..Len(hops) /\ k \in 1..Len(Path)
    BY <1>2, <1>3
  <2>2. Place(Path, k - 1) \in Resources /\ Place(Path, k) \in Resources
    BY <1>6, <2>1
  <2>3. Place(Path, k) = Onward(Path, k, Place(Path, k - 1))
    BY <1>5, <2>1
  <2>4. QED
    BY <2>2, <2>3, GraphAssumption DEF Onward
<1>8. Current = Place(Path, Len(hops))
  <2>1. CASE hops = <<>>
    BY <1>5, <2>1 DEF Current
  <2>2. CASE hops # <<>>
    <3>1. Len(hops) \in 1..Len(hops)
      BY <1>3, <2>2, EmptySeq
    <3>2. QED
      BY <1>1, <2>2, <3>1 DEF Follows, Current, Last
  <2>3. QED
    BY <2>1, <2>2
<1>9. QED
  BY <1>2, <1>3, <1>6, <1>7, <1>8

\* The step at hand is the next one of the path, and where it leads is the next
\* place.
LEMMA StepIsOnThePath ==
    ASSUME VerdictInv, Hopping
    PROVE  LET n == Len(hops) + 1
           IN  /\ n \in 1..Len(Path)
               /\ Step = Path[n] /\ Step \in [key : Keys, quant : Quants]
               /\ EdgeHere = EdgeOf(Path, n) /\ EdgeHere \in Edge \cup {Nil}
               /\ Place(Path, n) =
                     IF EdgeHere = Nil THEN Nil
                     ELSE IF EdgeHere.filterable /\ EdgeHere.target \in Resources THEN EdgeHere.target
                     ELSE Nil
<1> DEFINE n == Len(hops) + 1
<1>1. pc = "hop" /\ Len(hops) < Len(Path)
  BY DEF Hopping
<1>2. /\ Path \in Seq([key : Keys, quant : Quants]) /\ Len(Path) \in Nat
      /\ Len(hops) \in 0..Len(Path) /\ Place(Path, Len(hops)) \in Resources
      /\ Current = Place(Path, Len(hops))
  BY <1>1, WalkIsOnThePath
<1>3. n \in 1..Len(Path) /\ n - 1 = Len(hops)
  BY <1>1, <1>2
<1>4. Step = Path[n] /\ Step \in [key : Keys, quant : Quants]
  BY <1>2, <1>3, ElementOfSeq DEF Step
<1>5. EdgeHere = EdgeOf(Path, n)
  BY <1>2, <1>3, <1>4 DEF EdgeHere, EdgeOf
<1>6. EdgeHere \in Edge \cup {Nil}
  BY <1>2, <1>4, GraphAssumption DEF EdgeHere
<1>7. Place(Path, n) = Onward(Path, n, Place(Path, n - 1))
  BY <1>2, <1>3, PlaceByStep
<1>8. Onward(Path, n, Place(Path, n - 1)) =
          IF EdgeHere = Nil THEN Nil
          ELSE IF EdgeHere.filterable /\ EdgeHere.target \in Resources THEN EdgeHere.target ELSE Nil
  BY <1>2, <1>3, <1>4 DEF Onward, EdgeHere
<1>9. QED
  BY <1>3, <1>4, <1>5, <1>6, <1>7, <1>8

\* A condition whose path is illegal is not legal.
LEMMA IllegalPath ==
    ASSUME VerdictInv, pc = "hop", ~LegalPath(Path)
    PROVE  ~LegalNode(at)
BY WalkIsOnThePath DEF LegalNode, LegalCond, Node, Path, Groups

\* Parts of an error path that the graph knows at their place, and one more that
\* is clipped or known too.
KnownParts(path, n) ==
    \A k \in 1..n : path[k] = Whole(Path[k].key) /\ KnownAt(Place(Path, k - 1), Path[k].key)
                    /\ Place(Path, k - 1) # Nil

\* Whole parts that are keys of the path so far may be echoed.
LEMMA KnownIsEchoed ==
    ASSUME VerdictInv, pc = "hop", NEW n \in 0..Len(Path),
           n <= Len(hops) \/ (n = Len(hops) + 1 /\ Hopping /\ EdgeHere # Nil)
    PROVE  /\ Known(n) \in Seq(Part) /\ Len(Known(n)) = n
           /\ KnownParts(Known(n), n)
<1>1. /\ Path \in Seq([key : Keys, quant : Quants]) /\ Len(Path) \in Nat
      /\ Len(hops) \in 0..Len(Path)
      /\ \A k \in 0..Len(hops) : Place(Path, k) \in Resources
      /\ \A k \in 1..Len(hops) : Edges[Place(Path, k - 1)][Path[k].key] # Nil
  BY WalkIsOnThePath
<1>2. \A k \in 1..n : Path[k].key \in Keys
  <2>1. ASSUME NEW k \in 1..n PROVE Path[k].key \in Keys
    <3>1. k \in 1..Len(Path)
      BY <1>1
    <3>2. Path[k] \in [key : Keys, quant : Quants]
      BY <1>1, <3>1, ElementOfSeq
    <3>3. QED
      BY <3>2
  <2>2. QED
    BY <2>1
<1>3. \A k \in 1..n : Whole(Path[k].key) \in Part
  BY <1>2 DEF Whole, Part
<1>4. Known(n) \in Seq(Part) /\ Len(Known(n)) = n
  BY <1>3 DEF Known
<1>5. ASSUME NEW k \in 1..n
      PROVE  /\ Known(n)[k] = Whole(Path[k].key)
             /\ Place(Path, k - 1) # Nil
             /\ KnownAt(Place(Path, k - 1), Path[k].key)
  <2>1. Known(n)[k] = Whole(Path[k].key)
    BY DEF Known
  <2>2. k - 1 \in 0..Len(hops)
    BY <1>1
  <2>3. Place(Path, k - 1) \in Resources /\ Place(Path, k - 1) # Nil
    BY <1>1, <2>2, GraphAssumption
  <2>4. Edges[Place(Path, k - 1)][Path[k].key] # Nil
    <3>1. CASE k <= Len(hops)
      BY <1>1, <3>1
    <3>2. CASE ~(k <= Len(hops))
      <4>1. k = Len(hops) + 1 /\ Hopping /\ EdgeHere # Nil
        BY <1>1, <3>2
      <4>2. EdgeHere = EdgeOf(Path, k)
        BY <4>1, StepIsOnThePath
      <4>3. QED
        BY <4>1, <4>2 DEF EdgeOf
    <3>3. QED
      BY <3>1, <3>2
  <2>5. QED
    BY <1>2, <2>1, <2>3, <2>4 DEF KnownAt
<1>6. QED
  BY <1>4, <1>5 DEF KnownParts

\* Known keys, and at most one clipped part after them, may be echoed.
LEMMA KnownKeysEcho ==
    ASSUME VerdictInv, pc = "hop", NEW n \in 0..Len(Path), NEW e,
           e.path \in Seq(Part), Len(e.path) \in {n, n + 1}, KnownParts(e.path, n),
           Len(e.path) = n + 1 => e.path[n + 1].clipped
    PROVE  Echoes(e)
<1>1. Len(Path) \in Nat /\ Len(Path) <= Bound("MaxFilterDepth") /\ Bound("MaxFilterDepth") \in Nat
  BY WalkIsOnThePath, BoundsArePositive DEF VerdictInv, WorkInv, MaxDepth
<1>2. Len(e.path) <= Bound("MaxFilterDepth") + 2
  BY <1>1
<1>3. ASSUME NEW k \in DOMAIN e.path, ~e.path[k].clipped
      PROVE  /\ k <= Len(Path) + 1
             /\ Place(Path, k - 1) # Nil
             /\ KnownAt(Place(Path, k - 1), e.path[k].text)
  <2>1. k \in 1..Len(e.path)
    BY LenProperties
  <2>2. k \in 1..n
    BY <1>3, <2>1
  <2>3. /\ e.path[k] = Whole(Path[k].key) /\ KnownAt(Place(Path, k - 1), Path[k].key)
        /\ Place(Path, k - 1) # Nil
    <3> DEFINE path == e.path
    <3>1. KnownParts(path, n) /\ k \in 1..n
      BY <2>2
    <3> HIDE DEF path
    <3>2. QED
      BY <3>1 DEF KnownParts, path
  <2>4. e.path[k].text = Path[k].key
    BY <2>3 DEF Whole
  <2>5. QED
    BY <1>1, <2>2, <2>3, <2>4
<1>4. QED
  BY <1>2, <1>3 DEF Echoes

-----------------------------------------------------------------------------
\* A hop that cannot be taken leaves the path illegal, and the error names the
\* keys up to it.
LEMMA RefusesHop ==
    ASSUME VerdictInv, WorkInv',
           UnknownEdge \/ EdgeNotFilterable \/ BadQuantifier \/ TargetMissing
    PROVE  VerdictInv'
<1> DEFINE n == Len(hops) + 1
<1>1. /\ Hopping /\ pc = "hop" /\ pc' = "done" /\ UNCHANGED <<in, at>>
      /\ in \in Inputs
  BY DEF UnknownEdge, EdgeNotFilterable, BadQuantifier, TargetMissing, Cross, Crossing, Hopping, Fail,
         VerdictInv, WorkInv
<1>2. /\ Path \in Seq([key : Keys, quant : Quants]) /\ Len(Path) \in Nat /\ DOMAIN Path = 1..Len(Path)
      /\ Len(hops) \in 0..Len(Path) /\ Node.kind = "cond"
  BY <1>1, WalkIsOnThePath, LenProperties
<1>3. /\ n \in 1..Len(Path) /\ n \in 0..Len(Path) /\ n \in DOMAIN Path
      /\ Step = Path[n] /\ Step \in [key : Keys, quant : Quants]
      /\ EdgeHere = EdgeOf(Path, n) /\ EdgeHere \in Edge \cup {Nil}
      /\ Place(Path, n) =
            IF EdgeHere = Nil THEN Nil
            ELSE IF EdgeHere.filterable /\ EdgeHere.target \in Resources THEN EdgeHere.target ELSE Nil
  BY <1>1, <1>2, StepIsOnThePath
<1>4. ~LegalPath(Path)
  <2>1. CASE BadQuantifier
    BY <1>3, <2>1 DEF BadQuantifier, LegalPath
  <2>2. CASE UnknownEdge \/ EdgeNotFilterable \/ TargetMissing
    <3>1. Place(Path, n) = Nil
      BY <1>3, <2>2, GraphAssumption
         DEF UnknownEdge, EdgeNotFilterable, TargetMissing, Cross, Crossing, Traversable
    <3>2. QED
      BY <1>3, <3>1 DEF LegalPath
  <2>3. QED
    BY <2>1, <2>2
<1>5. ~LegalNode(at)
  BY <1>1, <1>4, IllegalPath
<1>6. ASSUME NEW path \in Seq(Part), NEW m \in 0..Len(Path), Len(path) \in {m, m + 1},
             Len(path) = m + 1 => path[m + 1].clipped, KnownParts(path, m),
             err' = [code |-> "INVALID_FILTER", position |-> <<>>, path |-> path, more |-> FALSE]
      PROVE  VerdictInv'
  <2> DEFINE e == [code |-> "INVALID_FILTER", position |-> <<>>, path |-> path, more |-> FALSE]
  <2>1. <<>> \in Seq(Nat \ {0})
    OBVIOUS
  <2>2. e \in Error /\ err' = e /\ e.code = "INVALID_FILTER" /\ e.path = path
    BY <1>6, <2>1 DEF Error
  <2> HIDE DEF e
  <2>3. Echoes(e)
    BY <1>1, <1>6, <2>2, KnownKeysEcho
  <2>4. Blames(e)
    BY <1>1, <1>2, <1>5, <2>2, IllegalIsToBlame
  <2>5. QED
    BY <1>1, <2>2, <2>3, <2>4, Refuses
<1>7. CASE UnknownEdge
  <2> DEFINE known == Known(Len(hops))
             path == Append(known, Echo(Step.key))
  <2>1. known \in Seq(Part) /\ Len(known) = Len(hops) /\ KnownParts(known, Len(hops))
    BY <1>1, <1>2, KnownIsEchoed
  <2>2. Echo(Step.key) \in Part /\ Echo(Step.key).clipped
    BY <1>3 DEF Echo, Part
  <2>3. err' = [code |-> "INVALID_FILTER", position |-> <<>>, path |-> path, more |-> FALSE]
    BY <1>7 DEF UnknownEdge, Fail
  <2> HIDE DEF known
  <2>4. /\ path \in Seq(Part) /\ Len(path) = Len(hops) + 1
        /\ path[Len(hops) + 1] = Echo(Step.key)
        /\ \A k \in 1..Len(hops) : path[k] = known[k]
    BY <2>1, <2>2, AppendProperties
  <2> HIDE DEF path
  <2>5. KnownParts(path, Len(hops))
    BY <2>1, <2>4 DEF KnownParts
  <2>6. QED
    BY <1>2, <1>6, <2>2, <2>3, <2>4, <2>5
<1>8. CASE EdgeNotFilterable \/ TargetMissing
  <2> DEFINE path == Known(n)
  <2>1. EdgeHere # Nil
    BY <1>8 DEF EdgeNotFilterable, TargetMissing, Cross, Crossing
  <2>2. path \in Seq(Part) /\ Len(path) = n /\ KnownParts(path, n)
    BY <1>1, <1>3, <2>1, KnownIsEchoed
  <2>3. err' = [code |-> "INVALID_FILTER", position |-> <<>>, path |-> path, more |-> FALSE]
    BY <1>8 DEF EdgeNotFilterable, TargetMissing, Fail
  <2> HIDE DEF path
  <2>4. QED
    BY <1>3, <1>6, <2>2, <2>3
<1>9. CASE BadQuantifier
  <2> DEFINE known == Known(n)
             rest == IF Step.quant = Nil THEN <<>> ELSE <<Echo(Step.quant)>>
             path == known \o rest
  <2>1. EdgeHere # Nil
    BY <1>9 DEF BadQuantifier
  <2>2. known \in Seq(Part) /\ Len(known) = n /\ KnownParts(known, n)
    BY <1>1, <1>3, <2>1, KnownIsEchoed
  <2>3. Echo(Step.quant) \in Part /\ Echo(Step.quant).clipped
    BY <1>3 DEF Echo, Part
  <2>4. /\ rest \in Seq(Part) /\ Len(rest) \in {0, 1}
        /\ Len(rest) = 1 => rest[1] = Echo(Step.quant)
    BY <2>3
  <2>5. err' = [code |-> "INVALID_FILTER", position |-> <<>>, path |-> path, more |-> FALSE]
    BY <1>9 DEF BadQuantifier, Fail
  <2>6. n \in Nat
    BY <1>2
  <2> HIDE DEF known, rest, n
  <2>7. /\ path \in Seq(Part) /\ Len(path) = n + Len(rest)
        /\ \A k \in 1..n : path[k] = known[k]
        /\ Len(rest) = 1 => path[n + 1] = rest[1]
    BY <2>2, <2>4, <2>6, ConcatProperties
  <2> HIDE DEF path
  <2>8. KnownParts(path, n)
    BY <2>2, <2>7 DEF KnownParts
  <2>9. Len(path) \in {n, n + 1} /\ (Len(path) = n + 1 => path[n + 1].clipped)
    <3>1. Len(path) = n + 1 => Len(rest) = 1
      BY <2>4, <2>6, <2>7
    <3>2. Len(path) = n + 1 => path[n + 1] = Echo(Step.quant)
      BY <2>4, <2>7, <3>1
    <3>3. Len(path) = n \/ Len(path) = n + 1
      <4>1. Len(path) = n + Len(rest) /\ (Len(rest) = 0 \/ Len(rest) = 1)
        BY <2>4, <2>7
      <4>2. ASSUME NEW a, NEW b, a = n + b, b = 0 \/ b = 1 PROVE a = n \/ a = n + 1
        BY <2>6, <4>2
      <4>3. QED
        BY <4>1, <4>2, Zenon
    <3>4. QED
      BY <2>3, <3>2, <3>3
  <2>10. QED
    BY <1>3, <1>6, <2>5, <2>7, <2>8, <2>9
<1>10. QED
  BY <1>7, <1>8, <1>9
     DEF UnknownEdge, EdgeNotFilterable, BadQuantifier, TargetMissing

\* Over a limit of its own, a condition is too deep.
LEMMA RefusesDeep ==
    ASSUME VerdictInv, WorkInv', PathTooLong \/ TooManyMany
    PROVE  VerdictInv'
<1>1. /\ pc # "done" /\ pc' = "done" /\ UNCHANGED <<in, at>> /\ FailTooDeep /\ Node.kind = "cond"
      /\ in \in Inputs
  BY WalkIsOnThePath
     DEF PathTooLong, TooManyMany, Visit, Crossing, Hopping, FailTooDeep, VerdictInv, WorkInv
<1>2. PICK e : e = err'
  OBVIOUS
<1>3. e \in Error /\ e.code = "FILTER_TOO_DEEP" /\ Echoes(e)
  BY <1>1, <1>2, CutIsShort
<1>4. ~Narrow
  <2>1. CASE PathTooLong
    <3>1. Len(Path) \in Nat /\ Bound("MaxFilterDepth") \in Nat
      BY <1>1, PathsAreSequences, BoundsArePositive DEF VerdictInv, WorkInv, MaxDepth
    <3>2. QED
      BY <1>1, <2>1, <3>1 DEF PathTooLong, Narrow
  <2>2. CASE TooManyMany
    <3> DEFINE n == Len(hops) + 1
    <3>1. Hopping /\ pc = "hop" /\ EdgeHere.many /\ many + 1 > MaxMany /\ MaxMany \in Nat
      BY <1>1, <2>2, BoundsArePositive DEF TooManyMany, Crossing, Hopping, MaxMany
    <3>2. n \in 1..Len(Path) /\ EdgeHere = EdgeOf(Path, n)
      BY <3>1, StepIsOnThePath
    <3>3. Len(hops) \in Nat /\ Len(Path) \in Nat /\ DOMAIN Path = 1..Len(Path)
      BY <3>1, WalkIsOnThePath, LenProperties
    <3>4. IsFiniteSet(ToMany(Path))
      <4>1. IsFiniteSet(1..Len(Path))
        BY <3>3, FS_Interval
      <4>2. ToMany(Path) \in SUBSET (1..Len(Path))
        BY <3>3 DEF ToMany
      <4>3. QED
        BY <4>1, <4>2, FS_Subset
    <3>5. ManyAmong(Len(hops)) \cup {n} \in SUBSET ToMany(Path) /\ n \notin ManyAmong(Len(hops))
      BY <3>1, <3>2, <3>3 DEF ManyAmong, ToMany
    <3>6. IsFiniteSet(ManyAmong(Len(hops)))
      BY <3>4, <3>5, FS_Subset
    <3>7. /\ Cardinality(ManyAmong(Len(hops)) \cup {n}) = Cardinality(ManyAmong(Len(hops))) + 1
          /\ Cardinality(ManyAmong(Len(hops)) \cup {n}) <= Cardinality(ToMany(Path))
          /\ Cardinality(ManyAmong(Len(hops))) \in Nat /\ Cardinality(ToMany(Path)) \in Nat
      BY <3>4, <3>5, <3>6, FS_AddElement, FS_Subset, FS_CardinalityType
    <3>8. many = Cardinality(ManyAmong(Len(hops)))
      BY <3>1 DEF VerdictInv, RunningInv
    <3>9. ~(Cardinality(ToMany(Path)) <= MaxMany)
      BY <3>1, <3>7, <3>8
    <3>10. QED
      BY <1>1, <3>9 DEF Narrow, MaxMany
  <2>3. QED
    BY <2>1, <2>2
<1>5. ~LegalNode(at)
  BY <1>1, <1>4 DEF Narrow, LegalNode, LegalCond, Node, Path, Groups
<1>6. Blames(e)
  BY <1>3, <1>4, <1>5 DEF Blames, LegalPart
<1>7. QED
  BY <1>1, <1>2, <1>3, <1>6, Refuses

\* At the end of a path the condition is legal but for its leaf, and its to-many
\* hops have been counted.
LEMMA WalkedPathIsLegal ==
    ASSUME VerdictInv, AtLeaf
    PROVE  /\ Narrow /\ LegalPath(Path)
           /\ ToManyOf(at) = many
           /\ Current = Place(Path, Len(Path)) /\ Current \in Resources
<1>1. /\ pc = "hop" /\ Len(hops) = Len(Path) /\ Follows(hops, Path)
      /\ many = Cardinality(ManyAmong(Len(hops))) /\ many <= Bound("MaxFilterMany")
  BY DEF AtLeaf, VerdictInv, RunningInv, WorkInv, TotalBounded, MaxMany
<1>2. /\ Path \in Seq([key : Keys, quant : Quants]) /\ Len(Path) \in Nat
      /\ Node.kind = "cond" /\ Len(Path) <= Bound("MaxFilterDepth")
      /\ \A k \in 0..Len(hops) : Place(Path, k) \in Resources
      /\ Current = Place(Path, Len(hops))
  BY <1>1, WalkIsOnThePath
<1>3. DOMAIN Path = 1..Len(Path) /\ Nil \notin Resources
  BY <1>2, LenProperties, GraphAssumption
<1>4. LegalPath(Path)
  BY <1>1, <1>2, <1>3 DEF LegalPath, Follows
<1>5. ToMany(Path) = ManyAmong(Len(hops))
  BY <1>1, <1>3 DEF ToMany, ManyAmong
<1>6. ToManyOf(at) = many
  BY <1>1, <1>2, <1>5 DEF ToManyOf, Node, Path
<1>7. QED
  BY <1>1, <1>2, <1>4, <1>5, <1>6 DEF Narrow

\* The tree-wide limit blames the condition that broke it.
LEMMA RefusesExpensive ==
    ASSUME VerdictInv, WorkInv', TooExpensive
    PROVE  VerdictInv'
<1> DEFINE e == [code |-> "FILTER_TOO_EXPENSIVE", position |-> <<>>, path |-> <<>>, more |-> FALSE]
<1>1. /\ AtLeaf /\ pc = "hop" /\ pc' = "done" /\ UNCHANGED <<in, at>> /\ err' = e
      /\ subqueries > Bound("MaxFilterSubqueries") /\ in \in Inputs
  BY DEF TooExpensive, AtLeaf, Fail, OverSubqueries, VerdictInv, WorkInv
<1>2. Narrow /\ ToManyOf(at) = many
  BY <1>1, WalkedPathIsLegal
<1>3. ToManyHops(Seen \cup {at}) = subqueries
  BY <1>1, <1>2, SeenIsLegal DEF VerdictInv, RunningInv
<1>4. Bound("MaxFilterSubqueries") \in Nat /\ subqueries \in Nat
  BY <1>1, BoundsArePositive DEF MaxSubqueries, VerdictInv, WorkInv, TotalBounded
<1>5. ~LegalPart(Seen \cup {at})
  BY <1>1, <1>3, <1>4 DEF LegalPart
<1>6. e \in Error
  <2>1. <<>> \in Seq(Nat \ {0}) /\ <<>> \in Seq(Part)
    OBVIOUS
  <2>2. QED
    BY <2>1 DEF Error
<1>7. Blames(e) /\ Echoes(e)
  BY <1>1, <1>2, <1>3, <1>5, NoEcho DEF Blames
<1> HIDE DEF e
<1>8. QED
  BY <1>1, <1>6, <1>7, Refuses

\* One or two parts after a sequence of others.
LEMMA OneOrTwoMore ==
    ASSUME NEW S, NEW s \in Seq(S), NEW t \in Seq(S), Len(t) \in {1, 2}
    PROVE  /\ s \o t \in Seq(S) /\ Len(s \o t) \in Nat
           /\ Len(t) = 1 => Len(s \o t) = Len(s) + 1
           /\ Len(t) = 2 => Len(s \o t) = Len(s) + 2
           /\ \A k \in 1..Len(s) : (s \o t)[k] = s[k]
           /\ (s \o t)[Len(s) + 1] = t[1]
           /\ Len(t) = 2 => (s \o t)[Len(s) + 2] = t[2]
<1>1. Len(s) \in Nat
  BY LenProperties
<1>2. /\ s \o t \in Seq(S) /\ Len(s \o t) = Len(s) + Len(t)
      /\ \A i \in 1..Len(s) + Len(t) : (s \o t)[i] = IF i <= Len(s) THEN s[i] ELSE t[i - Len(s)]
  BY ConcatProperties
<1> DEFINE u == s \o t
<1> HIDE DEF u
<1>3. /\ \A i \in 1..Len(s) + Len(t) : u[i] = IF i <= Len(s) THEN s[i] ELSE t[i - Len(s)]
      /\ u \in Seq(S) /\ Len(u) = Len(s) + Len(t)
  BY <1>2 DEF u
<1>4. CASE Len(t) = 1
  BY <1>1, <1>3, <1>4 DEF u
<1>5. CASE Len(t) = 2
  BY <1>1, <1>3, <1>5 DEF u
<1>6. QED
  BY <1>4, <1>5

\* A leaf is refused for its column or its operator, and only a column the graph
\* knows is named whole.
LEMMA RefusesLeaf ==
    ASSUME VerdictInv, WorkInv', BadLeaf
    PROVE  VerdictInv'
<1> DEFINE n == Len(Path)
           known == Known(n)
           path == known \o LeafFault
           e == [code |-> "INVALID_FILTER", position |-> <<>>, path |-> path, more |-> FALSE]
<1>1. /\ AtLeaf /\ pc = "hop" /\ pc' = "done" /\ UNCHANGED <<in, at>> /\ err' = e
      /\ ~Admitted /\ in \in Inputs /\ at \in DOMAIN in.filter /\ Len(hops) = n
  BY DEF BadLeaf, AtLeaf, Fail, VerdictInv, WorkInv
<1>2. Current = Place(Path, n) /\ Current \in Resources /\ Current # Nil
  BY <1>1, WalkedPathIsLegal, GraphAssumption
<1>3. n \in Nat /\ Node.kind = "cond" /\ n <= Bound("MaxFilterDepth") /\ Bound("MaxFilterDepth") \in Nat
  BY <1>1, WalkIsOnThePath, BoundsArePositive DEF MaxDepth
<1>4. ~LegalNode(at)
  BY <1>1, <1>2, <1>3
     DEF LegalNode, LegalCond, Admitted, ColumnHere, Node, Path, Groups
<1>5. Node.field \in Fields /\ Node.op \in Ops
  BY <1>1, <1>3, InputsAssumption DEF IsInput, Node
<1>6. known \in Seq(Part) /\ Len(known) = n /\ KnownParts(known, n)
  BY <1>1, <1>3, KnownIsEchoed
<1> DEFINE field == Whole(Node.field)
<1>7. /\ LeafFault \in Seq(Part) /\ Len(LeafFault) \in {1, 2}
      /\ ~LeafFault[1].clipped => LeafFault[1] = field /\ KnownAt(Current, Node.field)
      /\ Len(LeafFault) = 2 => LeafFault[2].clipped
  <2>1. Echo(Node.field) \in Part /\ Whole(Node.field) \in Part /\ Echo(Node.op) \in Part
    BY <1>5 DEF Echo, Whole, Part
  <2>2. CASE ColumnHere = Nil
    <3>1. LeafFault = <<Echo(Node.field)>>
      BY <2>2 DEF LeafFault
    <3>2. QED
      BY <2>1, <3>1 DEF Echo
  <2>3. CASE ColumnHere # Nil
    <3>1. KnownAt(Current, Node.field)
      BY <1>5, <2>3 DEF KnownAt, ColumnHere
    <3>2. LeafFault = <<Whole(Node.field)>> \/ LeafFault = <<Whole(Node.field), Echo(Node.op)>>
      BY <2>3 DEF LeafFault
    <3>3. Echo(Node.op).clipped
      BY DEF Echo
    <3>4. CASE LeafFault = <<Whole(Node.field)>>
      BY <2>1, <3>1, <3>4
    <3>5. CASE LeafFault = <<Whole(Node.field), Echo(Node.op)>>
      BY <2>1, <3>1, <3>3, <3>5
    <3>6. QED
      BY <3>2, <3>4, <3>5
  <2>4. QED
    BY <2>2, <2>3
<1> HIDE DEF known
<1>8. /\ path \in Seq(Part)
      /\ Len(LeafFault) = 1 => Len(path) = n + 1
      /\ Len(LeafFault) = 2 => Len(path) = n + 2
      /\ \A k \in 1..n : path[k] = known[k]
      /\ path[n + 1] = LeafFault[1]
      /\ Len(LeafFault) = 2 => path[n + 2] = LeafFault[2]
  BY <1>6, <1>7, OneOrTwoMore
<1>9. e \in Error /\ e.path = path
  <2>1. <<>> \in Seq(Nat \ {0})
    OBVIOUS
  <2> HIDE DEF path
  <2>2. QED
    BY <1>8, <2>1 DEF Error
<1>10. Echoes(e)
  <2> HIDE DEF path, e
  <2>1. Len(path) = n + 1 \/ Len(path) = n + 2
    BY <1>7, <1>8
  <2>2. Len(e.path) <= Bound("MaxFilterDepth") + 2
    BY <1>3, <1>9, <2>1
  <2>3. ASSUME NEW k \in 1..Len(path), ~path[k].clipped
        PROVE  /\ k <= n + 1
               /\ Place(Path, k - 1) # Nil
               /\ KnownAt(Place(Path, k - 1), path[k].text)
    <3>1. CASE k \in 1..n
      <4>1. /\ known[k] = Whole(Path[k].key) /\ KnownAt(Place(Path, k - 1), Path[k].key)
            /\ Place(Path, k - 1) # Nil
        BY <1>6, <3>1 DEF KnownParts
      <4>2. path[k] = known[k] /\ path[k].text = Path[k].key
        BY <1>8, <3>1, <4>1 DEF Whole
      <4>3. QED
        BY <1>3, <3>1, <4>1, <4>2
    <3>2. CASE k = n + 1
      <4>1. path[k] = field /\ KnownAt(Current, Node.field) /\ k - 1 = n
        BY <1>3, <1>7, <1>8, <2>3, <3>2
      <4>2. path[k].text = Node.field
        BY <4>1 DEF Whole
      <4>3. QED
        BY <1>2, <1>3, <3>2, <4>1, <4>2
    <3>3. CASE k = n + 2
      <4>1. Len(path) = n + 2 /\ Len(LeafFault) = 2
        <5>1. n + 1 # n + 2 /\ n + 2 <= Len(path) /\ ~(n + 2 <= n + 1)
          BY <1>3, <2>3, <3>3
        <5>2. Len(path) = n + 2
          BY <2>1, <5>1
        <5>3. QED
          BY <1>7, <1>8, <5>1, <5>2
      <4>2. QED
        BY <1>7, <1>8, <2>3, <3>3, <4>1
    <3>4. QED
      BY <1>3, <2>1, <3>1, <3>2, <3>3
  <2>4. DOMAIN path = 1..Len(path)
    BY <1>8, LenProperties
  <2>5. QED
    BY <1>9, <2>2, <2>3, <2>4 DEF Echoes
<1>11. Blames(e)
  BY <1>1, <1>3, <1>4, IllegalIsToBlame
<1> HIDE DEF e
<1>12. QED
  BY <1>1, <1>9, <1>10, <1>11, Refuses

-----------------------------------------------------------------------------
\* Places, and what a resolved node mirrors, depend on the tree alone.
LEMMA PlacesAreFixed ==
    ASSUME UNCHANGED in, NEW path, NEW k
    PROVE  Place(path, k)' = Place(path, k) /\ EdgeOf(path, k)' = EdgeOf(path, k)
BY DEF EdgeOf, Place

\* A node keeps mirroring its position.
LEMMA MirrorIsFixed ==
    ASSUME UNCHANGED in, NEW p, NEW node
    PROVE  Mirror(p, node)' = Mirror(p, node)
BY DEF Mirror, Follows, EdgeOf, Place

\* The whole tree is legal, or not, as long as it is the tree of the call.
LEMMA WholeTreeIsFixed ==
    ASSUME UNCHANGED in
    PROVE  /\ LegalPart(DOMAIN in.filter)' = LegalPart(DOMAIN in.filter)
           /\ ToManyHops(DOMAIN in.filter)' = ToManyHops(DOMAIN in.filter)
<1>1. LegalPart(DOMAIN in.filter)' = LegalPart(DOMAIN in.filter)
  BY DEF LegalPart, ToManyHops, ToManyOf, LegalNode, IsEmpty, LegalCond, LegalPath, ToMany, EdgeOf,
         Place, Bound
<1>2. ToManyHops(DOMAIN in.filter)' = ToManyHops(DOMAIN in.filter)
  BY DEF ToManyHops, ToManyOf, ToMany, EdgeOf, Place
<1>3. QED
  BY <1>1, <1>2

\* What is seen is counted as the set it is.
LEMMA SeenIsCounted ==
    ASSUME UNCHANGED in, NEW S, Seen' = S
    PROVE  ToManyHops(Seen)' = ToManyHops(S)
BY DEF ToManyHops, ToManyOf, ToMany, EdgeOf, Place

\* The sub-queries of a resolved tree are the to-many hops of the client's.
LEMMA SubqueriesAreHops ==
    ASSUME in \in Inputs, NEW o, DOMAIN o = DOMAIN in.filter,
           \A p \in DOMAIN in.filter : Mirror(p, o[p])
    PROVE  FilterSubqueries(o) = ToManyHops(DOMAIN in.filter)
<1> DEFINE Hops(p) == IF o[p].kind = "cond" THEN o[p].hops ELSE <<>>
           Count(p) == Cardinality({k \in DOMAIN Hops(p) : Hops(p)[k].quant # Nil})
<1>1. ASSUME NEW p \in DOMAIN in.filter PROVE Count(p) = ToManyOf(p)
  <2>1. CASE in.filter[p].kind = "cond"
    <3> DEFINE path == in.filter[p].path
               h == o[p].hops
               H == [key : Keys, quant : Quants, from : Resources, to : Resources]
    <3>1. /\ o[p].kind = "cond" /\ Len(h) = Len(path) /\ h \in Seq(H) /\ Follows(h, path)
      BY <2>1 DEF Mirror
    <3>2. path \in Seq([key : Keys, quant : Quants])
      BY <2>1, InputsAssumption DEF IsInput
    <3>3. DOMAIN h = 1..Len(h) /\ DOMAIN path = 1..Len(h)
      BY <3>1, <3>2, LenProperties
    <3>4. ASSUME NEW k \in 1..Len(h) PROVE h[k].quant # Nil <=> EdgeOf(path, k).many
      <4>1. h[k].quant = path[k].quant /\ QuantifierFits(EdgeOf(path, k), path[k].quant)
        BY <3>1 DEF Follows
      <4>2. QED
        BY <4>1, GraphAssumption DEF QuantifierFits
    <3>5. Hops(p) = h
      BY <3>1
    <3>6. {k \in DOMAIN h : h[k].quant # Nil} = ToMany(path)
      BY <3>3, <3>4 DEF ToMany
    <3>7. QED
      BY <2>1, <3>5, <3>6 DEF ToManyOf
  <2>2. CASE in.filter[p].kind # "cond"
    <3>1. Hops(p) = <<>>
      BY <2>2 DEF Mirror
    <3>2. {k \in DOMAIN Hops(p) : Hops(p)[k].quant # Nil} = {}
      BY <3>1
    <3>3. QED
      BY <2>2, <3>2, FS_EmptySet DEF ToManyOf
  <2>3. QED
    BY <2>1, <2>2
<1> DEFINE counts == [p \in DOMAIN o |-> Count(p)]
<1>2. counts = Weights /\ DOMAIN counts = DOMAIN in.filter
  BY <1>1 DEF Weights
<1>3. FilterSubqueries(o) = SumFunctionOnSet(counts, DOMAIN counts)
  BY DEF FilterSubqueries, SumFunction
<1>4. QED
  BY <1>2, <1>3, WeightsAreNaturals

\* A position is resolved rightly when it is legal, mirrored and within the limits:
\* the call goes on, or its verdict is right.
LEMMA Resolves ==
    ASSUME VerdictInv, pc # "done", WorkInv', NEW node, Resolved(node), UNCHANGED <<in, err>>,
           LegalNode(at), Mirror(at, node), in.root # Nil,
           nodes' = Cardinality(Seen) + 1, nodes' <= MaxNodes,
           subqueries' = ToManyHops(Seen \cup {at}), subqueries' <= MaxSubqueries
    PROVE  VerdictInv'
<1> DEFINE D == DOMAIN in.filter
<1>1. /\ in \in Inputs /\ at \in D /\ err' = Nil /\ err' \in Error \cup {Nil}
      /\ DOMAIN out = Seen /\ \A p \in Seen : LegalNode(p) /\ Mirror(p, out[p])
  BY DEF VerdictInv, RunningInv, WorkInv
<1>2. DOMAIN out' = Seen \cup {at} /\ \A p \in Seen \cup {at} : LegalNode(p) /\ Mirror(p, out'[p])
  BY <1>1 DEF Resolved
<1>3. Cardinality(Seen \cup {at}) = Cardinality(Seen) + 1
  BY SeenIsLegal
<1>4. LegalPart(Seen \cup {at})
  BY <1>2, <1>3 DEF LegalPart, MaxNodes, MaxSubqueries
<1>5. CASE Following(at) # Nil
  <2>1. pc' = "resolve" /\ at' = Following(at)
    BY <1>5 DEF Resolved
  <2>2. Seen' = Seen \cup {at}
    <3>1. {p \in DOMAIN in.filter : Before(p, Following(at))} = Seen \cup {at}
      BY <1>1, <1>5, FollowingIsNext
    <3>2. QED
      BY <2>1, <3>1 DEF Seen
  <2>3. \A p \in Seen' : LegalNode(p)' /\ Mirror(p, out[p])'
    <3>1. ASSUME NEW p \in Seen' PROVE LegalNode(p)' /\ Mirror(p, out[p])'
      <4>1. PICK n : n = out'[p]
        OBVIOUS
      <4>2. LegalNode(p)' = LegalNode(p) /\ Mirror(p, n)' = Mirror(p, n)
        BY TreeIsFixed, MirrorIsFixed
      <4>3. LegalNode(p) /\ Mirror(p, n)
        BY <1>2, <2>2, <3>1, <4>1
      <4>4. QED
        BY <4>1, <4>2, <4>3 DEF Mirror, Follows, EdgeOf, Place
    <3>2. QED
      BY <3>1
  <2>4. subqueries' = ToManyHops(Seen)'
    <3>1. PICK S : S = Seen \cup {at}
      OBVIOUS
    <3>2. QED
      BY <2>2, <3>1, SeenIsCounted
  <2>5. subqueries' = subqueries' + 0 /\ nodes' = nodes' + 0
    BY DEF WorkInv, NodesBounded, TotalBounded
  <2>6. RunningInv'
    BY <1>1, <1>2, <1>3, <2>1, <2>2, <2>3, <2>4, <2>5 DEF RunningInv
  <2>7. QED
    BY <1>1, <2>1, <2>6 DEF VerdictInv
<1>6. CASE Following(at) = Nil
  <2>1. pc' = "done" /\ at' = at /\ Seen \cup {at} = D
    BY <1>1, <1>6, FollowingIsNext DEF Resolved
  <2>2. VerdictIsRight'
    <3>1. LegalPart(DOMAIN in.filter)' = LegalPart(DOMAIN in.filter)
      BY WholeTreeIsFixed
    <3>2. QED
      BY <1>1, <1>4, <2>1, <3>1 DEF VerdictIsRight
  <2>3. FirstFaultWins' /\ EchoIsBounded'
    BY <1>1 DEF FirstFaultWins, EchoIsBounded, Refused
  <2>4. ResolvedMirrorsFilter'
    <3>1. PICK o : o = out'
      OBVIOUS
    <3>2. DOMAIN o = D /\ \A p \in D : Mirror(p, o[p])
      BY <1>2, <2>1, <3>1
    <3>3. FilterSubqueries(o) = ToManyHops(D)
      BY <1>1, <3>2, SubqueriesAreHops
    <3>4. ToManyHops(D)' = ToManyHops(D)
      BY WholeTreeIsFixed
    <3>5. Bound("MaxFilterSubqueries")' = MaxSubqueries
      BY BoundsAreFixed DEF MaxSubqueries
    <3>6. ASSUME NEW p \in D
          PROVE  LET c == in.filter[p]
                     h == o[p].hops
                 IN  /\ o[p].kind = c.kind
                     /\ o[p].kind = "cond" =>
                           /\ Len(h) = Len(c.path)
                           /\ \A k \in DOMAIN h : /\ h[k].key = c.path[k].key
                                                 /\ h[k].quant = c.path[k].quant
                                                 /\ h[k].from = Place(c.path, k - 1)'
                                                 /\ h[k].to = Place(c.path, k)'
                           /\ o[p].node = Place(c.path, Len(c.path))'
                           /\ o[p].column = Columns[o[p].node][c.field]
      <4> DEFINE c == in.filter[p]
                 h == o[p].hops
      <4>1. Mirror(p, o[p])
        BY <3>2
      <4>2. PICK path : path = c.path
        OBVIOUS
      <4>3. ASSUME NEW k PROVE Place(path, k)' = Place(path, k)
        BY PlacesAreFixed
      <4>4. ASSUME NEW k PROVE Place(c.path, k)' = Place(path, k)
        BY <4>2 DEF Place
      <4>5. CASE o[p].kind = "cond"
        <5>1. /\ Len(h) = Len(path) /\ DOMAIN h = 1..Len(h) /\ Follows(h, path)
              /\ o[p].node = Place(path, Len(path)) /\ o[p].column = Columns[o[p].node][c.field]
              /\ o[p].kind = c.kind
          BY <4>1, <4>2, <4>5, LenProperties DEF Mirror
        <5>2. QED
          BY <4>2, <4>4, <4>5, <5>1 DEF Follows
      <4>6. CASE o[p].kind # "cond"
        BY <4>1, <4>6 DEF Mirror
      <4>7. QED
        BY <4>5, <4>6
    <3>7. QED
      BY <2>1, <3>1, <3>2, <3>3, <3>4, <3>5, <3>6 DEF ResolvedMirrorsFilter
  <2>5. QED
    BY <1>1, <2>1, <2>2, <2>3, <2>4 DEF VerdictInv
<1>7. QED
  BY <1>5, <1>6

\* A group with members is resolved on the way to the first of them.
LEMMA ResolvesGroup ==
    ASSUME VerdictInv, WorkInv', OpenGroup
    PROVE  VerdictInv'
<1> DEFINE node == [kind |-> Node.kind]
<1>1. /\ pc = "resolve" /\ Resolved(node) /\ UNCHANGED <<in, err>> /\ in.root # Nil
      /\ Node.kind \in Groups /\ ~IsEmpty(at)
      /\ nodes' = nodes + 1 /\ subqueries' = subqueries /\ ~OverNodes
  BY DEF OpenGroup, Visit
<1>2. LegalNode(at)
  BY <1>1 DEF LegalNode, Node
<1>3. Mirror(at, node)
  BY <1>1 DEF Mirror, Node, Groups
<1>4. ToManyOf(at) = 0
  BY <1>1 DEF ToManyOf, Node, Groups
<1>5. /\ WorkInv /\ RunningInv /\ Cardinality(Seen) \in Nat /\ ToManyHops(Seen) \in Nat
      /\ ToManyHops(Seen \cup {at}) = ToManyHops(Seen) + ToManyOf(at)
  BY <1>1, SeenIsLegal DEF VerdictInv
<1>6. nodes = Cardinality(Seen) /\ subqueries = ToManyHops(Seen)
  BY <1>1, <1>5 DEF RunningInv
<1>7. MaxNodes \in Nat /\ MaxSubqueries \in Nat
  BY <1>5, BoundsArePositive DEF WorkInv
<1>8. nodes' = Cardinality(Seen) + 1 /\ nodes' <= MaxNodes
  BY <1>1, <1>5, <1>6, <1>7 DEF OverNodes, MaxNodes
<1>9. subqueries' = ToManyHops(Seen \cup {at}) /\ subqueries' <= MaxSubqueries
  BY <1>1, <1>4, <1>5, <1>6 DEF WorkInv, TotalBounded
<1> HIDE DEF node
<1>10. QED
  BY <1>1, <1>2, <1>3, <1>8, <1>9, Resolves

\* A condition resolves once its whole path is walked and its column admits the
\* operator.
LEMMA ResolvesCond ==
    ASSUME VerdictInv, WorkInv', ResolveCond
    PROVE  VerdictInv'
<1> DEFINE node == [kind |-> "cond", hops |-> hops, column |-> ColumnHere, node |-> Current, op |-> Node.op]
<1>1. /\ AtLeaf /\ pc = "hop" /\ Resolved(node) /\ UNCHANGED <<in, err, nodes, subqueries>>
      /\ ~OverSubqueries /\ Admitted
  BY DEF ResolveCond, AtLeaf
<1>2. /\ WorkInv /\ RunningInv /\ Node.kind = "cond" /\ in.root # Nil /\ Len(hops) = Len(Path)
      /\ hops \in Seq([key : Keys, quant : Quants, from : Resources, to : Resources])
  BY <1>1 DEF VerdictInv, WorkInv, WalkBounded, AtLeaf
<1>3. /\ Narrow /\ LegalPath(Path) /\ ToManyOf(at) = many
      /\ Current = Place(Path, Len(Path))
  BY <1>1, WalkedPathIsLegal
<1>4. Follows(hops, Path)
  BY <1>1, <1>2 DEF RunningInv
<1>5. LegalNode(at)
  <2>1. in.filter[at].kind = "cond" /\ in.filter[at].path = Path /\ Node = in.filter[at]
    BY <1>2 DEF Node, Path
  <2>2. LegalCond(Node)
    BY <1>1, <1>2, <1>3, <2>1 DEF LegalCond, Narrow, Admitted, ColumnHere
  <2>3. QED
    BY <2>1, <2>2 DEF LegalNode
<1>6. Mirror(at, node)
  BY <1>2, <1>3, <1>4 DEF Mirror, Node, Path, ColumnHere
<1>7. /\ Cardinality(Seen) \in Nat /\ ToManyHops(Seen) \in Nat
      /\ ToManyHops(Seen \cup {at}) = ToManyHops(Seen) + ToManyOf(at)
  BY <1>1, SeenIsLegal
<1>8. nodes = Cardinality(Seen) + 1 /\ subqueries = ToManyHops(Seen) + many
  BY <1>1, <1>2 DEF RunningInv
<1>9. MaxNodes \in Nat /\ MaxSubqueries \in Nat /\ subqueries \in Nat /\ nodes <= MaxNodes
  BY <1>1, <1>2, BoundsArePositive DEF WorkInv, TotalBounded, NodesBounded
<1>10. nodes' = Cardinality(Seen) + 1 /\ nodes' <= MaxNodes
  BY <1>1, <1>8, <1>9
<1>11. subqueries' = ToManyHops(Seen \cup {at}) /\ subqueries' <= MaxSubqueries
  BY <1>1, <1>3, <1>7, <1>8, <1>9 DEF OverSubqueries, MaxSubqueries
<1> HIDE DEF node
<1>12. QED
  BY <1>1, <1>2, <1>5, <1>6, <1>10, <1>11, Resolves

\* What precedes a position stays legal and resolved while a condition is walked.
LEMMA SeenStays ==
    ASSUME UNCHANGED <<in, at, out>>, \A p \in Seen : LegalNode(p) /\ Mirror(p, out[p])
    PROVE  /\ Seen' = Seen
           /\ \A p \in Seen' : LegalNode(p)' /\ Mirror(p, out[p])'
           /\ ToManyHops(Seen)' = ToManyHops(Seen)
<1>1. Seen' = Seen
  BY DEF Seen
<1>2. ASSUME NEW p \in Seen' PROVE LegalNode(p)' /\ Mirror(p, out[p])'
  <2>1. PICK n : n = out[p]
    OBVIOUS
  <2>2. LegalNode(p)' = LegalNode(p) /\ Mirror(p, n)' = Mirror(p, n)
    BY TreeIsFixed, MirrorIsFixed
  <2>3. LegalNode(p) /\ Mirror(p, n)
    BY <1>1, <1>2, <2>1
  <2>4. QED
    BY <2>1, <2>2, <2>3 DEF Mirror, Follows, EdgeOf, Place
<1>3. ToManyHops(Seen)' = ToManyHops(Seen)
  <2>1. PICK S : S = Seen
    OBVIOUS
  <2>2. QED
    BY <1>1, <2>1, SeenIsCounted
<1>4. QED
  BY <1>1, <1>2, <1>3

\* A condition starts with no hop behind it.
LEMMA OpensCond ==
    ASSUME VerdictInv, WorkInv', OpenCond
    PROVE  VerdictInv'
<1>1. /\ pc = "resolve" /\ pc' = "hop" /\ UNCHANGED <<in, at, out, err>> /\ hops' = <<>> /\ many' = 0
      /\ nodes' = nodes + 1 /\ subqueries' = subqueries
  BY DEF OpenCond, Visit
<1>2. RunningInv /\ Cardinality(Seen) \in Nat /\ ToManyHops(Seen) \in Nat
  BY <1>1, SeenIsLegal DEF VerdictInv
<1>3. /\ Seen' = Seen
      /\ \A p \in Seen' : LegalNode(p)' /\ Mirror(p, out[p])'
      /\ ToManyHops(Seen)' = ToManyHops(Seen)
  BY <1>1, <1>2, SeenStays DEF RunningInv
<1>4. nodes' = Cardinality(Seen) + 1 /\ subqueries' = ToManyHops(Seen) + many'
  BY <1>1, <1>2 DEF RunningInv
<1>5. Follows(hops, Path)'
  BY <1>1 DEF Follows
<1>6. many' = Cardinality(ManyAmong(Len(hops)))'
  <2>1. ManyAmong(Len(hops))' = {}
    BY <1>1 DEF ManyAmong
  <2>2. QED
    BY <1>1, <2>1, FS_EmptySet
<1>7. err' = Nil /\ DOMAIN out' = Seen'
  BY <1>1, <1>2, <1>3 DEF RunningInv
<1>8. RunningInv'
  BY <1>1, <1>3, <1>4, <1>5, <1>6, <1>7 DEF RunningInv
<1>9. QED
  BY <1>1, <1>7, <1>8 DEF VerdictInv

\* A hop is one place further on the same path, and a to-many hop counts once.
LEMMA Hops ==
    ASSUME VerdictInv, WorkInv', Hop
    PROVE  VerdictInv'
<1> DEFINE n == Len(hops) + 1
           hop == [key |-> Step.key, quant |-> Step.quant, from |-> Current, to |-> EdgeHere.target]
<1>1. /\ pc = "hop" /\ pc' = "hop" /\ UNCHANGED <<in, at, out, err, nodes>> /\ hops' = Append(hops, hop)
      /\ many' = many + Crossed /\ subqueries' = subqueries + Crossed
      /\ Hopping /\ Crossing /\ EdgeHere.target # "nowhere"
      /\ Traversable(EdgeHere) /\ EdgeHere # Nil /\ QuantifierFits(EdgeHere, Step.quant)
  BY DEF Hop, Cross, Crossing, Hopping
<1>2. /\ WorkInv /\ RunningInv /\ Cardinality(Seen) \in Nat /\ ToManyHops(Seen) \in Nat
      /\ Follows(hops, Path) /\ many = Cardinality(ManyAmong(Len(hops))) /\ many \in Nat
      /\ nodes = Cardinality(Seen) + 1 /\ subqueries = ToManyHops(Seen) + many
      /\ hops \in Seq([key : Keys, quant : Quants, from : Resources, to : Resources])
  BY <1>1, SeenIsLegal DEF VerdictInv, RunningInv, WorkInv, WalkBounded, TotalBounded
<1>3. /\ Len(hops) \in 0..Len(Path) /\ Len(Path) \in Nat /\ Node.kind = "cond"
      /\ Current = Place(Path, Len(hops))
  BY <1>1, WalkIsOnThePath
<1>4. /\ n \in 1..Len(Path)
      /\ Step = Path[n] /\ EdgeHere = EdgeOf(Path, n) /\ EdgeHere \in Edge
      /\ Place(Path, n) = EdgeHere.target /\ Place(Path, n) \in Resources
  <2>1. /\ n \in 1..Len(Path) /\ Step = Path[n] /\ EdgeHere = EdgeOf(Path, n)
        /\ Place(Path, n) =
              IF EdgeHere = Nil THEN Nil
              ELSE IF EdgeHere.filterable /\ EdgeHere.target \in Resources THEN EdgeHere.target ELSE Nil
    BY <1>1, StepIsOnThePath
  <2>2. EdgeHere \in Edge /\ EdgeHere.target \in Resources /\ EdgeHere.filterable
    BY <1>1, <1>2, CrossingLeadsOn DEF Traversable
  <2>3. QED
    BY <1>1, <2>1, <2>2
<1>5. PICK path : path = Path
  OBVIOUS
<1>6. Path' = path
  BY <1>1, <1>5 DEF Path, Node
<1>7. PICK h : h = hops'
  OBVIOUS
<1>8. /\ Len(h) = n /\ Len(hops) \in Nat
      /\ \A k \in 1..Len(hops) : h[k] = hops[k]
      /\ h[n] = hop
  BY <1>1, <1>2, <1>7
<1>9. Follows(h, path)
  <2>1. ASSUME NEW k \in 1..n
        PROVE  /\ h[k].key = path[k].key /\ h[k].quant = path[k].quant
               /\ h[k].from = Place(path, k - 1)
               /\ h[k].to = Place(path, k)
               /\ Place(path, k) \in Resources
               /\ QuantifierFits(EdgeOf(path, k), path[k].quant)
    <3>1. CASE k = n
      BY <1>1, <1>3, <1>4, <1>5, <1>8, <3>1
    <3>2. CASE k # n
      <4>1. k \in 1..Len(hops)
        BY <1>8, <3>2
      <4>2. QED
        BY <1>2, <1>5, <1>8, <4>1 DEF Follows
    <3>3. QED
      BY <3>1, <3>2
  <2>2. QED
    BY <1>8, <2>1 DEF Follows
<1>10. \A k : Place(Path, k)' = Place(path, k) /\ EdgeOf(Path, k)' = EdgeOf(path, k)
  <2>1. ASSUME NEW k PROVE Place(Path, k)' = Place(path, k) /\ EdgeOf(Path, k)' = EdgeOf(path, k)
    BY <1>1, <1>6 DEF EdgeOf, Place
  <2>2. QED
    BY <2>1
<1>11. Follows(hops, Path)'
  BY <1>6, <1>7, <1>9, <1>10 DEF Follows
<1>12. ManyAmong(Len(hops))' = ManyAmong(Len(hops)) \cup (IF EdgeHere.many THEN {n} ELSE {})
  <2>1. \A k : EdgeOf(Path, k)' = EdgeOf(path, k)
    BY <1>10
  <2>2. Len(hops') = n
    BY <1>7, <1>8
  <2>3. ManyAmong(Len(hops))' = {k \in 1..n : EdgeOf(path, k).many}
    BY <2>1, <2>2 DEF ManyAmong
  <2>4. ManyAmong(Len(hops)) = {k \in 1..Len(hops) : EdgeOf(path, k).many}
    BY <1>5 DEF ManyAmong
  <2>5. 1..n = (1..Len(hops)) \cup {n} /\ EdgeHere = EdgeOf(path, n)
    BY <1>4, <1>5, <1>8
  <2>6. QED
    BY <2>3, <2>4, <2>5
<1>13. many' = Cardinality(ManyAmong(Len(hops)))'
  <2>1. ManyAmong(Len(hops)) \in SUBSET (1..Len(hops)) /\ IsFiniteSet(1..Len(hops)) /\ n \notin 1..Len(hops)
    BY <1>8, FS_Interval DEF ManyAmong
  <2>2. IsFiniteSet(ManyAmong(Len(hops))) /\ n \notin ManyAmong(Len(hops))
    BY <2>1, FS_Subset
  <2>3. CASE EdgeHere.many
    <3>1. Cardinality(ManyAmong(Len(hops)) \cup {n}) = Cardinality(ManyAmong(Len(hops))) + 1
      BY <2>2, FS_AddElement
    <3>2. QED
      BY <1>1, <1>2, <1>12, <2>3, <3>1 DEF Crossed
  <2>4. CASE ~EdgeHere.many
    <3>1. many' = many
      BY <1>1, <1>2, <2>4 DEF Crossed
    <3>2. QED
      BY <1>2, <1>12, <2>4, <3>1
  <2>5. QED
    BY <2>3, <2>4
<1>14. /\ Seen' = Seen
       /\ \A p \in Seen' : LegalNode(p)' /\ Mirror(p, out[p])'
       /\ ToManyHops(Seen)' = ToManyHops(Seen)
  BY <1>1, <1>2, SeenStays DEF RunningInv
<1>15. err' = Nil /\ DOMAIN out' = Seen'
  BY <1>1, <1>2, <1>14 DEF RunningInv
<1>16. nodes' = Cardinality(Seen) + 1 /\ subqueries' = ToManyHops(Seen) + many'
  BY <1>1, <1>2 DEF Crossed
<1>17. RunningInv'
  BY <1>1, <1>11, <1>13, <1>14, <1>15, <1>16 DEF RunningInv
<1>18. QED
  BY <1>1, <1>15, <1>17 DEF VerdictInv

-----------------------------------------------------------------------------
\* No filter resolves to none.
LEMMA ResolvesNothing ==
    ASSUME VerdictInv, WorkInv', NoFilter
    PROVE  VerdictInv'
<1>1. /\ pc = "resolve" /\ pc' = "done" /\ UNCHANGED <<in, err>> /\ at = <<>>
      /\ Absent
  BY DEF NoFilter, Absent, Node
<1>2. err' = Nil /\ Absent'
  BY <1>1 DEF VerdictInv, RunningInv, Absent
<1>3. VerdictIsRight' /\ FirstFaultWins' /\ ResolvedMirrorsFilter' /\ EchoIsBounded'
  BY <1>2 DEF VerdictIsRight, FirstFaultWins, ResolvedMirrorsFilter, EchoIsBounded, Refused, Accepted
<1>4. QED
  BY <1>1, <1>2, <1>3 DEF VerdictInv

\* A call starts with nothing seen.
LEMMA VerdictInit == Init => VerdictInv
<1> SUFFICES ASSUME Init PROVE VerdictInv
  OBVIOUS
<1>1. WorkInv
  BY WorkInit
<1>2. /\ pc = "resolve" /\ at = <<>> /\ out = <<>> /\ err = Nil /\ nodes = 0 /\ subqueries = 0
      /\ in \in Inputs
  BY DEF Init
<1>3. Seen = {}
  <2>1. ASSUME NEW p \in DOMAIN in.filter PROVE ~Before(p, <<>>)
    <3>1. p \in Positions
      BY <1>2, InputsAssumption DEF IsInput, Positions
    <3>2. <<>> \in Positions
      BY DEF Positions
    <3>3. QED
      BY <3>1, <3>2 DEF Before, IsStrictPrefix, IsPrefix, Positions
  <2>2. QED
    BY <1>2, <2>1 DEF Seen
<1>4. Cardinality(Seen) = 0
  BY <1>3, FS_EmptySet
<1>5. ToManyHops(Seen) = 0
  <2>1. /\ IsFiniteSet(DOMAIN in.filter) /\ Weights \in [DOMAIN in.filter -> Nat]
        /\ ToManyHops(Seen) = SumFunctionOnSet(Weights, {})
    BY <1>2, <1>3, WeightsAreNaturals
  <2>2. QED
    BY <2>1, SumFacts
<1>6. RunningInv
  BY <1>2, <1>3, <1>4, <1>5 DEF RunningInv
<1>7. QED
  BY <1>1, <1>2, <1>6 DEF VerdictInv

\* Every step keeps the verdict right.
LEMMA VerdictNext == VerdictInv /\ [Next]_vars => VerdictInv'
<1> SUFFICES ASSUME VerdictInv, [Next]_vars PROVE VerdictInv'
  OBVIOUS
<1>1. WorkInv'
  BY WorkNext DEF VerdictInv
<1>2. CASE NoFilter
  BY <1>1, <1>2, ResolvesNothing
<1>3. CASE NoRoot \/ NilMember \/ TooManyNodes \/ Malformed
  BY <1>1, <1>3, RefusesPosition
<1>4. CASE OpenGroup
  BY <1>1, <1>4, ResolvesGroup
<1>5. CASE PathTooLong \/ TooManyMany
  BY <1>1, <1>5, RefusesDeep
<1>6. CASE OpenCond
  BY <1>1, <1>6, OpensCond
<1>7. CASE UnknownEdge \/ EdgeNotFilterable \/ BadQuantifier \/ TargetMissing
  BY <1>1, <1>7, RefusesHop
<1>8. CASE Hop
  BY <1>1, <1>8, Hops
<1>9. CASE TooExpensive
  BY <1>1, <1>9, RefusesExpensive
<1>10. CASE BadLeaf
  BY <1>1, <1>10, RefusesLeaf
<1>11. CASE ResolveCond
  BY <1>1, <1>11, ResolvesCond
<1>12. CASE UNCHANGED vars
  <2>1. UNCHANGED <<in, pc, at, hops, many, nodes, subqueries, out, err>>
    BY <1>12 DEF vars
  <2>2. VerdictIsRight' = VerdictIsRight
    <3>1. LegalPart(DOMAIN in.filter)' = LegalPart(DOMAIN in.filter)
      BY <2>1, WholeTreeIsFixed
    <3>2. QED
      BY <2>1, <3>1 DEF VerdictIsRight, Absent
  <2>3. FirstFaultWins' = FirstFaultWins
    BY <2>1 DEF FirstFaultWins, Refused, Node, Path, Bound, LegalNode, IsEmpty, LegalCond, LegalPath,
                EdgeOf, ToMany, ToManyOf, ToManyHops, LegalPart, Place
  <2>4. ResolvedMirrorsFilter' = ResolvedMirrorsFilter
    BY <2>1 DEF ResolvedMirrorsFilter, Accepted, Absent, Bound, FilterSubqueries, EdgeOf, ToMany,
                ToManyOf, ToManyHops, Place
  <2>5. EchoIsBounded' = EchoIsBounded
    BY <2>1 DEF EchoIsBounded, Refused, Path, Node, Bound, Place
  <2>6. RunningInv' = RunningInv
    BY <2>1 DEF RunningInv, Seen, LegalNode, IsEmpty, LegalCond, LegalPath, EdgeOf, ToMany, ToManyOf,
                ToManyHops, Place, Mirror, Follows, ManyAmong, Path, Node, Bound
  <2>7. QED
    BY <1>1, <2>1, <2>2, <2>3, <2>4, <2>5, <2>6 DEF VerdictInv
<1>13. QED
  BY <1>2, <1>3, <1>4, <1>5, <1>6, <1>7, <1>8, <1>9, <1>10, <1>11, <1>12 DEF Next, Returned

-----------------------------------------------------------------------------
\* The verdict's invariant holds throughout every call.
LEMMA VerdictAlways == Spec => []VerdictInv
BY VerdictInit, VerdictNext, PTL DEF Spec

\* The positions, counters and error of a call have their types, and what is
\* resolved is exactly what precedes the position at hand.
THEOREM FilterTypeCorrect == Spec => []TypeOK
<1>1. VerdictInv => TypeOK
  BY DEF VerdictInv, WorkInv, NodesBounded, TotalBounded, WalkBounded, RunningInv, Seen, TypeOK
<1>2. QED
  BY <1>1, VerdictAlways, PTL

\* ResolveFilter accepts a filter exactly when every condition is legal and the
\* whole tree is within the limits, for every graph, every tree and all limits
\* (filter.go, resolve, cond, walk and leaf).
THEOREM ResolveFilterIsRight == Spec => []VerdictIsRight
<1>1. VerdictInv => VerdictIsRight
  BY DEF VerdictInv, VerdictIsRight
<1>2. QED
  BY <1>1, VerdictAlways, PTL

\* The fault ResolveFilter reports is the first in document order, and the
\* narrowest at its place.
THEOREM ResolveFilterBlamesTheFirst == Spec => []FirstFaultWins
<1>1. VerdictInv => FirstFaultWins
  BY DEF VerdictInv, FirstFaultWins, Refused
<1>2. QED
  BY <1>1, VerdictAlways, PTL

\* What ResolveFilter returns is the client's tree, condition by condition, and
\* FilterSubqueries of it is the number the limit was held against.
THEOREM ResolveFilterMirrorsTheTree == Spec => []ResolvedMirrorsFilter
<1>1. VerdictInv => ResolvedMirrorsFilter
  BY DEF VerdictInv, ResolvedMirrorsFilter, Accepted
<1>2. QED
  BY <1>1, VerdictAlways, PTL

\* An error of ResolveFilter echoes no more than the depth limit allows, and
\* nothing whole that the graph does not know at that place.
THEOREM ResolveFilterEchoIsBounded == Spec => []EchoIsBounded
<1>1. VerdictInv => EchoIsBounded
  BY DEF VerdictInv, EchoIsBounded, Refused
<1>2. QED
  BY <1>1, VerdictAlways, PTL
=============================================================================
