------------------------------ MODULE CostModel ------------------------------
(***************************************************************************)
(* What the planner and the materializer of the include package both know  *)
(* about an edge: its kind, the rows one parent may bring, and from these  *)
(* the static cost of a plan.  A plan is a function from the paths of its  *)
(* nodes, sequences of include keys, to their edge, resource and args.     *)
(***************************************************************************)
EXTENDS Integers, SequencesExt, FiniteSetsExt, Functions

CONSTANT IntHalf   \* an int is in -IntHalf..IntHalf-1; 2^63 in the build

ASSUME IntHalfAssumption == IntHalf \in Nat \ {0}

Kinds == {"toOne", "inArray", "hasMany", "reverse", "computed"}
ManyKinds == {"inArray", "hasMany", "reverse"}

\* defaultReverseLimit and defaultHasManyLimit, and defaultUnboundedEstimate.
DefaultLimit == 20
DefaultEstimate == 100

\* The top-N of an enveloped edge: the client's limit within the edge's.
ResolvedLimit(e, a) ==
    LET ceiling == IF e.limit > 0 THEN e.limit ELSE DefaultLimit
    IN  IF a.limit = 0 THEN ceiling ELSE Min({Max({a.limit, 1}), ceiling})

\* edgeMultiplier.  A computed node is worth nothing, and nothing hangs below it.
Multiplier(n) ==
    CASE n.edge.kind = "computed" -> 0
      [] n.edge.kind = "toOne" -> 1
      [] n.edge.kind = "inArray" \/ (n.edge.kind \in ManyKinds /\ n.edge.bare) ->
             IF n.edge.est > 0 THEN n.edge.est ELSE DefaultEstimate
      [] OTHER -> ResolvedLimit(n.edge, n.args)

\* estimateCost: the rows of a node are those of the node above it times its own
\* multiplier, the root being one, and the cost of a plan the rows of its nodes.
\* Both are computed in machine integers, which wrap; half = 0 stands for exact
\* ones.
InWidth(n, half) == IF half = 0 THEN n ELSE ((n + half) % (2 * half)) - half
RowsOf(pl, p, half) ==
    LET rows[n \in 0..Len(p)] ==
            IF n = 0 THEN 1
            ELSE InWidth(rows[n - 1] * Multiplier(pl[SubSeq(p, 1, n)]), half)
    IN  rows[Len(p)]
CostIn(pl, half) ==
    InWidth(SumFunctionOnSet([p \in DOMAIN pl |-> RowsOf(pl, p, half)], DOMAIN pl), half)
Cost(pl) == CostIn(pl, IntHalf)
=============================================================================
