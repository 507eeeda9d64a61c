------------------------------ MODULE Planner ------------------------------
(***************************************************************************)
(* ResolvePlan of include/resolve.go: a client include tree, the defaults  *)
(* of the resources it walks, an exclude list and the limits become a plan *)
(* or a 400, before anything is fetched.  One behaviour is one call.       *)
(*                                                                         *)
(* A path is the sequence of include keys from the root; a client tree is  *)
(* a prefix-closed set of paths and a plan a function on its paths.  The   *)
(* recursion of build is a stack of frames, one per open level, and a step *)
(* is one turn of its loop over a level's keys.                            *)
(***************************************************************************)
EXTENDS CostModel, Selection

CONSTANTS Resources,
          Keys,       \* include keys
          KeyOrder,   \* the keys in string order
          None,       \* no such edge
          Inputs      \* the calls considered: see IsInput

ASSUME KeyOrderAssumption ==
    /\ KeyOrder \in Seq(Keys)
    /\ Range(KeyOrder) = Keys
    /\ IsInjective(KeyOrder)

VARIABLES
    in,         \* the arguments of the call
    phase,      \* "build", "exclude", "cost", "accepted" or "rejected"
    stack,      \* the open levels of build, innermost last
    nodeCount,  \* client edges so far
    built,      \* the plan as build left it
    plan,       \* the plan
    error       \* the *Error returned

vars == <<in, phase, stack, nodeCount, built, plan, error>>

-----------------------------------------------------------------------------
Policies == {"tolerant", "strict"}

\* An edge as the graph declares it.  strictExclude is its ExcludeRequired
\* override, "inherit" when it has none; limit and est are 0 when undeclared.
Edge == [target : Resources, kind : Kinds, bare : BOOLEAN, limit : Nat, est : Nat,
         includable : BOOLEAN, required : BOOLEAN, sortable : BOOLEAN,
         strictExclude : Policies \cup {"inherit"}]

\* The args of one tree node, by what validateArgs can tell of them: limit is 0
\* when absent and -1 when not a positive number, other stands for the declared
\* and undeclared args.
Args == [limit : Int, sort : {"none", "known", "unknown"},
         other : {"none", "accepted", "rejected", "undeclared"}]
NoArgs == [limit |-> 0, sort |-> "none", other |-> "none"]

Graph == [edges : [Resources -> [Keys -> Edge \cup {None}]],
          defaults : [Resources -> Seq(Keys)]]
Options == [MaxDepth : Nat, MaxNodes : Nat, MaxCost : Nat, strictSort : BOOLEAN,
            strictArgs : BOOLEAN, excludeRequired : Policies]

\* The arguments of one call: the client tree is finite, holds the root and is
\* prefix-closed.
IsInput(i) ==
    /\ i.graph \in Graph
    /\ i.root \in Resources
    /\ <<>> \in i.tree
    /\ IsFiniteSet(i.tree)
    /\ \A p \in i.tree : p \in Seq(Keys) /\ (p # <<>> => Front(p) \in i.tree)
    /\ i.args \in [i.tree -> Args]
    /\ i.exclude \in Seq(Seq(Keys))
    /\ i.opts \in Options

ASSUME NoneAssumption == None \notin Resources \cup Edge

ASSUME InputsAssumption == \A i \in Inputs : IsInput(i)

Codes == {"none", "INVALID_INCLUDE", "INCLUDE_TOO_DEEP", "INCLUDE_TOO_EXPENSIVE"}
NoError == [code |-> "none", path |-> <<>>]

\* DefaultLimits.MaxCost.
DefaultMaxCost == 5000

-----------------------------------------------------------------------------
EdgeAt(r, k) == in.graph.edges[r][k]
FromClient(p) == p \in in.tree
ArgsAt(p) == IF FromClient(p) THEN in.args[p] ELSE NoArgs
ClientKeys(p) == {k \in Keys : FromClient(Append(p, k))}

Dedup(s) == Picked(s, Keys)
Sorted(S) == Picked(KeyOrder, S)

\* Defaults in declaration order, then the client's other keys, sorted.
Ordered(p, r) ==
    LET defaults == Dedup(in.graph.defaults[r])
    IN  defaults \o Sorted(ClientKeys(p) \ Range(defaults))

\* validateArgs: which of its failures comes first is up to Go's map order, and
\* all of them are the same error code.
ArgsValid(e, a) ==
    /\ a.limit # 0 => e.kind \in {"reverse", "hasMany"} /\ ~e.bare /\ a.limit > 0
    /\ a.sort # "none" =>
          /\ e.kind = "reverse"
          /\ ~e.sortable => ~in.opts.strictArgs
          /\ e.sortable /\ in.opts.strictSort => a.sort = "known"
    /\ a.other # "rejected"
    /\ a.other = "undeclared" => ~in.opts.strictArgs

MaxCost == IF in.opts.MaxCost = 0 THEN DefaultMaxCost ELSE in.opts.MaxCost

-----------------------------------------------------------------------------
Frame(p, r, depth, seen) ==
    [path |-> p, resource |-> r, depth |-> depth, seen |-> seen, keys |-> Ordered(p, r)]

Reject(code, p) ==
    /\ phase' = "rejected"
    /\ error' = [code |-> code, path |-> p]
    /\ UNCHANGED <<in, stack, nodeCount, built, plan>>

Init ==
    /\ in \in Inputs
    /\ phase = "build"
    /\ stack = <<Frame(<<>>, in.root, 0, {in.root})>>
    /\ nodeCount = 0
    /\ built = [p \in {<<>>} |-> [edge |-> None, resource |-> in.root, args |-> ArgsAt(p)]]
    /\ plan = built
    /\ error = NoError

\* The root carries no edge, so it takes no args.
RejectRootArgs ==
    /\ phase = "build"
    /\ ArgsAt(<<>>) # NoArgs
    /\ Reject("INVALID_INCLUDE", <<>>)

Building == phase = "build" /\ stack # <<>> /\ ArgsAt(<<>>) = NoArgs
Top == Last(stack)
Key == Head(Top.keys)
ChildPath == Append(Top.path, Key)
ChildEdge == EdgeAt(Top.resource, Key)
Turn == Building /\ Top.keys # <<>>
\* NextKeyLeaks is a mutant: the default chain is extended in place, so a
\* default's target stays on the chain of the siblings after it.
NextKeyLeaks ==
    [stack EXCEPT ![Len(stack)].keys = Tail(@),
                  ![Len(stack)].seen =
                      IF FromClient(ChildPath) \/ ChildEdge = None THEN @
                      ELSE @ \cup {ChildEdge.target}]
NextKey == [stack EXCEPT ![Len(stack)].keys = Tail(@)]

\* A client key names an existing includable edge, within the node budget.
RejectUnknownEdge ==
    /\ Turn
    /\ FromClient(ChildPath)
    /\ ChildEdge # None => ~ChildEdge.includable
    /\ Reject("INVALID_INCLUDE", ChildPath)

Accounted ==
    FromClient(ChildPath) =>
        /\ ChildEdge # None
        /\ ChildEdge.includable
        /\ nodeCount + 1 <= in.opts.MaxNodes

RejectTooManyNodes ==
    /\ Turn
    /\ FromClient(ChildPath)
    /\ ChildEdge # None
    /\ ChildEdge.includable
    /\ nodeCount + 1 > in.opts.MaxNodes
    /\ Reject("INCLUDE_TOO_DEEP", ChildPath)

\* The default-cycle guard: a default whose target is already on the default
\* chain is left out.  Client edges and computed edges are exempt.
Cut == /\ ~FromClient(ChildPath)
       /\ ChildEdge.kind # "computed"
       /\ ChildEdge.target \in Top.seen

\* A mutant of SkipDefault: the loop does not move on.
SkipDefaultStays ==
    /\ Turn
    /\ ~FromClient(ChildPath)
    /\ ChildEdge # None => Cut
    /\ UNCHANGED vars

SkipDefault ==
    /\ Turn
    /\ ~FromClient(ChildPath)
    /\ ChildEdge # None => Cut
    /\ stack' = NextKey
    /\ UNCHANGED <<in, phase, nodeCount, built, plan, error>>

\* build is called for the child: its depth, then its args, then what hangs
\* below a computed edge.
Entered == Turn /\ Accounted /\ ChildEdge # None /\ ~Cut
\* ChildDepthOfAll, a mutant, counts the defaults too.
ChildDepthOfAll == Top.depth + 1
ChildDepth == IF FromClient(ChildPath) THEN Top.depth + 1 ELSE Top.depth
ChildSeen == IF FromClient(ChildPath) THEN Top.seen ELSE Top.seen \cup {ChildEdge.target}

RejectTooDeep ==
    /\ Entered
    /\ ChildDepth > in.opts.MaxDepth
    /\ Reject("INCLUDE_TOO_DEEP", ChildPath)

RejectArgs ==
    /\ Entered
    /\ ChildDepth <= in.opts.MaxDepth
    /\ ~ArgsValid(ChildEdge, ArgsAt(ChildPath))
    /\ Reject("INVALID_INCLUDE", ChildPath)

RejectUnderComputed ==
    /\ Entered
    /\ ChildDepth <= in.opts.MaxDepth
    /\ ArgsValid(ChildEdge, ArgsAt(ChildPath))
    /\ ChildEdge.kind = "computed"
    /\ ClientKeys(ChildPath) # {}
    /\ Reject("INVALID_INCLUDE", Append(ChildPath, Head(Sorted(ClientKeys(ChildPath)))))

\* The child joins the plan; unless it is a computed leaf its level is next.
ChildNode == [edge |-> ChildEdge,
              resource |-> IF ChildEdge.kind = "computed" THEN None ELSE ChildEdge.target,
              args |-> ArgsAt(ChildPath)]
WithChild == [p \in DOMAIN built \cup {ChildPath} |-> IF p = ChildPath THEN ChildNode ELSE built[p]]
WithLevel ==
    IF ChildEdge.kind = "computed" THEN NextKey
    ELSE Append(NextKey, Frame(ChildPath, ChildEdge.target, ChildDepth, ChildSeen))

\* A mutant of Descend: a default counts as a node.
DescendCountsDefaults ==
    /\ Entered
    /\ ChildDepth <= in.opts.MaxDepth
    /\ ArgsValid(ChildEdge, ArgsAt(ChildPath))
    /\ ChildEdge.kind = "computed" => ClientKeys(ChildPath) = {}
    /\ built' = WithChild
    /\ nodeCount' = nodeCount + 1
    /\ stack' = WithLevel
    /\ UNCHANGED <<in, phase, plan, error>>

Descend ==
    /\ Entered
    /\ ChildDepth <= in.opts.MaxDepth
    /\ ArgsValid(ChildEdge, ArgsAt(ChildPath))
    /\ ChildEdge.kind = "computed" => ClientKeys(ChildPath) = {}
    /\ built' = WithChild
    /\ nodeCount' = IF FromClient(ChildPath) THEN nodeCount + 1 ELSE nodeCount
    /\ stack' = WithLevel
    /\ UNCHANGED <<in, phase, plan, error>>

LevelDone ==
    /\ Building
    /\ Top.keys = <<>>
    /\ stack' = Front(stack)
    /\ phase' = IF Len(stack) = 1 THEN "exclude" ELSE "build"
    /\ plan' = IF Len(stack) = 1 THEN built ELSE plan
    /\ UNCHANGED <<in, nodeCount, built, error>>

\* applyExclude, first pass: every path is validated against the whole plan.
StrictFor(e) == IF e.strictExclude = "inherit" THEN in.opts.excludeRequired
                ELSE e.strictExclude
ExcludeFault(pl, x) ==
    x \in DOMAIN pl => x # <<>> /\ pl[x].edge.required /\ StrictFor(pl[x].edge) = "strict"
FaultyExcludesOf(pl) == {i \in 1..Len(in.exclude) : ExcludeFault(pl, in.exclude[i])}
FaultyExcludes == FaultyExcludesOf(plan)

RejectExclude ==
    /\ phase = "exclude"
    /\ FaultyExcludes # {}
    /\ Reject("INVALID_INCLUDE", in.exclude[Min(FaultyExcludes)])

\* Second pass, in list order: an ancestor already gone, the empty path and a
\* required edge make a path a no-op.
\* PruneRequired is a mutant: it drops required edges.
PruneRequired(pl, x) ==
    IF x = <<>> \/ x \notin DOMAIN pl THEN pl
    ELSE Restrict(pl, {p \in DOMAIN pl : ~IsPrefix(x, p)})
Prune(pl, x) ==
    IF x = <<>> \/ x \notin DOMAIN pl \/ pl[x].edge.required THEN pl
    ELSE Restrict(pl, {p \in DOMAIN pl : ~IsPrefix(x, p)})

\* What the first n paths of the list leave.
Pruned(pl, n) ==
    LET pruned[i \in 0..n] == IF i = 0 THEN pl ELSE Prune(pruned[i - 1], in.exclude[i])
    IN  pruned[n]

ApplyExclude ==
    /\ phase = "exclude"
    /\ FaultyExcludes = {}
    /\ plan' = Pruned(plan, Len(in.exclude))
    /\ phase' = "cost"
    /\ UNCHANGED <<in, stack, nodeCount, built, error>>

\* The estimate runs after exclude, so pruned edges do not inflate it.
RejectTooExpensive ==
    /\ phase = "cost"
    /\ Cost(plan) > MaxCost
    /\ Reject("INCLUDE_TOO_EXPENSIVE", <<>>)

Accept ==
    /\ phase = "cost"
    /\ Cost(plan) <= MaxCost
    /\ phase' = "accepted"
    /\ UNCHANGED <<in, stack, nodeCount, built, plan, error>>

Returned == phase \in {"accepted", "rejected"} /\ UNCHANGED vars

Next ==
    \/ RejectRootArgs \/ RejectUnknownEdge \/ RejectTooManyNodes \/ SkipDefault
    \/ RejectTooDeep \/ RejectArgs \/ RejectUnderComputed \/ Descend \/ LevelDone
    \/ RejectExclude \/ ApplyExclude \/ RejectTooExpensive \/ Accept
    \/ Returned

\* One goroutine runs the call to its end.
Spec == Init /\ [][Next]_vars /\ WF_vars(Next)

-----------------------------------------------------------------------------
PlanNodes == [edge : Edge \cup {None}, resource : Resources \cup {None}, args : Args]
IsPlan(pl) == /\ <<>> \in DOMAIN pl
              /\ \A p \in DOMAIN pl : pl[p] \in PlanNodes

TypeOK ==
    /\ IsInput(in)
    /\ phase \in {"build", "exclude", "cost", "accepted", "rejected"}
    /\ \A i \in 1..Len(stack) :
          /\ stack[i].path \in Seq(Keys)
          /\ stack[i].resource \in Resources
          /\ stack[i].depth \in 0..in.opts.MaxDepth
          /\ stack[i].seen \subseteq Resources
          /\ stack[i].keys \in Seq(Keys)
    /\ nodeCount \in 0..Cardinality(in.tree)
    /\ IsPlan(built) /\ IsPlan(plan)
    /\ error.code \in Codes

\* What a path means in the graph, whatever the planner does with it.
Beyond(r, k) ==
    IF r = None \/ EdgeAt(r, k) = None THEN None
    ELSE IF EdgeAt(r, k).kind = "computed" THEN None ELSE EdgeAt(r, k).target
ResourceAt(p) ==
    LET at[n \in 0..Len(p)] == IF n = 0 THEN in.root ELSE Beyond(at[n - 1], p[n])
    IN  at[Len(p)]
EdgeOf(p) == IF ResourceAt(Front(p)) = None THEN None
             ELSE EdgeAt(ResourceAt(Front(p)), Last(p))

\* The resources the defaults on a path have entered, the root among them.
DefaultChain(p) ==
    {in.root} \cup {ResourceAt(SubSeq(p, 1, i)) :
                        i \in {j \in 1..Len(p) : ~FromClient(SubSeq(p, 1, j))}}

\* The key k of the node at p belongs in the plan: the client asked for it, or
\* the resource includes it by default and it leads nowhere the defaults of
\* this very path have been.
Belongs(p, k) ==
    LET q == Append(p, k) IN
    \/ FromClient(q)
    \/ /\ ResourceAt(p) # None
       /\ Contains(in.graph.defaults[ResourceAt(p)], k)
       /\ EdgeOf(q) # None
       /\ EdgeOf(q).kind # "computed" => EdgeOf(q).target \notin DefaultChain(p)

\* The plan as built is exactly the union of what the client asked for and the
\* defaults, level by level: the recursion over levels, its order and the
\* default chain it carries along lose nothing and leak nothing between
\* siblings (build in ResolvePlan, extendSet).
PlanIsWhatWasAsked ==
    phase \in {"exclude", "cost", "accepted"} =>
        \A p \in DOMAIN built :
            /\ p # <<>> => Front(p) \in DOMAIN built
            /\ built[p].resource = ResourceAt(p)
            /\ built[p].args = ArgsAt(p)
            /\ \A k \in Keys : Append(p, k) \in DOMAIN built <=> Belongs(p, k)

\* The client nodes that are wrong, each with the code it deserves.
NodeFaults(p) ==
    {c \in Codes :
        \/ c = "INVALID_INCLUDE" /\ EdgeOf(p) = None
        \/ c = "INVALID_INCLUDE" /\ EdgeOf(p) # None /\ ~EdgeOf(p).includable
        \/ c = "INVALID_INCLUDE" /\ EdgeOf(p) # None /\ ~ArgsValid(EdgeOf(p), ArgsAt(p))
        \/ c = "INCLUDE_TOO_DEEP" /\ Len(p) > in.opts.MaxDepth
        \/ c = "INCLUDE_TOO_DEEP" /\ Cardinality(in.tree) - 1 > in.opts.MaxNodes}
TreeIsValid == /\ ArgsAt(<<>>) = NoArgs
               /\ \A p \in in.tree \ {<<>>} : NodeFaults(p) = {}

\* The paths the excludes name: an exclude of the root or of a required edge
\* names nothing.
Excluded(p) == \E i \in 1..Len(in.exclude) :
    LET x == in.exclude[i] IN x # <<>> /\ IsPrefix(x, p) /\ ~built[x].edge.required

\* The verdict is the one the request deserves: accepted when every part of the
\* tree, the excludes and the cost of what is left are in order, and otherwise
\* rejected for a reason that is really there, at the place where it is.
VerdictIsRight ==
    /\ phase = "accepted" => TreeIsValid /\ FaultyExcludesOf(built) = {} /\ Cost(plan) <= MaxCost
    /\ phase = "rejected" =>
          CASE error.path \in in.tree \ {<<>>} /\ ~TreeIsValid -> error.code \in NodeFaults(error.path)
            [] error.code = "INCLUDE_TOO_EXPENSIVE" -> TreeIsValid /\ Cost(plan) > MaxCost
            [] OTHER -> /\ error.code = "INVALID_INCLUDE"
                        /\ \/ ~TreeIsValid /\ error.path = <<>>
                           \/ \E i \in FaultyExcludesOf(built) : error.path = in.exclude[i]

\* The plan returned is the one built without the excluded subtrees, whatever
\* the order of the exclude list, and keeps every required edge of a kept node
\* (both passes of applyExclude).
ExcludeIsExact ==
    phase = "accepted" => plan = Restrict(built, {p \in DOMAIN built : ~Excluded(p)})

\* "MaxCost caps the STATIC cost estimate of a plan for one root document: the
\* sum over every plan node (defaults included) of the product of the per-edge
\* row limits on the path from the root" (include/resolve.go:20): the sum
\* itself, not what is left of it in a machine integer.
CostIsCapped == phase = "accepted" => CostIn(plan, 0) <= MaxCost

\* The call returns although its defaults form cycles.
Returns == <>(phase \in {"accepted", "rejected"})

\* "Required() promises the key is ALWAYS present and non-null in the document"
\* (graph/compile.go:485): every edge a planned resource declares required and
\* default is in the plan.
RequiredAlwaysPlanned ==
    phase = "accepted" =>
        \A p \in DOMAIN plan : plan[p].resource # None =>
            \A k \in Range(in.graph.defaults[plan[p].resource]) :
                LET e == EdgeAt(plan[p].resource, k) IN
                e # None /\ e.required => Append(p, k) \in DOMAIN plan
=============================================================================
