----------------------------- MODULE SchemaFor -----------------------------
(***************************************************************************)
(* What apidoc publishes about an include tree, next to what ResolvePlan   *)
(* does with it: the response schema (SchemaFor) and the include paths     *)
(* (IncludePaths).  These are pure functions; they are evaluated on the    *)
(* call the planner is at.                                                 *)
(***************************************************************************)
EXTENDS Planner

\* A graph has finitely many resources, so its default chains end.
ASSUME ResourcesAssumption == IsFiniteSet(Resources)

DefaultLimits == [MaxDepth |-> 4, MaxNodes |-> 50, MaxCost |-> 5000]

\* Limits that are zero throughout are the defaults, here and not in the planner.
LimitsGiven == ~(in.opts.MaxDepth = 0 /\ in.opts.MaxNodes = 0 /\ in.opts.MaxCost = 0)
Lim == IF LimitsGiven
       THEN [MaxDepth |-> in.opts.MaxDepth, MaxNodes |-> in.opts.MaxNodes, MaxCost |-> in.opts.MaxCost]
       ELSE DefaultLimits

WithinTreeLimits == /\ \A p \in in.tree : Len(p) <= Lim.MaxDepth
                    /\ Cardinality(in.tree) - 1 <= Lim.MaxNodes

\* Some default of the target would be expanded: a computed one, or one that the
\* default chain does not cut.
\* HasLiveDefaultsAnyway is a mutant: it forgets the chain.
HasLiveDefaultsAnyway(target, seen) ==
    \E k \in Range(in.graph.defaults[target]) : EdgeAt(target, k) # None
HasLiveDefaults(target, seen) ==
    \E k \in Range(in.graph.defaults[target]) :
        LET e == EdgeAt(target, k)
        IN  e # None /\ (e.kind = "computed" \/ e.target \notin seen)

\* A level of the schema: a node of the response, with the default chain so far.
SchemaLevels == [path : Seq(Keys), resource : Resources, seen : SUBSET Resources]
LevelBelow(l, k) ==
    LET q == Append(l.path, k)
        target == EdgeAt(l.resource, k).target
    IN  [path |-> q, resource |-> target,
         seen |-> IF FromClient(q) THEN l.seen ELSE l.seen \cup {target}]

\* A default that is stale or cut is not in the response.
LeftOut(l, k) ==
    LET e == EdgeAt(l.resource, k)
    IN  /\ ~FromClient(Append(l.path, k))
        /\ e # None => e.kind # "computed" /\ e.target \in l.seen

\* What stands at a key: the declared schema of a computed edge, a reference to a
\* component, or an object inlined in its place.  A key the client may not use and
\* a client key below a computed edge are errors.
Descriptions == {"error", "computed", "ref", "object"}
SchemaForEdge(l, k) ==
    LET q == Append(l.path, k)
        e == EdgeAt(l.resource, k)
    IN  IF FromClient(q) /\ (e # None => ~e.includable) THEN "error"
        ELSE IF e.kind = "computed" THEN IF ClientKeys(q) = {} THEN "computed" ELSE "error"
        ELSE IF ClientKeys(q) = {} /\ ~HasLiveDefaults(e.target, LevelBelow(l, k).seen) THEN "ref"
        ELSE "object"

\* One level: an entry for each key present in the response, and those of the
\* levels inlined below it.
Present(l) == {k \in Range(Ordered(l.path, l.resource)) : ~LeftOut(l, k)}
Inlined(l) == {k \in Present(l) : SchemaForEdge(l, k) = "object"}
SchemaForNode[l \in SchemaLevels] ==
    {[path |-> Append(l.path, k), is |-> SchemaForEdge(l, k)] : k \in Present(l)}
        \cup UNION {SchemaForNode[LevelBelow(l, k)] : k \in Inlined(l)}

Schema == SchemaForNode[[path |-> <<>>, resource |-> in.root, seen |-> {in.root}]]
SchemaFails == ~WithinTreeLimits \/ \E s \in Schema : s.is = "error"

-----------------------------------------------------------------------------
\* IncludePaths: a walk over includable edges, MaxDepth levels deep; a computed
\* edge is a path and a leaf.
\* MayDescendAlways is a mutant, one level too deep.
MayDescendAlways(depth) == depth <= in.opts.MaxDepth
MayDescend(depth) == depth < in.opts.MaxDepth

PathLevels == [path : Seq(Keys), resource : Resources]
Includable(l) ==
    {k \in Keys : /\ MayDescend(Len(l.path))
                  /\ EdgeAt(l.resource, k) # None
                  /\ EdgeAt(l.resource, k).includable}
Walked(l) == {k \in Includable(l) : EdgeAt(l.resource, k).kind # "computed"}
PathBelow(l, k) == [path |-> Append(l.path, k), resource |-> EdgeAt(l.resource, k).target]
IncludePathsFrom[l \in PathLevels] ==
    {Append(l.path, k) : k \in Includable(l)}
        \cup UNION {IncludePathsFrom[PathBelow(l, k)] : k \in Walked(l)}
IncludePaths == IncludePathsFrom[[path |-> <<>>, resource |-> in.root]]

-----------------------------------------------------------------------------
Built == phase \in {"exclude", "cost", "accepted"}
NoArgsNorExcludes == in.exclude = <<>> /\ \A p \in in.tree : ArgsAt(p) = NoArgs
RejectedByBuild == phase = "rejected" /\ NoArgsNorExcludes /\ error.code # "INCLUDE_TOO_EXPENSIVE"

\* The recomputed schema mirrors the planner: it describes exactly the plan's
\* nodes before excludes, each once, refers to a component exactly where the plan
\* has nothing below, and fails exactly for the trees whose plan cannot be built
\* within the limits given (SchemaFor against ResolvePlan, two recursions with a
\* default chain each).
DescribedIn(pl, p) ==
    IF pl[p].edge.kind = "computed" THEN "computed"
    ELSE IF \E k \in Keys : Append(p, k) \in DOMAIN pl THEN "object" ELSE "ref"
SchemaMirrorsPlan ==
    /\ Built => /\ ~SchemaFails
                /\ Schema = {[path |-> p, is |-> DescribedIn(built, p)] : p \in DOMAIN built \ {<<>>}}
    /\ RejectedByBuild /\ LimitsGiven => SchemaFails

\* The published include paths are those a client may use: any tree of them
\* within the node limit is planned, and no other tree is (IncludePaths against
\* the checks of ResolvePlan).
PublishedPathsAreServed ==
    /\ Built => in.tree \ {<<>>} \subseteq IncludePaths
    /\ RejectedByBuild => \/ ~(in.tree \ {<<>>} \subseteq IncludePaths)
                          \/ Cardinality(in.tree) - 1 > in.opts.MaxNodes
=============================================================================
