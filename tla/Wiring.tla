------------------------------- MODULE Wiring -------------------------------
(***************************************************************************)
(* The passes of Builder.Compile (graph/compile.go) over what was declared:*)
(* which nodes and edges count, what they stand for, and every rule a      *)
(* declaration can break.  A finding is the node and edge it names and the *)
(* rule that was broken.                                                   *)
(***************************************************************************)
EXTENDS Builder

CONSTANT Unsafe     \* the member names that need escaping in JSON

VARIABLES
    compiled,   \* the nodes that count
    byWire,     \* the node each wire type stands for
    edges,      \* edgesByNode: the edges of each node, in order, targets resolved
    edgeFetch,  \* the keys of each node's edges that have a fetcher of their own
    defaults,   \* each node's default keys, the required ones added
    shapes,     \* the wire shape of each node
    inputs      \* the list inputs of each node, resolved

tableVars == <<compiled, byWire, edges, edgeFetch, defaults, shapes, inputs>>

-----------------------------------------------------------------------------
Nodes == DOMAIN b.nodes
Name(n) == b.nodes[n].name
ShapeOf(n) == shapes[n]
Finding(n, key, r) == [node |-> Name(n), edge |-> key, rule |-> r]

\* byName: the first node of a name is the one that counts.
CompiledNodes ==
    {n \in Nodes : Name(n) # "" /\ \A m \in Nodes : m < n => Name(m) # Name(n)}
\* byWire: the first of them that has a wire type.
NodesByWire ==
    LET owners == [w \in Wires |-> {n \in CompiledNodes : b.nodes[n].wire = w}]
    IN  [w \in {x \in Wires : owners[x] # {}} |-> Min(owners[w])]

\* seen and edgeOrder: an edge without a key or a second one of a key counts for
\* nothing; one without a kind is known and no more.
FirstOfKey(own) ==
    {i \in DOMAIN own : own[i].key # "" /\ \A j \in 1..(i - 1) : own[j].key # own[i].key}
Resolved(d) ==
    [key |-> d.key, kind |-> d.kind.kind, ends |-> d.kind, relation |-> d.relation,
     set |-> d.set,
     target |-> IF d.kind.target \in DOMAIN byWire THEN byWire[d.kind.target] ELSE None]
\* EdgeTableBuilt is a mutant: an edge without a kind is forgotten.
EdgeTableBuilt(n) ==
    LET own == b.nodes[n].edges
        seen == Selected([i \in DOMAIN own |-> i],
                         {i \in FirstOfKey(own) : own[i].kind.kind # ""})
    IN  [j \in DOMAIN seen |-> Resolved(own[seen[j]])]
EdgeTable(n) ==
    LET own == b.nodes[n].edges
        seen == Selected([i \in DOMAIN own |-> i], FirstOfKey(own))
    IN  [j \in DOMAIN seen |-> Resolved(own[seen[j]])]
EdgeTables == [n \in Nodes |-> IF n \in compiled THEN EdgeTable(n) ELSE <<>>]

Skipped(e) == e.kind = ""
EdgesOf(n) == Range(edges[n])
BuiltEdges(n) == {e \in EdgesOf(n) : ~Skipped(e)}
KeysOf(n) == {e.key : e \in EdgesOf(n)}
EdgeNamed(n, key) == CHOOSE e \in EdgesOf(n) : e.key = key

IsForward(kind) == kind \in {"toOne", "hasMany", "inArray"}
Unbounded(e) == e.kind = "inArray" \/ (e.set.bare /\ e.kind \in {"reverse", "hasMany"})

-----------------------------------------------------------------------------
(* Pass A, node identity, and pass B, what a node is alone. *)

IdentityFaults(n) ==
    {r \in {"noName", "duplicateNode", "wireTaken"} :
        \/ r = "noName" /\ Name(n) = ""
        \/ r = "duplicateNode" /\ Name(n) # "" /\ n \notin CompiledNodes
        \/ r = "wireTaken" /\ n \in CompiledNodes /\ NodesByWire[b.nodes[n].wire] # n}

\* checkEnvelope; an undeclared envelope is always valid.
EnvelopeFaults(env) ==
    IF env = None THEN {}
    ELSE {r \in {"paginationAlone", "envelopeCollides", "envelopeUnsafe"} :
            \/ r = "paginationAlone" /\ env.Key = "" /\ env.Pagination # ""
            \/ r = "envelopeCollides" /\ env.Key # "" /\ env.Key = env.Pagination
            \/ r = "envelopeUnsafe" /\ {env.Key, env.Pagination} \cap Unsafe # {}}

\* checkNodeClosures.
ClosureFaults(n) ==
    {r \in {"Wire", "PrimaryKey", "Enrich"} :
        \/ r \in {"Wire", "PrimaryKey"} /\ b.nodes[n][r] # "fn"
        \/ r = "Enrich" /\ b.nodes[n].Enrich = "nil"}

NodeFaults(n, shape) ==
    shape.faults \cup ClosureFaults(n) \cup EnvelopeFaults(b.nodes[n].envelope)
    \cup InputFaults(b.nodes[n].inputs, shape)

-----------------------------------------------------------------------------
(* Pass C, the edges. *)

\* checkOptionMatrix: the options an edge declares and the kinds each is for.
OptionsOf(s) ==
    {o \in {"foreignKey", "foreignKeys", "guard"} : s[o] # "unset"}
    \cup {o \in {"limit", "sort", "envelope"} : s[o] # None}
    \cup {o \in {"bare"} : s.bare}
    \cup {o \in {"args"} : s.args # {}}
    \cup (s.policies \cap {"missingForeign"})
\* OptionKindsLoose is a mutant: every to-many edge may be sorted.
OptionKindsLoose ==
    [foreignKey |-> {"toOne"}, foreignKeys |-> {"hasMany", "inArray"},
     limit |-> {"reverse", "hasMany"}, bare |-> {"reverse", "hasMany"},
     sort |-> {"reverse", "hasMany"}, args |-> {"reverse", "computed"},
     guard |-> EdgeKinds \ {"computed"}, envelope |-> EdgeKinds \ {"computed"},
     missingForeign |-> {"toOne", "hasMany", "inArray"}]
OptionKinds ==
    [foreignKey |-> {"toOne"}, foreignKeys |-> {"hasMany", "inArray"},
     limit |-> {"reverse", "hasMany"}, bare |-> {"reverse", "hasMany"}, sort |-> {"reverse"},
     args |-> {"reverse", "computed"}, guard |-> EdgeKinds \ {"computed"},
     envelope |-> EdgeKinds \ {"computed"}, missingForeign |-> {"toOne", "hasMany", "inArray"}]
OptionFaults(kind, s) ==
    {o \in OptionsOf(s) : kind \notin OptionKinds[o]}
    \cup (IF s.required THEN {} ELSE s.policies \cap {"excludeRequired", "missingRequired"})

CountFaults(e) ==
    LET s == e.set IN
    {r \in {"limitBelowOne", "limitOnBare", "rowsOnBounded", "rowsBelowOne"} :
        \/ r = "limitBelowOne" /\ s.limit # None /\ s.limit < 1
        \/ r = "limitOnBare" /\ s.limit # None /\ s.bare
        \/ r = "rowsOnBounded" /\ s.estimatedRows # None /\ ~Unbounded(e)
        \/ r = "rowsBelowOne" /\ s.estimatedRows # None /\ s.estimatedRows < 1}

\* What the kind asks for.
KindFaults(e) ==
    LET s == e.set IN
    {r \in {"needsForeignKey", "needsForeignKeys", "needsBackref", "needsArrayPath",
            "computedInverse", "nilGuard"} :
        \/ r = "needsForeignKey" /\ e.kind = "toOne" /\ s.foreignKey # "fn"
        \/ r = "needsForeignKeys" /\ e.kind \in {"hasMany", "inArray"} /\ s.foreignKeys # "fn"
        \/ r = "needsBackref" /\ e.kind = "reverse" /\ e.ends.backref = "" /\ e.relation = ""
        \/ r = "needsArrayPath" /\ e.kind = "inArray" /\ "" \in {e.ends.arrayPath, e.ends.subField}
        \/ r = "computedInverse" /\ e.kind = "computed" /\ s.inverse # ""
        \/ r = "nilGuard" /\ s.guard = "nil"}

\* What required, filterable, args and sort ask for.
MeaningFaults(e) ==
    LET s == e.set IN
    {r \in {"requiredKind", "requiredGuarded", "filterableKind", "filterableGuarded",
            "filterableReserved", "limitArg", "sortUnknown"} :
        \/ r = "requiredKind" /\ s.required /\ e.kind # "toOne"
        \/ r = "requiredGuarded" /\ s.required /\ s.guard # "unset"
        \/ r = "filterableKind" /\ s.filterable /\ e.kind \in {"inArray", "computed"}
        \/ r = "filterableGuarded" /\ s.filterable /\ s.guard # "unset"
        \/ r = "filterableReserved" /\ s.filterable /\ e.key \in GroupKeys
        \/ r = "limitArg" /\ "limit" \in s.args
        \/ /\ r = "sortUnknown" /\ s.sort # None
           /\ e.target # None => s.sort.key \notin SortCols(ShapeOf(e.target))}

PlaceFaults(n, e) ==
    {r \in {"keyUnsafe", "keyCollides", "noTarget"} :
        \/ r = "keyUnsafe" /\ e.key \in Unsafe
        \/ r = "keyCollides" /\ Contains(ShapeOf(n).fields, e.key)
        \/ r = "noTarget" /\ e.kind # "computed" /\ e.target = None}

BuiltFaults(n, e) ==
    PlaceFaults(n, e) \cup KindFaults(e) \cup OptionFaults(e.kind, e.set)
    \cup CountFaults(e) \cup MeaningFaults(e) \cup EnvelopeFaults(e.set.envelope)

EdgeFindings(n, table) ==
    LET own == b.nodes[n].edges
        repeated == {i \in DOMAIN own : \E j \in 1..(i - 1) : own[j].key = own[i].key}
    IN  (UNION {{Finding(n, e.key, r) : r \in IF Skipped(e) THEN {"noKind"} ELSE BuiltFaults(n, e)} :
                  e \in Range(table)})
        \cup {Finding(n, own[i].key, IF own[i].key = "" THEN "noKey" ELSE "duplicateEdge") :
                  i \in {j \in DOMAIN own : own[j].key = "" \/ j \in repeated}}

\* A fetcher bound to an edge: of a reverse edge, typed by its target.
BindFault(n, key) ==
    IF key \notin KeysOf(n) THEN "bindNoEdge"
    ELSE LET e == EdgeNamed(n, key) IN
         IF Skipped(e) THEN "bindSkipped"
         ELSE IF e.kind # "reverse" THEN "bindKind"
         ELSE IF e.target \notin {None, b.nodes[n].edgeFetch[key]} THEN "bindTarget"
         ELSE "none"
ValidBinds(n) == {key \in DOMAIN b.nodes[n].edgeFetch : BindFault(n, key) = "none"}
BindFindings(n) ==
    {f \in {Finding(n, key, BindFault(n, key)) : key \in DOMAIN b.nodes[n].edgeFetch} :
        f.rule \notin {"none", "bindSkipped"}}

DefaultFindings(n) ==
    {Finding(n, key, "unknownDefault") : key \in Range(b.nodes[n].defaults) \ KeysOf(n)}

\* Required edges are defaults, after the declared ones.
RequiredKeys(n) ==
    LET unlisted == Selected(edges[n],
                        {e \in BuiltEdges(n) :
                            e.set.required /\ ~Contains(b.nodes[n].defaults, e.key)})
    IN  [j \in DOMAIN unlisted |-> unlisted[j].key]
\* DefaultsDeclared is a mutant: required edges are left out.
DefaultsDeclared(n) == b.nodes[n].defaults
DefaultsOf(n) == b.nodes[n].defaults \o RequiredKeys(n)

-----------------------------------------------------------------------------
(* Passes C2, C3 and D, what an edge is among others. *)

\* An unbounded edge of a node that a to-many edge leads to.
ManyTargets ==
    {e.target : e \in {x \in UNION {EdgesOf(m) : m \in Nodes} : x.kind \in ManyEdgeKinds}}
NeedsEstimate(n, e) == n \in ManyTargets /\ Unbounded(e) /\ e.set.estimatedRows = None

\* What node n leads to along next, in as many steps as there are nodes.
Onward(next, n) ==
    LET reach[i \in 0..Len(b.nodes)] ==
            IF i = 0 THEN {n}
            ELSE LET before == reach[i - 1] IN before \cup UNION {next[m] : m \in before}
    IN  reach[Len(b.nodes)]

\* hasFilterSurface: what filterable edges lead to, from a node on.
FilterNext(n) == {e.target : e \in {x \in BuiltEdges(n) : x.set.filterable}} \ {None}
FilterReach(n) == Onward([m \in Nodes |-> FilterNext(m)], n)
Inert(e) ==
    /\ e.set.filterable
    /\ e.target # None
    /\ e.kind # "inArray"
    /\ \A m \in FilterReach(e.target) : FilterCols(ShapeOf(m)) = {}

\* InverseFaultsAnyKind is a mutant: an inverse without a kind is judged as well.
InverseFaultsAnyKind(n, e) ==
    IF e.set.inverse = "" \/ e.target = None THEN {}
    ELSE IF e.set.inverse \notin KeysOf(e.target) THEN {"inverseUnknown"}
    ELSE LET inv == EdgeNamed(e.target, e.set.inverse) IN
         IF inv.target # n THEN {"inverseElsewhere"}
         ELSE {r \in {"inverseDirection", "inverseOther"} :
                 \/ r = "inverseDirection" /\ IsForward(e.kind) = IsForward(inv.kind)
                 \/ r = "inverseOther" /\ inv.set.inverse \notin {"", e.key}}
\* checkInverse: the edge named is there, leads back, the other way, and names
\* this one if it names any.
InverseFaults(n, e) ==
    IF e.set.inverse = "" \/ e.target = None THEN {}
    ELSE IF e.set.inverse \notin KeysOf(e.target) THEN {"inverseUnknown"}
    ELSE LET inv == EdgeNamed(e.target, e.set.inverse) IN
         IF Skipped(inv) THEN {}
         ELSE IF inv.target # n THEN {"inverseElsewhere"}
         ELSE {r \in {"inverseDirection", "inverseOther"} :
                 \/ r = "inverseDirection" /\ IsForward(e.kind) = IsForward(inv.kind)
                 \/ r = "inverseOther" /\ inv.set.inverse \notin {"", e.key}}

\* checkRelationBackref: the holder did name its foreign key, by no name.
BackrefEmpty(e) ==
    /\ e.relation # "" /\ e.kind = "reverse" /\ e.ends.backref = ""
    /\ e.target # None
    /\ \E held \in EdgesOf(e.target) :
          /\ held.key = e.set.inverse
          /\ held.set.foreignKey # "unset" \/ held.set.foreignKeys # "unset"

CrossFaults(n, e) ==
    InverseFaults(n, e)
    \cup {r \in {"needsEstimate", "filterInert", "backrefEmpty"} :
            \/ r = "needsEstimate" /\ NeedsEstimate(n, e)
            \/ r = "filterInert" /\ Inert(e)
            \/ r = "backrefEmpty" /\ BackrefEmpty(e)}
=============================================================================
