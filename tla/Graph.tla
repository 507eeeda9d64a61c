------------------------------- MODULE Graph -------------------------------
(***************************************************************************)
(* The graph Compile returns (graph/graph.go and buildEdge), and what the  *)
(* engine, the document and the clients rely on in it.                     *)
(***************************************************************************)
EXTENDS Compile

CONSTANT Raws       \* the list requests considered

ASSUME RawsAssumption ==
    \A raw \in Raws :
        /\ raw.sort \in Sorts(STRING) \cup {None}
        /\ raw.limit \in Int /\ raw.page \in Int

-----------------------------------------------------------------------------
(* The graph: what its edges tell the engine, and its lookups. *)

\* defaultEdgeLimit.
DefaultEdgeLimit == 20
LimitOf(e) ==
    IF e.set.limit # None THEN e.set.limit
    ELSE IF e.kind \in {"reverse", "hasMany"} /\ ~e.set.bare THEN DefaultEdgeLimit
    ELSE 0

\* The edge's envelope, or its target's, or the graph's.
PlainEnvelope == [Key |-> "", Pagination |-> ""]
EnvelopeOf(e) ==
    LET ofTarget == IF e.target = None THEN None ELSE b.nodes[e.target].envelope
    IN  CASE e.kind = "computed" -> PlainEnvelope
          [] e.kind # "computed" /\ e.set.envelope # None -> e.set.envelope
          [] OTHER -> IF ofTarget # None THEN ofTarget
                      ELSE IF b.envelope # None THEN b.envelope ELSE PlainEnvelope

\* reverseSortCols: only a reverse edge carries the sort keys of its target.
SortColsOf(e) ==
    IF e.kind = "reverse" /\ e.target # None THEN SortCols(ShapeOf(e.target)) ELSE {}

\* Graph.FetchByIDs, FetchByParents, FetchByEdge and Roots.
FetchByIDs(n) == n \in compiled /\ b.nodes[n].fetchIDs
FetchByParents(n) == n \in compiled /\ b.nodes[n].fetchParents
FetchByEdge(n, key) == n \in compiled /\ key \in edgeFetch[n]
Roots == Picked(b.roots, compiled)

\* Reachable: a breadth-first walk over the includable edges.
IncludableFrom(n) == {e.target : e \in {x \in EdgesOf(n) : x.set.includable /\ x.target # None}}
Reachable(n) == Onward([m \in Nodes |-> IncludableFrom(m)], n)

-----------------------------------------------------------------------------
HasGraph == phase = "graph"

\* The engine serves every plan a request can make of a graph that compiled: on
\* every edge it may load, from any root, through whatever includes and defaults,
\* the lookup it makes finds a fetcher and the closures it calls are there; what
\* the document promises to be there always is a default that no guard takes
\* back; the rows of a to-many edge are counted where they multiply; a filterable
\* edge leads to a column; and no two members of a document share a name.  What
\* is documented from a root on is part of what is served (Compile, passes A to F;
\* Graph.Reachable; graphParents in include/ctx.go).
LoadedEdges(n) == Range(Loaded(n))
CountsRows(n, e) ==
    IF Unbounded(e)
    THEN e.set.estimatedRows # None
         \/ ~\E m \in Nodes : \E d \in LoadedEdges(m) : d.target = n /\ d.kind \in ManyEdgeKinds
    ELSE e.kind \in ManyEdgeKinds => LimitOf(e) >= 1
LeadsToColumn(t) ==
    \A S \in SUBSET Nodes :
        t \in S /\ (\A n \in S : FilterNext(n) \subseteq S) =>
            \E n \in S : FilterCols(ShapeOf(n)) # {}
HasFetcher(n, e) ==
    IF e.kind = "reverse" THEN FetchByEdge(n, e.key) \/ FetchByParents(e.target)
    ELSE FetchByIDs(e.target)
HasClosures(e) ==
    /\ e.kind = "toOne" => e.set.foreignKey = "fn"
    /\ e.kind \in {"hasMany", "inArray"} => e.set.foreignKeys = "fn"
KeepsPromise(n, e) ==
    e.set.required => e \in LoadedEdges(n) /\ Contains(defaults[n], e.key) /\ e.set.guard = "unset"
Wrapped(env) == env.Pagination # "" => env.Key \notin {"", env.Pagination}
GraphIsServable ==
    HasGraph =>
        /\ \A r \in Range(Roots) : \A n \in Reachable(r) : Reaches(n)
        /\ \A n \in Nodes : Reaches(n) =>
            /\ n \in compiled /\ b.nodes[n].Wire = "fn" /\ b.nodes[n].PrimaryKey = "fn"
            /\ \A e \in LoadedEdges(n) : HasFetcher(n, e) /\ HasClosures(e)
            /\ \A e \in EdgesOf(n) :
                  /\ KeepsPromise(n, e)
                  /\ CountsRows(n, e)
                  /\ e.set.filterable => LeadsToColumn(e.target)
                  /\ ~Contains(ShapeOf(n).fields, e.key)
                  /\ Wrapped(EnvelopeOf(e))

\* The options the engine consults for an edge: the key closure of its kind and
\* the guard when it loads it, the top-N and the sort of its query, the rows it
\* is estimated at, its args, the envelope around its value, and the policies of
\* a required edge and of one that reads a key (include/resolve.go and
\* include/materialize.go).
EngineReads(e) ==
    {o \in DOMAIN NoSettings :
        \/ o = "foreignKey" /\ e.kind = "toOne"
        \/ o = "foreignKeys" /\ e.kind \in {"hasMany", "inArray"}
        \/ o = "guard" /\ e.kind # "computed"
        \/ o \in {"limit", "bare"} /\ e.kind \in {"hasMany", "reverse"}
        \/ o = "estimatedRows" /\ Unbounded(e)
        \/ o = "sort" /\ e.set.sort # None /\ e.set.sort.key \in SortColsOf(e)
        \/ o = "args" /\ e.kind \in {"reverse", "computed"}
        \/ o = "envelope" /\ EnvelopeOf(e) = e.set.envelope
        \/ o = "inverse" /\ e.kind # "computed"
        \/ o = "filterable" /\ e.kind \in {"toOne", "hasMany", "reverse"}
        \/ o = "required" /\ e.kind = "toOne"
        \/ o \in {"policies", "includable"}}
PoliciesRead(e) ==
    (IF e.set.required THEN {"excludeRequired", "missingRequired"} ELSE {})
    \cup (IF e.kind \in {"toOne", "hasMany", "inArray"} THEN {"missingForeign"} ELSE {})

\* Nothing declared in a graph that compiled is without effect: every edge
\* declared is one of the graph's and every option of it one the engine reads ("A
\* silently-inert declaration is a bug the one-validation-point design must
\* surface", checkOptionMatrix).
NothingIsInert ==
    HasGraph =>
        \A n \in Nodes :
            /\ {e.set : e \in EdgesOf(n)} = {d.set : d \in Range(b.nodes[n].edges)}
            /\ \A e \in EdgesOf(n) :
                  /\ \A o \in DOMAIN NoSettings : e.set[o] # NoSettings[o] => o \in EngineReads(e)
                  /\ e.set.policies \subseteq PoliciesRead(e)
                  /\ e.set.bare => e.set.limit = None

FindingsAt(n, key) == {f.rule : f \in {x \in findings : x.node = Name(n) /\ x.edge = key}}

InverseRules == {"inverseUnknown", "inverseElsewhere", "inverseDirection", "inverseOther"}

\* A wiring without a mistake is never refused, and an edge without a kind is one
\* finding, whatever defaults and fetchers name it, and none at the edges that call
\* it their inverse ("Each is one finding here, not a cascade of confusing ones",
\* Compile).
NoFalseAlarm ==
    /\ slips = 0 => findings = {}
    /\ phase = "refused" =>
          \A n \in compiled : \A i \in DOMAIN b.nodes[n].edges :
              LET d == b.nodes[n].edges[i]
                  others == {j \in DOMAIN b.nodes[n].edges : b.nodes[n].edges[j].key = d.key} \ {i}
              IN  d.kind.kind = "" /\ d.key # "" /\ others = {} =>
                      /\ FindingsAt(n, d.key) = {"noKind"}
                      /\ \A m \in compiled : \A e \in BuiltEdges(m) :
                            e.target = n /\ e.set.inverse = d.key =>
                                FindingsAt(m, e.key) \cap InverseRules = {}

\* A request is accepted exactly when its parameters are ones the document lists,
\* and the page it then reads is within the documented limits (ResolveInputs,
\* InputParams, compileInputs).
Documented(doc, raw) ==
    /\ raw.sort # None => raw.sort \in doc.sort
    /\ raw.limit # 0 => raw.limit \in 1..doc.maxLimit
    /\ raw.page # 0 => doc.paging = "page" /\ raw.page >= 1
    /\ raw.cursor # None => doc.paging = "cursor"
    /\ raw.where # None => raw.where \in doc.where
ListingsMatchDocument ==
    HasGraph =>
        \A n \in Range(Roots), raw \in Raws :
            LET in == SettlePage(inputs[n])
                doc == InputParams(in)
                q == ResolveInputs(in, ShapeOf(n).cols, raw)
            IN  /\ q.error = None <=> Documented(doc, raw)
                /\ q.error = None => q.limit \in 1..doc.maxLimit
                /\ doc.sortDefault # None => doc.sortDefault \in doc.sort
=============================================================================
