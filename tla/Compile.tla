------------------------------ MODULE Compile ------------------------------
(***************************************************************************)
(* Builder.Compile (graph/compile.go): the passes run one after the other, *)
(* every problem of one run is reported together, and with none a graph is *)
(* built.  The default-cycle and the fetcher checks walk the nodes step by *)
(* step (DefaultWalk, FetchWalk).                                          *)
(***************************************************************************)
EXTENDS Wiring, DefaultWalk, FetchWalk

VARIABLES
    phase,      \* the pass that is next, or the outcome
    findings    \* the findings so far

compileVars == <<phase, findings>>
vars == <<builderVars, tableVars, defaultVars, fetchVars, compileVars>>

-----------------------------------------------------------------------------
Init ==
    /\ BuilderInit
    /\ compiled = {} /\ byWire = <<>> /\ edges = <<>> /\ edgeFetch = <<>> /\ defaults = <<>>
    /\ shapes = <<>> /\ inputs = <<>>
    /\ DefaultInit
    /\ FetchInit
    /\ phase = "declare"
    /\ findings = {}

Declaring ==
    /\ phase = "declare"
    /\ Declare
    /\ UNCHANGED <<tableVars, defaultVars, fetchVars, compileVars>>

\* Compile kills the builder before anything else.
StartCompile ==
    /\ NextCall("Compile")
    /\ dead' = TRUE
    /\ phase' = "identity"
    /\ findings' = {[node |-> "", edge |-> "", rule |-> r] : r \in EnvelopeFaults(b.envelope)}
    /\ UNCHANGED <<b, tableVars, defaultVars, fetchVars>>

Late ==
    /\ phase \in {"graph", "refused"}
    /\ LateCall
    /\ UNCHANGED <<tableVars, defaultVars, fetchVars, compileVars>>

Reports(fs) == findings' = findings \cup fs
Of(n, faults) == {Finding(n, "", r) : r \in faults}
Pass(from, to) == phase = from /\ phase' = to /\ UNCHANGED builderVars

CheckIdentity ==
    /\ Pass("identity", "nodes")
    /\ Reports(UNION {Of(n, IdentityFaults(n)) : n \in Nodes})
    /\ compiled' = CompiledNodes
    /\ byWire' = NodesByWire
    /\ UNCHANGED <<edges, edgeFetch, defaults, shapes, inputs, defaultVars, fetchVars>>

CheckNodes ==
    /\ Pass("nodes", "edges")
    /\ shapes' = [n \in Nodes |-> Shapes[b.nodes[n].wire]]
    /\ Reports(UNION {Of(n, NodeFaults(n, shapes'[n])) : n \in compiled})
    /\ inputs' = [n \in Nodes |-> CompiledInputs(b.nodes[n].inputs, shapes'[n])]
    /\ UNCHANGED <<compiled, byWire, edges, edgeFetch, defaults, defaultVars, fetchVars>>

\* Pass C, in two turns: the edges, then what names them.
CheckEdges ==
    /\ Pass("edges", "names")
    /\ edges' = EdgeTables
    /\ Reports(UNION {EdgeFindings(n, edges'[n]) : n \in compiled})
    /\ UNCHANGED <<compiled, byWire, edgeFetch, defaults, shapes, inputs, defaultVars, fetchVars>>

CheckNames ==
    /\ Pass("names", "pairs")
    /\ Reports(UNION {BindFindings(n) \cup DefaultFindings(n) : n \in compiled})
    /\ edgeFetch' = [n \in Nodes |-> IF n \in compiled THEN ValidBinds(n) ELSE {}]
    /\ defaults' = [n \in Nodes |-> IF n \in compiled THEN DefaultsOf(n) ELSE b.nodes[n].defaults]
    /\ UNCHANGED <<compiled, byWire, edges, shapes, inputs, defaultVars, fetchVars>>

\* Default edges, in the order of the defaults.
DefaultLinks(n) ==
    LET keys == Selected(defaults[n], {e.key : e \in {x \in EdgesOf(n) : x.target # None}})
    IN  [j \in DOMAIN keys |-> [key |-> keys[j], target |-> EdgeNamed(n, keys[j]).target]]

CheckPairs ==
    /\ Pass("pairs", "cycles")
    /\ Reports(UNION {UNION {{Finding(n, e.key, r) : r \in CrossFaults(n, e)} :
                                 e \in BuiltEdges(n)} : n \in Nodes})
    /\ BeginDefaults([n \in Nodes |-> DefaultLinks(n)])
    /\ UNCHANGED <<tableVars, fetchVars>>

WalkDefaults ==
    /\ phase = "cycles"
    /\ DefaultStep
    /\ UNCHANGED <<builderVars, tableVars, fetchVars, compileVars>>

\* Every includable edge and every default one, in the order of declaration.
Loaded(n) ==
    Selected(edges[n], {e \in EdgesOf(n) :
                           e.target # None /\ (e.set.includable \/ Contains(defaults[n], e.key))})
Loads(n) ==
    LET es == Loaded(n)
    IN  [j \in DOMAIN es |-> [target |-> es[j].target, reverse |-> es[j].kind = "reverse",
                              served |-> es[j].key \in edgeFetch[n]]]
Once(s) == Picked(s, Range(s))

CheckCycles ==
    /\ DefaultsDone
    /\ Pass("cycles", "fetchers")
    /\ Reports({Finding(c[1], c[2], "defaultCycle") : c \in cycles})
    /\ BeginFetchers([n \in Nodes |-> Loads(n)], Once(b.roots))
    /\ UNCHANGED <<tableVars, defaultVars>>

WalkFetchers ==
    /\ phase = "fetchers"
    /\ FetchStep
    /\ UNCHANGED <<builderVars, tableVars, defaultVars, compileVars>>

\* A node somebody fetches by id or by parents has that fetcher; with no finding
\* at all the graph is built.
MissingFetchers(n) ==
    {r \in {"FetchIDs", "FetchParents"} :
        \/ r = "FetchIDs" /\ ~b.nodes[n].fetchIDs /\ \E d \in needIDs : d[2] = n
        \/ r = "FetchParents" /\ ~b.nodes[n].fetchParents /\ \E d \in needParents : d[2] = n}

CheckFetchers ==
    /\ FetchersDone
    /\ phase = "fetchers"
    /\ Reports(UNION {Of(n, MissingFetchers(n)) : n \in Nodes})
    /\ phase' = IF findings' = {} THEN "graph" ELSE "refused"
    /\ UNCHANGED <<builderVars, tableVars, defaultVars, fetchVars>>

Finished == phase \in {"graph", "refused"} /\ panicked /\ UNCHANGED vars

Next ==
    \/ Declaring \/ StartCompile \/ CheckIdentity \/ CheckNodes \/ CheckEdges \/ CheckNames
    \/ CheckPairs \/ WalkDefaults \/ CheckCycles \/ WalkFetchers \/ CheckFetchers \/ Late
    \/ Finished

Spec == Init /\ [][Next]_vars
=============================================================================
