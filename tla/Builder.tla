------------------------------ MODULE Builder ------------------------------
(***************************************************************************)
(* The graph builder (graph/builder.go, edges.go, relation.go, fetch.go    *)
(* and spec.go): an application declares nodes, edges, relations and       *)
(* fetchers by calls that only record, in any order, and validates them    *)
(* all at once with Compile.                                               *)
(*                                                                         *)
(* The application is a script, a sequence of calls, one step each.  It    *)
(* may slip: leave a call out, or make one more before it compiles.        *)
(* Handles are positions: a node is the how-manieth declared, an edge the  *)
(* how-manieth of its node.                                                *)
(***************************************************************************)
EXTENDS ListInputs, Selection

CONSTANTS Scripts,      \* the sequences of calls considered
          Extras,       \* the runs of calls an application may make by mistake
          MaxSlips      \* bound: the slips of one application

VARIABLES
    script,     \* the calls still to be made
    slips,      \* how many slips were made
    b,          \* the Builder: nodes, roots, envelope, and the relation handles
    dead,       \* Builder.dead
    panicked    \* a call was made on a dead builder

builderVars == <<script, slips, b, dead, panicked>>

-----------------------------------------------------------------------------
EdgeKinds == {"toOne", "inArray", "hasMany", "reverse", "computed"}
ManyEdgeKinds == {"inArray", "hasMany", "reverse"}

\* EdgeKind and its constructors; the zero value has no kind.
NoKind == [kind |-> "", target |-> None, backref |-> "", arrayPath |-> "", subField |-> ""]
ToOne(w) == [NoKind EXCEPT !.kind = "toOne", !.target = w]
ToMany(w) == [NoKind EXCEPT !.kind = "hasMany", !.target = w]
Reverse2(w, field) == [NoKind EXCEPT !.kind = "reverse", !.target = w, !.backref = field]
InArray(w, path, sub) ==
    [NoKind EXCEPT !.kind = "inArray", !.target = w, !.arrayPath = path, !.subField = sub]
Computed == [NoKind EXCEPT !.kind = "computed"]

\* edgeSettings.  A closure is "unset", declared "nil", or "fn"; a number or an
\* envelope that was not declared is None.
NoSettings ==
    [foreignKey |-> "unset", foreignKeys |-> "unset", guard |-> "unset", inverse |-> "",
     required |-> FALSE, includable |-> FALSE, filterable |-> FALSE, bare |-> FALSE,
     limit |-> None, estimatedRows |-> None, envelope |-> None, sort |-> None,
     args |-> {}, policies |-> {}]

NewEdge(key, kind) == [key |-> key, kind |-> kind, relation |-> "", set |-> NoSettings]
NewNode(name, wire) ==
    [name |-> name, slug |-> "", wire |-> wire, Wire |-> "unset", PrimaryKey |-> "unset",
     Enrich |-> "unset", defaults |-> <<>>, docExternal |-> FALSE, envelope |-> None,
     inputs |-> None, edges |-> <<>>, fetchIDs |-> FALSE, fetchParents |-> FALSE,
     edgeFetch |-> <<>>]

\* Args and Policies add to what was declared before; the other setters replace.
SettersAdd == {"args", "policies"}
Updated(set, field, v) ==
    [set EXCEPT ![field] = IF field \in SettersAdd THEN @ \cup v ELSE v]
\* A setter of the edges hs.
WithSetting(nodes, hs, field, v) ==
    [n \in DOMAIN nodes |->
        [nodes[n] EXCEPT !.edges = [i \in DOMAIN nodes[n].edges |->
            LET e == nodes[n].edges[i]
            IN  IF <<n, i>> \in hs THEN [e EXCEPT !.set = Updated(e.set, field, v)] ELSE e]]]
WithEdge(nodes, n, e) == [nodes EXCEPT ![n].edges = Append(@, e)]
LastEdge(nodes, n) == <<n, Len(nodes[n].edges)>>

\* bindEdge: a nil fetcher takes the binding back.
Bind(binds, key, target, fn) ==
    [k \in IF fn THEN DOMAIN binds \cup {key} ELSE DOMAIN binds \ {key} |->
        IF k = key THEN target ELSE binds[k]]

-----------------------------------------------------------------------------
(* Relations: two edges declared by one call, each the inverse of the other.
   One holds the foreign key, the other is its reverse. *)

OneToMany(nodes, one, many, manyKey, oneKey) ==
    LET holder == [NewEdge(oneKey, ToOne(nodes[one].wire)) EXCEPT
                      !.relation = "OneToMany", !.set.inverse = manyKey]
        lister == [NewEdge(manyKey, Reverse2(nodes[many].wire, "")) EXCEPT
                      !.relation = "OneToMany", !.set.inverse = oneKey]
    IN  WithEdge(WithEdge(nodes, many, holder), one, lister)

ManyToMany(nodes, left, right, leftKey, rightKey) ==
    LET holder == [NewEdge(leftKey, ToMany(nodes[right].wire)) EXCEPT
                      !.relation = "ManyToMany", !.set.inverse = rightKey]
        lister == [NewEdge(rightKey, Reverse2(nodes[left].wire, "")) EXCEPT
                      !.relation = "ManyToMany", !.set.inverse = leftKey]
    IN  WithEdge(WithEdge(nodes, left, holder), right, lister)

\* The edges a relation's own setters reach.
SidesOf(r, field) ==
    IF field \in {"includable", "filterable", "envelope"} \/ (r.kind = "ManyToMany" /\ field = "limit")
    THEN {r.holder, r.lister}
    ELSE IF field \in {"required", "policies"} THEN {r.holder}
    ELSE {r.lister}

\* ForeignKey and ForeignKeys of a relation: the closure goes to the one side,
\* the field it reads to the other.
WithForeignKey(nodes, r, field, fn) ==
    LET closure == IF r.kind = "OneToMany" THEN "foreignKey" ELSE "foreignKeys"
        held == WithSetting(nodes, {r.holder}, closure, fn)
    IN  [held EXCEPT ![r.lister[1]].edges[r.lister[2]].kind.backref = field]

-----------------------------------------------------------------------------
(* Add: a node as a literal.  What is zero in it counts as not declared. *)

Closure(given) == IF given THEN "fn" ELSE "unset"
Declared(v, zero) == IF v = zero THEN None ELSE v
\* EdgeSpec.apply.
EdgeOfSpec(es) ==
    [NewEdge(es.key, es.kind) EXCEPT
        !.set = [es.set EXCEPT !.foreignKey = Closure(@), !.foreignKeys = Closure(@),
                               !.guard = Closure(@), !.limit = Declared(@, 0),
                               !.estimatedRows = Declared(@, 0)]]
NodeOfSpec(s) ==
    [s EXCEPT !.Wire = Closure(@), !.PrimaryKey = Closure(@), !.Enrich = Closure(@),
              !.edges = [i \in DOMAIN @ |-> EdgeOfSpec(@[i])]]

-----------------------------------------------------------------------------
(* The calls considered are ones Go's types admit; which nodes, edges and
   names they are about is the application's affair. *)

IsKind(k) == DOMAIN k = DOMAIN NoKind /\ k.kind \in EdgeKinds \cup {""}
IsSetting(field, v) ==
    /\ field \in DOMAIN NoSettings
    /\ field \in {"required", "includable", "filterable", "bare"} => v \in BOOLEAN
    /\ field \in {"limit", "estimatedRows"} => v \in Int \cup {None}
    /\ field = "policies" => v \subseteq {"excludeRequired", "missingRequired", "missingForeign"}
IsSettings(s) == DOMAIN s = DOMAIN NoSettings /\ \A f \in DOMAIN s : IsSetting(f, s[f])
IsListing(d) ==
    d # None =>
        /\ d.sort \in BOOLEAN /\ d.filter \in BOOLEAN
        /\ d.sortDefault # None => d.sortDefault \in Sorts(STRING)
        /\ d.defaultLimit \in Int /\ d.maxLimit \in Int

NodeFields == DOMAIN NewNode("", "")
IsSpec(s) ==
    /\ DOMAIN s = NodeFields
    /\ s.defaults \in Seq(STRING)
    /\ IsListing(s.inputs)
    /\ s.edges \in Seq(Range(s.edges))
    /\ \A e \in Range(s.edges) : e.key \in STRING /\ IsKind(e.kind) /\ IsSettings(e.set)

IsCall(c) ==
    /\ c.op = "Add" => IsSpec(c.spec)
    /\ c.op = "setNode" => /\ c.field \in NodeFields \ {"defaults", "edges", "edgeFetch"}
                           /\ c.field = "inputs" => IsListing(c.value)
    /\ c.op = "Defaults" => c.keys \in Seq(STRING)
    /\ c.op = "Edge" => c.key \in STRING /\ IsKind(c.kind)
    /\ c.op = "OneToMany" => {c.manyKey, c.oneKey} \subseteq STRING
    /\ c.op = "ManyToMany" => {c.leftKey, c.rightKey} \subseteq STRING
    /\ c.op \in {"setEdge", "setRelation"} => IsSetting(c.field, c.value)

ASSUME ScriptsAssumption ==
    \A s \in Scripts \cup Extras : s \in Seq(Range(s)) /\ \A c \in Range(s) : IsCall(c)

-----------------------------------------------------------------------------
BuilderInit ==
    /\ script \in Scripts
    /\ slips = 0
    /\ b = [nodes |-> <<>>, roots |-> <<>>, envelope |-> None, relations |-> <<>>]
    /\ dead = FALSE
    /\ panicked = FALSE

Call == Head(script)
\* The next call of the script is op, and the builder is live (mustLive).
NextCall(op) ==
    /\ ~dead
    /\ script # <<>>
    /\ Call.op = op
    /\ script' = Tail(script)
    /\ UNCHANGED <<slips, panicked>>
Calls(op) == NextCall(op) /\ UNCHANGED dead
Declares(nodes) == b' = [b EXCEPT !.nodes = nodes]

DeclareNode == Calls("Node") /\ Declares(Append(b.nodes, NewNode(Call.name, Call.wire)))

AddSpec == Calls("Add") /\ Declares(Append(b.nodes, NodeOfSpec(Call.spec)))

\* Slug, Wire, PrimaryKey, Enrich, DocExternal, Envelope, Inputs, FetchIDs and
\* FetchParents each replace what was declared.
SetNode == Calls("setNode") /\ Declares([b.nodes EXCEPT ![Call.node][Call.field] = Call.value])

Defaults == Calls("Defaults") /\ Declares([b.nodes EXCEPT ![Call.node].defaults = @ \o Call.keys])

DeclareEdge == Calls("Edge") /\ Declares(WithEdge(b.nodes, Call.node, NewEdge(Call.key, Call.kind)))

SetEdge == Calls("setEdge") /\ Declares(WithSetting(b.nodes, {Call.edge}, Call.field, Call.value))

Related(kind, nodes, h, l) ==
    LET last == LastEdge(nodes, h)
        holder == IF h = l THEN <<h, last[2] - 1>> ELSE last
    IN  b' = [b EXCEPT !.nodes = nodes,
                       !.relations = Append(@, [kind |-> kind, holder |-> holder,
                                                lister |-> LastEdge(nodes, l)])]
Relate ==
    \/ /\ Calls("OneToMany")
       /\ Related("OneToMany", OneToMany(b.nodes, Call.one, Call.many, Call.manyKey, Call.oneKey),
                  Call.many, Call.one)
    \/ /\ Calls("ManyToMany")
       /\ Related("ManyToMany",
                  ManyToMany(b.nodes, Call.left, Call.right, Call.leftKey, Call.rightKey),
                  Call.left, Call.right)

SetRelation ==
    /\ Calls("setRelation")
    /\ Declares(WithSetting(b.nodes, SidesOf(b.relations[Call.relation], Call.field),
                            Call.field, Call.value))

RelationForeignKey ==
    /\ Calls("relationForeignKey")
    /\ Declares(WithForeignKey(b.nodes, b.relations[Call.relation], Call.field, Call.fn))

FetchEdge ==
    /\ Calls("FetchEdge")
    /\ Declares([b.nodes EXCEPT ![Call.node].edgeFetch = Bind(@, Call.key, Call.target, Call.fn)])

\* FetchParents of a relation binds its reverse edge.
RelationFetch ==
    /\ Calls("relationFetch")
    /\ LET r == b.relations[Call.relation]
           key == b.nodes[r.lister[1]].edges[r.lister[2]].key
       IN  Declares([b.nodes EXCEPT ![r.lister[1]].edgeFetch = Bind(@, key, r.holder[1], Call.fn)])

\* A handle is one of a node that was declared.
Root ==
    /\ Calls("Root")
    /\ Call.node \in DOMAIN b.nodes
    /\ b' = [b EXCEPT !.roots = Append(@, Call.node)]

GraphEnvelope == Calls("Envelope") /\ b' = [b EXCEPT !.envelope = Call.value]

\* A declaration on a builder that was compiled.
LateCall ==
    /\ dead
    /\ ~panicked
    /\ panicked' = TRUE
    /\ UNCHANGED <<script, slips, b, dead>>

\* The application's mistakes: a setter it forgets, a call too many.
Forgettable == {"setNode", "Defaults", "setEdge", "setRelation", "relationForeignKey",
                "FetchEdge", "relationFetch", "Root", "Envelope"}
Forget ==
    /\ ~dead /\ script # <<>> /\ slips < MaxSlips
    /\ Call.op \in Forgettable
    /\ script' = Tail(script)
    /\ slips' = slips + 1
    /\ UNCHANGED <<b, dead, panicked>>
AddCall ==
    /\ ~dead /\ Len(script) = 1 /\ slips < MaxSlips   \* all but Compile is done
    /\ \E cs \in Extras : script' = cs \o script
    /\ slips' = slips + 1
    /\ UNCHANGED <<b, dead, panicked>>

Declare ==
    \/ DeclareNode \/ AddSpec \/ SetNode \/ Defaults \/ DeclareEdge \/ SetEdge \/ Relate
    \/ SetRelation \/ RelationForeignKey \/ FetchEdge \/ RelationFetch \/ Root
    \/ GraphEnvelope \/ Forget \/ AddCall
=============================================================================
