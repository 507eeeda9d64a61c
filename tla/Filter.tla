------------------------------- MODULE Filter -------------------------------
(***************************************************************************)
(* ResolveFilter of include/filter.go: the condition tree a parser made is *)
(* checked against the graph and becomes its SQL-side twin or a 400.  One  *)
(* behaviour is one call.                                                  *)
(*                                                                         *)
(* A tree is a function on positions; a position is the sequence of member *)
(* numbers from the root, the first member being 1.  The recursion visits  *)
(* positions in document order and stops at the first fault.               *)
(***************************************************************************)
EXTENDS Integers, SequencesExt, FiniteSetsExt

CONSTANTS Resources,
          Keys,           \* edge keys a client may write, unknown ones among them
          Quants,         \* quantifiers a client may write, Nil for none
          Fields,         \* column names a client may write
          Ops,            \* operators a client may write, unknown ones among them
          Nil,            \* a nil interface or pointer; the empty quantifier
          Edges,          \* Edges[r][k]: the edge of that key, or Nil
          Columns,        \* Columns[r][f]: the column of that name, or Nil
          DefaultLimits,
          Inputs          \* the calls considered: see IsInput

VARIABLES
    in,          \* the arguments of the call
    pc,          \* "resolve" a position, "hop" along a path, or "done"
    at,          \* the position being resolved
    hops,        \* the hops of the condition at that position
    many,        \* its to-many hops
    nodes,       \* positions seen so far
    subqueries,  \* to-many hops seen so far, tree-wide
    out,         \* the resolved nodes so far
    err          \* the *Error returned, or Nil

vars == <<in, pc, at, hops, many, nodes, subqueries, out, err>>

-----------------------------------------------------------------------------
Quantifiers == {"any", "all", "none"}
Equality == {"eq", "ne", "in", "nin"}
Ordering == {"lt", "lte", "gt", "gte"}

\* A column's Go type by what the operator matrix can tell of it: "plain" is
\* bool, "ordered" numbers, strings and times, "opaque" everything else.
OpAllowed(op, type) == \/ op \in Equality /\ type \in {"plain", "ordered"}
                       \/ op \in Ordering /\ type = "ordered"

\* target is Nil when the edge has none (computed), "nowhere" when the thunk of
\* a hand-built graph answers nil.
Edge == [target : Resources \cup {Nil, "nowhere"}, many : BOOLEAN, filterable : BOOLEAN]
Column == [filterable : BOOLEAN, type : {"plain", "ordered", "opaque"}]

\* A part of an error path: text the client wrote, whole or clipped.
Part == [text : Keys \cup Quants \cup Fields \cup Ops, clipped : BOOLEAN]
Error == [code : {"INVALID_FILTER", "FILTER_TOO_DEEP", "FILTER_TOO_EXPENSIVE"},
          position : Seq(Nat \ {0}), path : Seq(Part), more : BOOLEAN]

ASSUME GraphAssumption ==
    /\ Edges \in [Resources -> [Keys -> Edge \cup {Nil}]]
    /\ Columns \in [Resources -> [Fields -> Column \cup {Nil}]]
    /\ Nil \notin Resources \cup Quantifiers \cup Edge \cup Column \cup Error
    /\ Nil \notin Seq(Nat \ {0})
    /\ "nowhere" \notin Resources

Bounds == {"MaxFilterDepth", "MaxFilterMany", "MaxFilterNodes", "MaxFilterSubqueries"}

ASSUME LimitsAssumption == DefaultLimits \in [Bounds -> Nat \ {0}]

Groups == {"and", "or"}
Kinds == Groups \cup {"cond", "nil", "nilPointer", "foreign"}

\* The arguments of one call: a finite prefix-closed tree, where only groups have
\* members.  "nil" is a nil interface, "nilPointer" a nil pointer to a node,
\* "foreign" a type of the application that embeds one.
IsInput(i) ==
    LET f == i.filter
    IN  /\ i.root \in Resources \cup {Nil}
        /\ i.limits \in [Bounds -> Nat]
        /\ <<>> \in DOMAIN f
        /\ IsFiniteSet(DOMAIN f)
        /\ \A p \in DOMAIN f :
              /\ p \in Seq(Nat \ {0})
              /\ f[p].kind \in Kinds
              /\ f[p].kind = "cond" => /\ f[p].path \in Seq([key : Keys, quant : Quants])
                                       /\ f[p].field \in Fields
                                       /\ f[p].op \in Ops
              /\ p # <<>> => /\ Front(p) \in DOMAIN f
                             /\ f[Front(p)].kind \in Groups
                             /\ \A n \in 1..Last(p) : Append(Front(p), n) \in DOMAIN f

ASSUME InputsAssumption == \A i \in Inputs : IsInput(i)

Bound(name) == IF in.limits[name] = 0 THEN DefaultLimits[name] ELSE in.limits[name]

Node == in.filter[at]
Path == Node.path

\* Text of an error path: whole when the graph knows it, else clipped.
Whole(text) == [text |-> text, clipped |-> FALSE]
Echo(text) == [text |-> text, clipped |-> TRUE]
Known(n) == [k \in 1..n |-> Whole(Path[k].key)]

\* A rejected path, cut to n keys; more tells whether any were dropped.
Truncated(n) ==
    [path |-> [k \in 1..(IF Len(Path) < n THEN Len(Path) ELSE n) |-> Echo(Path[k].key)],
     more |-> Len(Path) > n]

-----------------------------------------------------------------------------
Init ==
    /\ in \in Inputs
    /\ pc = "resolve"
    /\ at = <<>>
    /\ hops = <<>>
    /\ many = 0
    /\ nodes = 0
    /\ subqueries = 0
    /\ out = <<>>
    /\ err = Nil

\* The call fails, blaming a position of the tree or the text of a condition.
Fail(code, position, path) ==
    /\ pc' = "done"
    /\ err' = [code |-> code, position |-> position, path |-> path, more |-> FALSE]
    /\ UNCHANGED <<in, at, hops, many, out>>

\* A too-deep condition echoes its leading keys.
FailTooDeep ==
    /\ pc' = "done"
    /\ err' = LET cut == Truncated(Bound("MaxFilterDepth") + 1)
              IN  [code |-> "FILTER_TOO_DEEP", position |-> <<>>, path |-> cut.path, more |-> cut.more]
    /\ UNCHANGED <<in, at, hops, many, out>>

\* Document order, and what follows a position in it.
Before(p, q) ==
    \/ IsStrictPrefix(p, q)
    \/ \E k \in 1..Len(p) : /\ k <= Len(q)
                            /\ p[k] < q[k]
                            /\ \A j \in 1..(k - 1) : p[j] = q[j]
Following(p) ==
    LET rest == {q \in DOMAIN in.filter : Before(p, q)}
        next == {q \in rest : \A o \in rest : ~Before(o, q)}
    IN  IF next = {} THEN Nil ELSE CHOOSE q \in next : TRUE

\* A position is resolved; the walk goes on to the next one or returns.
Resolved(node) ==
    /\ out' = [p \in DOMAIN out \cup {at} |-> IF p = at THEN node ELSE out[p]]
    /\ IF Following(at) = Nil THEN pc' = "done" /\ UNCHANGED at
                              ELSE pc' = "resolve" /\ at' = Following(at)

-----------------------------------------------------------------------------
\* No filter resolves to none, whatever the root.
NoFilter ==
    /\ pc = "resolve" /\ at = <<>> /\ Node.kind = "nil"
    /\ pc' = "done"
    /\ UNCHANGED <<in, at, hops, many, nodes, subqueries, out, err>>

NoRoot ==
    /\ pc = "resolve" /\ at = <<>> /\ Node.kind # "nil" /\ in.root = Nil
    /\ Fail("INVALID_FILTER", <<>>, <<>>)
    /\ UNCHANGED <<nodes, subqueries>>

\* A nil member is refused by its group, before it is counted.
NilMember ==
    /\ pc = "resolve" /\ at # <<>> /\ Node.kind = "nil"
    /\ Fail("INVALID_FILTER", at, <<>>)
    /\ UNCHANGED <<nodes, subqueries>>

Visit ==
    /\ pc = "resolve" /\ Node.kind # "nil" /\ in.root # Nil
    /\ nodes' = nodes + 1
    /\ UNCHANGED subqueries

OverNodes == nodes + 1 > Bound("MaxFilterNodes")

TooManyNodes ==
    /\ Visit
    /\ OverNodes
    /\ Fail("FILTER_TOO_DEEP", <<>>, <<>>)

IsEmpty(p) == Append(p, 1) \notin DOMAIN in.filter

\* A nil pointer, a foreign type, a group without members.
Malformed ==
    /\ Visit
    /\ ~OverNodes
    /\ Node.kind \in {"nilPointer", "foreign"} \/ (Node.kind \in Groups /\ IsEmpty(at))
    /\ Fail("INVALID_FILTER", at, <<>>)

OpenGroup ==
    /\ Visit
    /\ ~OverNodes
    /\ Node.kind \in Groups /\ ~IsEmpty(at)
    /\ Resolved([kind |-> Node.kind])
    /\ UNCHANGED <<in, hops, many, err>>

PathTooLong ==
    /\ Visit
    /\ ~OverNodes
    /\ Node.kind = "cond" /\ Len(Path) > Bound("MaxFilterDepth")
    /\ FailTooDeep

\* Mutants of OpenCond: a condition keeps the hops, or the to-many count, of the
\* one before it.
OpenCondReusesHops ==
    /\ Visit
    /\ ~OverNodes
    /\ Node.kind = "cond" /\ Len(Path) <= Bound("MaxFilterDepth")
    /\ pc' = "hop"
    /\ many' = 0
    /\ UNCHANGED <<in, at, hops, out, err>>

OpenCondKeepsMany ==
    /\ Visit
    /\ ~OverNodes
    /\ Node.kind = "cond" /\ Len(Path) <= Bound("MaxFilterDepth")
    /\ pc' = "hop"
    /\ hops' = <<>>
    /\ UNCHANGED <<in, at, many, out, err>>

\* A condition: its path is walked from the root with a count of its own.
OpenCond ==
    /\ Visit
    /\ ~OverNodes
    /\ Node.kind = "cond" /\ Len(Path) <= Bound("MaxFilterDepth")
    /\ pc' = "hop"
    /\ hops' = <<>>
    /\ many' = 0
    /\ UNCHANGED <<in, at, out, err>>

-----------------------------------------------------------------------------
\* The resource the walk stands on, the step it takes and the edge it crosses.
Current == IF hops = <<>> THEN in.root ELSE Last(hops).to
Step == Path[Len(hops) + 1]
EdgeHere == Edges[Current][Step.key]

Hopping == pc = "hop" /\ Len(hops) < Len(Path)

UnknownEdge ==
    /\ Hopping
    /\ EdgeHere = Nil
    /\ Fail("INVALID_FILTER", <<>>, Append(Known(Len(hops)), Echo(Step.key)))
    /\ UNCHANGED <<nodes, subqueries>>

Traversable(e) == e.filterable /\ e.target # Nil

EdgeNotFilterable ==
    /\ Hopping
    /\ EdgeHere # Nil /\ ~Traversable(EdgeHere)
    /\ Fail("INVALID_FILTER", <<>>, Known(Len(hops) + 1))
    /\ UNCHANGED <<nodes, subqueries>>

\* A quantifier belongs to a to-many hop, and to nothing else.
QuantifierFits(e, quant) == IF e.many THEN quant \in Quantifiers ELSE quant = Nil

BadQuantifier ==
    /\ Hopping
    /\ EdgeHere # Nil /\ Traversable(EdgeHere)
    /\ ~QuantifierFits(EdgeHere, Step.quant)
    /\ Fail("INVALID_FILTER", <<>>,
            Known(Len(hops) + 1) \o (IF Step.quant = Nil THEN <<>> ELSE <<Echo(Step.quant)>>))
    /\ UNCHANGED <<nodes, subqueries>>

Crossing ==
    /\ Hopping
    /\ EdgeHere # Nil /\ Traversable(EdgeHere)
    /\ QuantifierFits(EdgeHere, Step.quant)

TooManyMany ==
    /\ Crossing
    /\ EdgeHere.many /\ many + 1 > Bound("MaxFilterMany")
    /\ FailTooDeep
    /\ UNCHANGED <<nodes, subqueries>>

\* A mutant of Crossed: a condition counts once, not per hop.
CrossedOnce == IF EdgeHere.many /\ many = 0 THEN 1 ELSE 0
Crossed == IF EdgeHere.many THEN 1 ELSE 0

\* A to-many hop counts for its path and for the tree.
Cross ==
    /\ Crossing
    /\ EdgeHere.many => many + 1 <= Bound("MaxFilterMany")
    /\ subqueries' = subqueries + Crossed
    /\ UNCHANGED nodes

TargetMissing ==
    /\ Cross
    /\ EdgeHere.target = "nowhere"
    /\ Fail("INVALID_FILTER", <<>>, Known(Len(hops) + 1))

Hop ==
    /\ Cross
    /\ EdgeHere.target # "nowhere"
    /\ hops' = Append(hops, [key |-> Step.key, quant |-> Step.quant, from |-> Current, to |-> EdgeHere.target])
    /\ many' = many + Crossed
    /\ UNCHANGED <<in, pc, at, out, err>>

-----------------------------------------------------------------------------
AtLeaf == pc = "hop" /\ Len(hops) = Len(Path)

\* Mutants of OverSubqueries: the limit itself is refused; or only the whole tree
\* is judged.
OverSubqueriesEarly == subqueries >= Bound("MaxFilterSubqueries")
OverSubqueriesAtEnd == subqueries > Bound("MaxFilterSubqueries") /\ Following(at) = Nil

\* The tree-wide count is judged once a path is walked.
OverSubqueries == subqueries > Bound("MaxFilterSubqueries")

TooExpensive ==
    /\ AtLeaf
    /\ OverSubqueries
    /\ Fail("FILTER_TOO_EXPENSIVE", <<>>, <<>>)
    /\ UNCHANGED <<nodes, subqueries>>

ColumnHere == Columns[Current][Node.field]

\* A mutant of LeafFault: an unknown column is echoed whole.
LeafFaultWhole ==
    IF ColumnHere = Nil \/ ~ColumnHere.filterable THEN <<Whole(Node.field)>>
    ELSE <<Whole(Node.field), Echo(Node.op)>>

\* The text that blames a leaf: its column, or its operator.
LeafFault ==
    IF ColumnHere = Nil THEN <<Echo(Node.field)>>
    ELSE IF ~ColumnHere.filterable THEN <<Whole(Node.field)>>
    ELSE <<Whole(Node.field), Echo(Node.op)>>

Admitted == /\ ColumnHere # Nil
            /\ ColumnHere.filterable
            /\ OpAllowed(Node.op, ColumnHere.type)

BadLeaf ==
    /\ AtLeaf
    /\ ~OverSubqueries
    /\ ~Admitted
    /\ Fail("INVALID_FILTER", <<>>, Known(Len(Path)) \o LeafFault)
    /\ UNCHANGED <<nodes, subqueries>>

ResolveCond ==
    /\ AtLeaf
    /\ ~OverSubqueries
    /\ Admitted
    /\ Resolved([kind |-> "cond", hops |-> hops, column |-> ColumnHere, node |-> Current, op |-> Node.op])
    /\ UNCHANGED <<in, hops, many, nodes, subqueries, err>>

Returned == pc = "done" /\ UNCHANGED vars

Next ==
    \/ NoFilter \/ NoRoot \/ NilMember
    \/ TooManyNodes \/ Malformed \/ OpenGroup \/ PathTooLong \/ OpenCond
    \/ UnknownEdge \/ EdgeNotFilterable \/ BadQuantifier \/ TooManyMany \/ TargetMissing \/ Hop
    \/ TooExpensive \/ BadLeaf \/ ResolveCond
    \/ Returned

\* One goroutine runs the call to its end.
Spec == Init /\ [][Next]_vars /\ WF_vars(Next)

-----------------------------------------------------------------------------
\* FilterSubqueries: what an application reads back from a resolved tree.
FilterSubqueries(resolved) ==
    LET Hops(p) == IF resolved[p].kind = "cond" THEN resolved[p].hops ELSE <<>>
    IN  SumFunction([p \in DOMAIN resolved |->
                        Cardinality({k \in DOMAIN Hops(p) : Hops(p)[k].quant # Nil})])

-----------------------------------------------------------------------------
\* What the documentation of Limits and ResolveFilter asks of a tree, stated
\* without a walk.

\* Where the first k steps of a path lead, Nil when they lead nowhere.
Place(path, k) ==
    LET place[n \in 0..Len(path)] ==
            IF n = 0 THEN in.root
            ELSE LET r == place[n - 1]
                     e == IF r \in Resources THEN Edges[r][path[n].key] ELSE Nil
                 IN  IF e = Nil THEN Nil
                     ELSE IF e.filterable /\ e.target \in Resources THEN e.target ELSE Nil
    IN  place[k]

EdgeOf(path, k) == Edges[Place(path, k - 1)][path[k].key]
ToMany(path) == {k \in DOMAIN path : EdgeOf(path, k).many}

LegalPath(path) ==
    /\ \A k \in 0..Len(path) : Place(path, k) # Nil
    /\ \A k \in DOMAIN path : QuantifierFits(EdgeOf(path, k), path[k].quant)

LegalCond(c) ==
    /\ Len(c.path) <= Bound("MaxFilterDepth")
    /\ LegalPath(c.path)
    /\ Cardinality(ToMany(c.path)) <= Bound("MaxFilterMany")
    /\ LET col == Columns[Place(c.path, Len(c.path))][c.field]
       IN  col # Nil /\ col.filterable /\ OpAllowed(c.op, col.type)

LegalNode(p) ==
    \/ in.filter[p].kind \in Groups /\ ~IsEmpty(p)
    \/ in.filter[p].kind = "cond" /\ LegalCond(in.filter[p])

ToManyOf(p) ==
    IF in.filter[p].kind = "cond" THEN Cardinality(ToMany(in.filter[p].path)) ELSE 0
ToManyHops(S) == SumFunctionOnSet([p \in DOMAIN in.filter |-> ToManyOf(p)], S)

LegalPart(S) ==
    /\ \A p \in S : LegalNode(p)
    /\ Cardinality(S) <= Bound("MaxFilterNodes")
    /\ ToManyHops(S) <= Bound("MaxFilterSubqueries")

Absent == in.filter[<<>>].kind = "nil"
Refused == pc = "done" /\ err # Nil
Accepted == pc = "done" /\ err = Nil /\ ~Absent

-----------------------------------------------------------------------------
TypeOK ==
    /\ pc \in {"resolve", "hop", "done"}
    /\ at \in DOMAIN in.filter
    /\ many \in Nat /\ nodes \in Nat /\ subqueries \in Nat
    /\ err \in Error \cup {Nil}
    /\ pc = "hop" => Node.kind = "cond" /\ Len(hops) <= Len(Path)
    /\ pc # "done" => DOMAIN out = {p \in DOMAIN in.filter : Before(p, at)}

\* A filter is resolved exactly when all its conditions are legal and the tree
\* is within every limit; the order of the checks and where the counters are
\* kept do not show in the verdict.
VerdictIsRight ==
    pc = "done" /\ ~Absent => (err = Nil <=> in.root # Nil /\ LegalPart(DOMAIN in.filter))

\* The first fault in document order is the one reported, and within one
\* condition the narrower one: what precedes it is legal, a tree is called too
\* expensive only when the condition that broke the total broke no bound of its
\* own and names only edges it may cross, and a condition is called invalid
\* only where its own path or column is at fault.
FirstFaultWins ==
    Refused /\ in.root # Nil =>
        LET seen == {p \in DOMAIN in.filter : Before(p, at)}
            narrow == Node.kind = "cond" => /\ Len(Path) <= Bound("MaxFilterDepth")
                                            /\ LegalPath(Path)
                                            /\ Cardinality(ToMany(Path)) <= Bound("MaxFilterMany")
        IN  /\ LegalPart(seen)
            /\ ~LegalPart(seen \cup {at})
            /\ err.code = "FILTER_TOO_EXPENSIVE" =>
                  narrow /\ ToManyHops(seen \cup {at}) > Bound("MaxFilterSubqueries")
            /\ err.code = "FILTER_TOO_DEEP" =>
                  ~narrow \/ Cardinality(seen) >= Bound("MaxFilterNodes")
            /\ err.code = "INVALID_FILTER" =>
                  ~LegalNode(at) /\ (err.position = at \/ Node.kind = "cond")

\* The resolved tree has the shape of the client's; every condition walks from
\* the root, each hop starting where the last one ended, to the node that owns
\* its column; and the number of sub-queries an application reads back is the
\* number of to-many edges the client crossed, the one compared to the limit.
ResolvedMirrorsFilter ==
    Accepted =>
        /\ DOMAIN out = DOMAIN in.filter
        /\ \A p \in DOMAIN out :
              /\ out[p].kind = in.filter[p].kind
              /\ out[p].kind = "cond" =>
                    LET c == in.filter[p]
                        h == out[p].hops
                    IN  /\ Len(h) = Len(c.path)
                        /\ \A k \in DOMAIN h : /\ h[k].key = c.path[k].key
                                              /\ h[k].quant = c.path[k].quant
                                              /\ h[k].from = Place(c.path, k - 1)
                                              /\ h[k].to = Place(c.path, k)
                        /\ out[p].node = Place(c.path, Len(c.path))
                        /\ out[p].column = Columns[out[p].node][c.field]
        /\ FilterSubqueries(out) = ToManyHops(DOMAIN out)
        /\ FilterSubqueries(out) = subqueries
        /\ subqueries <= Bound("MaxFilterSubqueries")

\* However large the tree, a call counts at most one node more than allowed and
\* overshoots the tree-wide total by at most one path.
WorkIsBounded ==
    /\ nodes <= Bound("MaxFilterNodes") + 1
    /\ many <= Bound("MaxFilterMany")
    /\ subqueries <= Bound("MaxFilterSubqueries") + Bound("MaxFilterMany")
    /\ Len(hops) <= Bound("MaxFilterDepth")

\* Error paths are never sized by the client: they have at most two parts more
\* than the depth limit, and a part is whole only when the graph knows the name
\* at that place.
EchoIsBounded ==
    Refused =>
        LET EdgeKnown(r, k) == k \in Keys /\ Edges[r][k] # Nil
            ColumnKnown(r, f) == f \in Fields /\ Columns[r][f] # Nil
        IN  /\ Len(err.path) <= Bound("MaxFilterDepth") + 2
            /\ \A k \in DOMAIN err.path :
                  ~err.path[k].clipped =>
                      /\ k <= Len(Path) + 1
                      /\ Place(Path, k - 1) # Nil
                      /\ \/ EdgeKnown(Place(Path, k - 1), err.path[k].text)
                         \/ ColumnKnown(Place(Path, k - 1), err.path[k].text)
=============================================================================
