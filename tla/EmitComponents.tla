--------------------------- MODULE EmitComponents ---------------------------
(***************************************************************************)
(* The components a graph contributes to the document (apidoc/emit.go):     *)
(* the nodes are collected along includable and default edges, their wire   *)
(* structs reflected without edges, the edges stitched in as $refs, and the *)
(* auxiliary components the structs brought along inlined by a fixpoint.    *)
(***************************************************************************)
EXTENDS Sequences, SchemaIR

CONSTANTS Nodes,     \* the resources
          Types,     \* the Go types
          Worlds     \* the graphs and structs to emit

VARIABLES in,        \* [nodes, types, roots]: one of Worlds
          phase,     \* "collect", "reflect", "inline", "emitted" or "failed"
          stack,     \* the stack of collectReachable
          seen,      \* the nodes it has collected
          stitched,  \* component name -> schema, after stitching
          work,      \* the schemas of inlineAux, round after round
          round      \* its rounds so far

emitVars == <<in, phase, stack, seen, stitched, work, round>>

Name(n) == in.nodes[n].name
Wire(n) == in.nodes[n].wire
NodeNames == {Name(n) : n \in seen}

-----------------------------------------------------------------------------
\* An external reflector: the struct types a set of types reaches, named by the
\* overrides or after themselves, each with a $ref per field of struct type. A
\* $ref is bare unless a tag annotates it or opaque bytes hold it.
FieldsOf(t) == in.types[t].fields
Reached(ts) == ReachedAlong([t \in Types |-> {f.type : f \in FieldsOf(t)}], ts)
DefName(t, overrides) == IF t \in DOMAIN overrides THEN overrides[t] ELSE in.types[t].name
ClaimedTwice(ts, overrides) ==
    \E s, t \in Reached(ts) : s # t /\ DefName(s, overrides) = DefName(t, overrides)
Reflection(t, overrides) ==
    Schema(in.types[t].kind, in.types[t].shape,
           {Ref(<<f.key>>, DefName(f.type, overrides), f.bare) : f \in FieldsOf(t)})
Reflect(ts, overrides) ==
    LET all == Reached(ts) IN
    [c \in {DefName(t, overrides) : t \in all} |->
        Reflection(CHOOSE t \in all : DefName(t, overrides) = c, overrides)]

-----------------------------------------------------------------------------
\* The edges a component documents.
DocumentedEdges(n) ==
    {e \in in.nodes[n].edges : e.includable \/ e.key \in in.nodes[n].defaults}

EmitInit ==
    /\ in \in Worlds
    /\ phase = "collect"
    /\ stack = in.roots
    /\ seen = {}
    /\ stitched = Empty
    /\ work = Empty
    /\ round = 0

\* One turn of collectReachable: the targets of a new node are pushed in the
\* order its edge map happens to yield them.
Collect ==
    /\ phase = "collect" /\ stack # <<>>
    /\ LET n == Last(stack)
           edges == {e \in DocumentedEdges(n) : ~e.computed}
           targets == {e.target : e \in edges} \ {t \in Nodes : in.nodes[t].external}
       IN  \/ /\ n \in seen
              /\ stack' = Front(stack)
              /\ UNCHANGED <<seen, phase>>
           \/ /\ n \notin seen /\ Name(n) \notin NodeNames /\ None \notin targets
              /\ seen' = seen \cup {n}
              /\ \E order \in SetToSeqs(targets) : stack' = Front(stack) \o order
              /\ UNCHANGED phase
           \/ /\ n \notin seen /\ (Name(n) \in NodeNames \/ None \in targets)
              /\ phase' = "failed"
              /\ UNCHANGED <<stack, seen>>
    /\ UNCHANGED <<in, stitched, work, round>>

-----------------------------------------------------------------------------
\* nodeOverrides: a wire type goes by the name of its node.
Overrides == [t \in {Wire(n) : n \in seen} |-> Name(CHOOSE n \in seen : Wire(n) = t)]
Nameable == /\ \A n \in seen : Wire(n) # None
            /\ \A m, n \in seen : Wire(m) = Wire(n) => Name(m) = Name(n)

\* edgeValue and setProp: the edge takes its key, whatever the struct has there.
EdgeValue(e) ==
    Ref(<<e.key>>, IF e.computed THEN e.schema ELSE Name(e.target), TRUE)
Stitch(body, n) ==
    LET edges == DocumentedEdges(n) IN
    [body EXCEPT !.refs = {r \in body.refs : Head(r.at) \notin {e.key : e \in edges}}
                          \cup {EdgeValue(e) : e \in {x \in edges : x.computed => x.schema # None}}]

\* emitFragments, up to inlineAux.
ReflectAndStitch ==
    /\ phase = "collect" /\ stack = <<>>
    /\ LET tops == {Wire(n) : n \in seen}
           out == Reflect(tops, Overrides)
           node(c) == CHOOSE n \in seen : Name(n) = c
       IN  IF ~Nameable \/ ClaimedTwice(tops, Overrides)
              \/ \E n \in seen : in.nodes[n].edges # {} /\ in.types[Wire(n)].kind # "object"
           THEN phase' = "failed" /\ UNCHANGED <<stitched, work>>
           ELSE /\ stitched' = [c \in DOMAIN out |->
                                   IF c \in NodeNames THEN Stitch(out[c], node(c)) ELSE out[c]]
                /\ work' = stitched'
                /\ phase' = "inline"
    /\ UNCHANGED <<in, stack, seen, round>>

-----------------------------------------------------------------------------
\* The $refs of a schema that substituteAux would inline from aux
\* (inlinableRefTargets walks the same ones).
Inlinable(body, aux) ==
    {r \in body.refs : /\ body.kind # "opaque" /\ r.bare
                       /\ r.to \in DOMAIN aux /\ aux[r.to].kind # "opaque"}

\* auxInCycle: who reaches itself along inlinable $refs.  AuxInCycleOwn is a
\* mutant: who refers to itself.
AuxInCycleOwn(aux) == {a \in DOMAIN aux : \E r \in Inlinable(aux[a], aux) : r.to = a}
AuxInCycle(aux) ==
    LET edges == [a \in DOMAIN aux |-> {r.to : r \in Inlinable(aux[a], aux)}]
    IN  {a \in DOMAIN aux : a \in ReachedAlong(edges, edges[a])}

Auxiliaries == DOMAIN stitched \ NodeNames
Sources == Auxiliaries \ AuxInCycle(Restrict(stitched, Auxiliaries))

SubstituteAux(body, aux) ==
    LET inlined == Inlinable(body, aux) IN
    [body EXCEPT
        !.parts = @ \cup UNION {{<<r.at \o p[1], p[2]>> : p \in aux[r.to].parts} : r \in inlined},
        !.refs = (@ \ inlined) \cup UNION {{[s EXCEPT !.at = r.at \o s.at] : s \in aux[r.to].refs} :
                                               r \in inlined}]

\* One round of inlineAux over every schema, the sources themselves included.
InlineRound ==
    /\ phase = "inline"
    /\ LET aux == Restrict(work, Sources)
           changed == \E c \in DOMAIN work : Inlinable(work[c], aux) # {}
       IN  /\ changed
           /\ work' = [c \in DOMAIN work |-> SubstituteAux(work[c], aux)]
           /\ IF round >= Cardinality(Sources)
              THEN phase' = "failed" /\ UNCHANGED round   \* "did not converge"
              ELSE round' = round + 1 /\ UNCHANGED phase
    /\ UNCHANGED <<in, stack, seen, stitched>>

\* Auxiliaries nobody refers to any more are dropped.  PruneMore is a mutant: those
\* that no node refers to.
PruneMore ==
    /\ phase = "inline"
    /\ \A c \in DOMAIN work : Inlinable(work[c], Restrict(work, Sources)) = {}
    /\ LET referenced == UNION {RefsOf(work[c]) : c \in NodeNames} IN
       work' = Restrict(work, NodeNames \cup (Auxiliaries \cap referenced))
    /\ phase' = "emitted"
    /\ UNCHANGED <<in, stack, seen, stitched, round>>
Prune ==
    /\ phase = "inline"
    /\ \A c \in DOMAIN work : Inlinable(work[c], Restrict(work, Sources)) = {}
    /\ LET referenced == UNION {RefsOf(work[c]) : c \in DOMAIN work} IN
       work' = Restrict(work, NodeNames \cup (Auxiliaries \cap referenced))
    /\ phase' = "emitted"
    /\ UNCHANGED <<in, stack, seen, stitched, round>>

EmitStep == Collect \/ ReflectAndStitch \/ InlineRound \/ Prune
=============================================================================
