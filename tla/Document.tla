------------------------------ MODULE Document ------------------------------
(***************************************************************************)
(* The document of an API, from the graph to the requests that are          *)
(* validated against it: New emits the graph's components and installs the  *)
(* library's, the application then binds nodes and registers operations in  *)
(* an order of its choosing (api.go, bound.go, registry.go, envelope.go,    *)
(* build.go), and requests look schemas up.                                 *)
(***************************************************************************)
EXTENDS EmitComponents, SchemaRegistry

CONSTANTS Library,     \* the library's component names -> their Go types, or None
          MaxLookups   \* bound: the names one goroutine looks up

VARIABLES pending,     \* the wiring calls the application has not made yet
          bound,       \* the nodes it has bound
          operations   \* the components its operations refer to

wiringVars == <<pending, bound, operations>>
vars == <<emitVars, componentVars, bridgeVars, callVars, wiringVars>>

\* The worlds considered: a graph whose edges lead to nodes of it, or to none yet;
\* Go types with fields of Go types, where a pagination block is the library's and
\* the library's own types go by their names; and calls about both.  A name is a
\* name, and no key is given twice.
IsWorld(w) ==
    /\ DOMAIN w.types = Types /\ DOMAIN w.nodes = Nodes
    /\ \A t \in Types :
          /\ {f.type : f \in w.types[t].fields} \subseteq Types
          /\ {w.types[t].elem, w.types[t].extra} \subseteq Types \cup {None}
          /\ w.types[t].page \in DOMAIN Library \cup {None}
          /\ w.types[t].name # None
          /\ \A f, g \in w.types[t].fields : f.key = g.key => f = g
    /\ \A c \in DOMAIN Library : Library[c] # None =>
          Library[c] \in Types /\ w.types[Library[c]].name = c
    /\ \A n \in Nodes :
          /\ w.nodes[n].wire \in Types \cup {None}
          /\ {e.target : e \in w.nodes[n].edges} \subseteq Nodes \cup {None}
          /\ w.nodes[n].name # None
          /\ \A e, x \in w.nodes[n].edges : e.key = x.key => e = x
    /\ w.roots \in Seq(Nodes)
    /\ \A c \in w.calls :
          /\ c.op = "Bind" => c.node \in Nodes
          /\ c.op = "Alias" => {c.type, c.alias} \subseteq Types
          /\ c.op \in {"Register", "RequestBody"} => c.type \in Types

ASSUME WorldsAssumption ==
    /\ IsFiniteSet(Types) /\ IsFiniteSet(Nodes) /\ None \notin Types \cup Nodes
    /\ \A w \in Worlds : IsWorld(w)

GoType(t) == in.types[t]
Structs == {t \in Types : GoType(t).struct}

Init ==
    /\ EmitInit /\ ComponentsInit /\ BridgeInit
    /\ pending = in.calls /\ bound = {} /\ operations = {}

Emit == EmitStep /\ UNCHANGED <<componentVars, bridgeVars, callVars, wiringVars>>

\* New and registerLibraryComponents: a node of a library component's name is
\* refused.
New ==
    /\ phase = "emitted"
    /\ IF DOMAIN work \cap DOMAIN Library # {}
       THEN phase' = "failed" /\ UNCHANGED componentVars
       ELSE /\ RegisterReflected(
                   {Registration(c, work[c], None) : c \in DOMAIN work}
                   \cup {Registration(c, Schema("object", c, {}), Library[c]) : c \in DOMAIN Library})
            /\ phase' = "wiring"
    /\ UNCHANGED <<in, stack, seen, stitched, work, round, bridgeVars, callVars, wiringVars>>

\* A call of the application; Wired and Panics are its two outcomes.
Make(c) == phase = "wiring" /\ c \in pending /\ pending' = pending \ {c}
Wired == UNCHANGED <<emitVars, callVars>>
Panics ==
    /\ phase' = "failed"
    /\ UNCHANGED <<in, stack, seen, stitched, work, round, callVars,
                   componentVars, bridgeVars, bound, operations>>

-----------------------------------------------------------------------------
\* Bind: the wire type and its wrappers get the node's name, emitted or not.
WrappersOf(t) == {w \in Types : GoType(w).wraps = t}
Bind ==
    \E c \in pending :
        /\ c.op = "Bind" /\ Make(c)
        /\ LET n == c.node IN
           IF Wire(n) # None /\ Bindable(Wire(n), WrappersOf(Wire(n)), Name(n))
           THEN /\ RegisterNode(Wire(n), WrappersOf(Wire(n)), Name(n))
                /\ bound' = bound \cup {n}
                /\ Wired /\ UNCHANGED <<bridgeVars, operations>>
           ELSE Panics

RegisterTypeAlias ==
    \E c \in pending :
        /\ c.op = "Alias" /\ Make(c)
        /\ aliases' = Over([t \in {c.type} |-> c.alias], aliases)
        /\ Wired /\ UNCHANGED <<componentVars, types, converted, bound, operations>>

Whitelist ==
    \E c \in pending :
        /\ c.op = "ExternalRefs" /\ Make(c)
        /\ ExternalRefs(c.names)
        /\ Wired /\ UNCHANGED <<bridgeVars, bound, operations>>

\* The lookups huma makes while operations are registered.
SchemaFromRef ==
    \E c \in pending :
        /\ c.op = "SchemaFromRef" /\ Make(c)
        /\ LookupAtStartup(c.name, Structs)
        /\ Wired /\ UNCHANGED <<componentVars, types, aliases, bound, operations>>

-----------------------------------------------------------------------------
\* The type a request for t is about: its alias, the element of a type that is
\* no component of its own.
Target(t) ==
    LET next(s) == IF s \in DOMAIN aliases THEN aliases[s]
                   ELSE IF GoType(s).elem # None THEN GoType(s).elem ELSE s
        target[i \in 0..Cardinality(Types)] == IF i = 0 THEN t ELSE next(target[i - 1])
    IN  target[Cardinality(Types)]

Known(t) == t \in DOMAIN wrappers \cup DOMAIN byType
NameOf(t) == IF t \in DOMAIN wrappers THEN wrappers[t]
             ELSE IF t \in DOMAIN byType THEN byType[t] ELSE GoType(t).name

\* envelopeIR: a schema of its own, or a data field whose node is bound, a
\* pagination block and at most one further field, no envelope itself.
IsEnvelope(t) == GoType(t).body # None \/ GoType(t).data \in DOMAIN wrappers
EnvelopeIR(t) ==
    Schema("object", GoType(t).shape,
        IF GoType(t).body # None THEN GoType(t).body
        ELSE {Ref(<<"data">>, wrappers[GoType(t).data], TRUE)}
             \cup {Ref(<<"pagination">>, p, TRUE) : p \in {GoType(t).page} \ {None}}
             \cup {Ref(<<"extra">>, NameOf(Target(e)), TRUE) :
                        e \in {x \in {GoType(t).extra} \ {None} : Known(Target(x)) \/ GoType(Target(x)).worthy}})

\* auxTypes: the types t reaches by Go name; of two with one name it keeps the
\* one the walk meets first.
Owners(t) ==
    LET reached == {s \in Reached({t}) : GoType(s).worthy}
        names == {GoType(s).name : s \in reached}
    IN  {own \in [names -> reached] : \A n \in names : GoType(own[n]).name = n}

\* The overrides reflectAndRegister hands to the reflector.
Renamed(t) == Over([s \in {t} |-> GoType(t).name], byType)
\* reflectAndRegister, up to the registrations: a component the set binds
\* already is skipped, for the set's own version is the authority.
Reflectable(t) ==
    /\ ~ClaimedTwice({t}, Renamed(t))
    /\ \A s \in Reached({t}) : s \notin DOMAIN wrappers \/ s = t
Reflected(t, own) ==
    LET comps == Reflect({t}, Renamed(t))
        owner(n) == IF n = GoType(t).name THEN t
                    ELSE IF n \in DOMAIN own THEN own[n] ELSE None
    IN  {Registration(n, comps[n], owner(n)) :
            n \in {m \in DOMAIN comps : m = GoType(t).name \/ m \notin DOMAIN byName}}

\* What the bridge reflects to answer for t: nothing for what it knows or has huma
\* describe in place, the further field of an envelope, the type itself.
Reflects(t) ==
    IF Known(t) THEN {}
    ELSE {s \in IF IsEnvelope(t) THEN {Target(x) : x \in {GoType(t).extra} \ {None}} ELSE {t} :
             ~Known(s) /\ GoType(s).worthy}
\* What it registers: the derived envelope, and what it reflected.
Answering(t, own) ==
    (UNION {Reflected(s, own) : s \in Reflects(t)})
    \cup IF ~Known(t) /\ IsEnvelope(t) THEN {Registration(GoType(t).name, EnvelopeIR(t), t)} ELSE {}
HasName(t) == Known(t) \/ IsEnvelope(t) \/ GoType(t).worthy

\* checkBound: every node wrapper an output carries is bound.  The walk is over Go
\* types, aliased or not, and does not enter a wrapper.
CheckBound(t) ==
    LET carries(s) == Types \cap ({f.type : f \in FieldsOf(s)}
                                  \cup {GoType(s).elem, GoType(s).data, GoType(s).extra})
        walk == [s \in Types |-> IF GoType(s).wraps # None THEN {} ELSE carries(s)]
    IN  \A s \in ReachedAlong(walk, {t}) : GoType(s).wraps # None => s \in DOMAIN wrappers

\* Registry.Schema, asked by Register for an output or by ApplyRequestBodyDoc
\* for a body.
RegisterOperation ==
    \E c \in pending :
        /\ c.op \in {"Register", "RequestBody"} /\ Make(c)
        /\ LET t == Target(c.type)
           IN  \E own \in IF Reflects(t) = {} THEN {Empty}
                          ELSE Owners(CHOOSE s \in Reflects(t) : TRUE) :
               LET regs == Answering(t, own) IN
               IF /\ c.op = "Register" => CheckBound(c.type)
                  /\ \A s \in Reflects(t) : Reflectable(s)
                  /\ Accepted(regs)
               THEN /\ RegisterReflected(regs)
                    /\ types' = Over([n \in {x.name : x \in {y \in regs : y.type # None}} |->
                                          TypeFor(regs, n)], types)
                    /\ operations' = operations \cup (IF HasName(t) THEN {NameOf(t)} ELSE {})
                    /\ Wired /\ UNCHANGED <<aliases, converted, bound>>
               ELSE Panics

-----------------------------------------------------------------------------
AllRefs == operations \cup UNION {RefsOf(entries[c]) : c \in DOMAIN entries}

\* BuildInto over the bridge's own set: it verifies, and that is all.
BuildInto ==
    \E c \in pending :
        /\ c.op = "BuildInto" /\ Make(c)
        /\ IF Unresolved(AllRefs \ operations) = {}
           THEN Wired /\ UNCHANGED <<componentVars, bridgeVars, bound, operations>>
           ELSE Panics

AppCall == Bind \/ RegisterTypeAlias \/ Whitelist \/ SchemaFromRef \/ RegisterOperation \/ BuildInto

\* The application is wired; requests come in.
Serve ==
    /\ phase = "wiring" /\ phase' = "serving"
    /\ UNCHANGED <<in, stack, seen, stitched, work, round, componentVars, bridgeVars, callVars, wiringVars>>

Request(g) ==
    /\ phase = "serving"
    /\ \/ \E name \in in.asked :
              Cardinality(DOMAIN got[g]) < MaxLookups /\ Lookup(g, name)
       \/ Convert(g, Structs)
       \/ Insert(g)
    /\ UNCHANGED <<emitVars, componentVars, wiringVars>>

Next == Emit \/ New \/ AppCall \/ Serve \/ \E g \in Callers : Request(g)
Spec == Init /\ [][Next]_vars

-----------------------------------------------------------------------------
\* Where the fields lead from the schema of component c, inlining what may be: a
\* path of fields, each a bare $ref to an auxiliary that is no opaque fragment
\* and not on a cycle of such $refs.
Step(c, key) == LET r == {x \in stitched[c].refs : x.at = <<key>>} IN
                IF r = {} THEN None ELSE (CHOOSE x \in r : TRUE).to
Keys == {Head(r.at) : r \in UNION {stitched[c].refs : c \in DOMAIN stitched}}
Follows(c, key) ==
    /\ stitched[c].kind # "opaque"
    /\ \E r \in stitched[c].refs : /\ r.at = <<key>> /\ r.bare
                                   /\ r.to \in Auxiliaries /\ stitched[r.to].kind # "opaque"
LandsAt(c, path) ==
    LET lands[i \in 0..Len(path)] ==
            IF i = 0 THEN c
            ELSE LET d == lands[i - 1] IN
                 IF d # None /\ Follows(d, path[i]) THEN Step(d, path[i]) ELSE None
    IN  lands[Len(path)]
Paths == UNION {[1..n -> Keys] : n \in 0..Cardinality(Auxiliaries)}
IsCyclic(c) == \E p \in Paths \ {<<>>} : LandsAt(c, p) = c
InlinedAt(c, path) ==
    /\ LandsAt(c, path) # None
    /\ \A i \in 1..Len(path) : ~IsCyclic(LandsAt(c, SubSeq(path, 1, i)))

\* Inlining converges, and to the full expansion: a component holds the shape of
\* every auxiliary the fields lead to, at the place they lead there, and no $ref
\* that could have been inlined; an auxiliary is kept if something still refers to
\* it (inlineAux: "the remaining substitution set is provably acyclic").
InlineIsExact ==
    /\ phase = "emitted" =>
          /\ \A c \in DOMAIN work :
                LET inlined == {p \in Paths : InlinedAt(c, p)} IN
                /\ work[c].parts = UNION {{<<p, s[2]>> : s \in stitched[LandsAt(c, p)].parts} : p \in inlined}
                /\ work[c].refs = UNION {{Ref(p \o r.at, r.to, r.bare) :
                                             r \in {x \in stitched[LandsAt(c, p)].refs : p \o x.at \notin inlined}} :
                                         p \in inlined}
          /\ NodeNames \subseteq DOMAIN work
          /\ \A c \in DOMAIN work : RefsOf(work[c]) \cap Auxiliaries \subseteq DOMAIN work
    /\ phase = "failed" /\ stitched # Empty /\ entries = Empty =>
          DOMAIN work \cap DOMAIN Library # {}

\* Names a declaration promises without a component: a document of someone
\* else's, a bound node that nothing leads to, a schema written by hand.
Declared ==
    {Name(n) : n \in {m \in Nodes : in.nodes[m].external} \cup (bound \ seen)}
    \cup (UNION {{e.schema : e \in {x \in in.nodes[n].edges : x.computed}} : n \in Nodes})
    \cup UNION {{r.to : r \in GoType(t).body} : t \in {x \in Types : GoType(x).body # None}}

\* Whatever is bound and registered in whatever order, a $ref of the document or
\* of an operation that leads nowhere was declared to (EmitComponents,
\* reflectAndRegister; Verify is not called on the way).
DanglingOnlyByDeclaration ==
    phase \in {"wiring", "serving"} => Unresolved(AllRefs) \subseteq Declared

\* A nested struct that a node's wire type is documents that node, whichever was
\* registered first (nodeOverrides, "named by an override").
FieldsFollowBindings ==
    phase \in {"wiring", "serving"} =>
        \A c \in DOMAIN types :
            LET t == types[c] IN
            ~IsEnvelope(t) => \A f \in FieldsOf(t) : f.type \in DOMAIN byType =>
                \E r \in entries[c].refs : r.at = <<f.key>> /\ r.to = byType[f.type]

\* "Silently emitting one component for two shapes would make the survivor depend
\* on input order" (docs/reflector.md:154): the component a field refers to is no
\* other type's.
NoComponentForTwoShapes ==
    \A c \in DOMAIN types : ~IsEnvelope(types[c]) =>
        \A f \in FieldsOf(types[c]), r \in entries[c].refs :
            r.at = <<f.key>> => TypeFromRef(r.to) \in {None, f.type}

\* Whoever asks for a name, and when, is handed the same schema ("every caller for
\* a name gets the same *humav2.Schema pointer", schemaFor).
OneSchemaPerName ==
    \A g \in Callers : \A n \in DOMAIN got[g] :
        n \in DOMAIN converted /\ got[g][n] = converted[n]

\* The cache needs no invalidation: what it serves is what the set holds, and what
\* it serves typed huma can still build a struct from (SchemaLinkTransformer reads
\* the fields of TypeFromRef).
ServedIsRegistered ==
    \A n \in DOMAIN converted :
        /\ n \in DOMAIN entries /\ converted[n].body = entries[n]
        /\ converted[n].typed => TypeFromRef(n) \in Structs
=============================================================================
