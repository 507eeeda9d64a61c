---------------------------- MODULE GraphProofs ----------------------------
(***************************************************************************)
(* Proofs about Graph, for any scripts of declaring calls and any slips in  *)
(* them: Compile walks the default edges and the fetchers as the two walks *)
(* do, and a graph it returns can be relied on.  CompileInv is inductive:  *)
(* declaring calls keep the fields of what was declared (DeclaredInv), and *)
(* a pass leaves its tables behind and, while nothing was found, no fault  *)
(* of its kind (PassesInv).                                                *)
(***************************************************************************)
EXTENDS Graph, WalkProofs, Induction

IsSeq(s) == s \in Seq(Range(s))

\* What was declared has the fields it should have, each of its type.
IsEdge(e) ==
    /\ DOMAIN e = {"key", "kind", "relation", "set"}
    /\ e.key \in STRING /\ IsKind(e.kind) /\ IsSettings(e.set)
IsNode(d) ==
    /\ DOMAIN d = NodeFields
    /\ d.defaults \in Seq(STRING)
    /\ IsListing(d.inputs)
    /\ IsSeq(d.edges)
    /\ \A i \in DOMAIN d.edges : IsEdge(d.edges[i])
NodesOK(nodes) == IsSeq(nodes) /\ \A n \in DOMAIN nodes : IsNode(nodes[n])
ScriptOK == IsSeq(script) /\ \A i \in DOMAIN script : IsCall(script[i])

DeclaredInv ==
    /\ ScriptOK
    /\ DOMAIN b = {"nodes", "roots", "envelope", "relations"}
    /\ NodesOK(b.nodes)
    /\ b.roots \in Seq(DOMAIN b.nodes)

-----------------------------------------------------------------------------
\* A function on the domain of a sequence is one.
LEMMA SameDomainSeq ==
    ASSUME NEW s, IsSeq(s), NEW t, DOMAIN t = DOMAIN s, t = [i \in DOMAIN t |-> t[i]]
    PROVE  IsSeq(t)
<1>1. Len(s) \in Nat /\ DOMAIN s = 1..Len(s)
  BY DEF IsSeq
<1>2. \A i \in DOMAIN t : t[i] \in Range(t)
  BY DEF Range
<1>3. t \in [1..Len(s) -> Range(t)]
  BY <1>1, <1>2
<1>. QED
  BY <1>1, <1>3 DEF IsSeq

LEMMA AppendSeq ==
    ASSUME NEW s, IsSeq(s), NEW x
    PROVE  /\ IsSeq(Append(s, x))
           /\ Len(s) \in Nat /\ DOMAIN s = 1..Len(s)
           /\ DOMAIN Append(s, x) = 1..(Len(s) + 1)
           /\ \A i \in DOMAIN s : Append(s, x)[i] = s[i]
           /\ Append(s, x)[Len(s) + 1] = x
<1> DEFINE T == Range(s) \cup {x}
<1>1. s \in Seq(T) /\ x \in T
  BY DEF IsSeq
<1> HIDE DEF T
<1>2. Append(s, x) \in Seq(T)
  BY <1>1, AppendProperties
<1>3. /\ Len(s) \in Nat /\ DOMAIN s = 1..Len(s)
      /\ DOMAIN Append(s, x) = 1..(Len(s) + 1)
      /\ \A i \in DOMAIN s : Append(s, x)[i] = s[i]
      /\ Append(s, x)[Len(s) + 1] = x
  BY <1>1, AppendProperties
<1>4. Append(s, x) \in Seq(Range(Append(s, x)))
  <2> DEFINE a == Append(s, x)
  <2>1. a \in Seq(T)
    BY <1>2
  <2> HIDE DEF a
  <2>2. a \in Seq(Range(a))
    BY <2>1 DEF Range
  <2>. QED
    BY <2>2 DEF a
<1>. QED
  BY <1>3, <1>4 DEF IsSeq

LEMMA NodesFacts ==
    ASSUME NEW nodes, NodesOK(nodes)
    PROVE  Len(nodes) \in Nat /\ DOMAIN nodes = 1..Len(nodes)
  BY DEF NodesOK, IsSeq

LEMMA NodesAppended ==
    ASSUME NEW nodes, NodesOK(nodes), NEW d, IsNode(d)
    PROVE  NodesOK(Append(nodes, d)) /\ DOMAIN nodes \subseteq DOMAIN Append(nodes, d)
<1>1. /\ IsSeq(Append(nodes, d))
      /\ Len(nodes) \in Nat /\ DOMAIN nodes = 1..Len(nodes)
      /\ DOMAIN Append(nodes, d) = 1..(Len(nodes) + 1)
      /\ \A i \in DOMAIN nodes : Append(nodes, d)[i] = nodes[i]
      /\ Append(nodes, d)[Len(nodes) + 1] = d
  BY AppendSeq DEF NodesOK
<1>2. ASSUME NEW n \in DOMAIN Append(nodes, d) PROVE IsNode(Append(nodes, d)[n])
  BY <1>1 DEF NodesOK
<1>. QED
  BY <1>1, <1>2 DEF NodesOK

LEMMA NodesChanged ==
    ASSUME NEW nodes, NodesOK(nodes), NEW other, DOMAIN other = DOMAIN nodes,
           other = [n \in DOMAIN nodes |-> other[n]],
           \A n \in DOMAIN nodes : IsNode(other[n])
    PROVE  NodesOK(other)
  BY SameDomainSeq DEF NodesOK

-----------------------------------------------------------------------------
\* What the setters leave behind has its fields and types.
LEMMA NoSettingsOK == IsSettings(NoSettings)
<1>1. ASSUME NEW f \in DOMAIN NoSettings PROVE IsSetting(f, NoSettings[f])
  <2>. /\ NoSettings["required"] = FALSE /\ NoSettings["includable"] = FALSE
       /\ NoSettings["filterable"] = FALSE /\ NoSettings["bare"] = FALSE
       /\ NoSettings["limit"] = None /\ NoSettings["estimatedRows"] = None
    BY DEF NoSettings
  <2>1. CASE f \in {"required", "includable", "filterable", "bare"}
    <3>1. NoSettings[f] = FALSE
      BY <2>1
    <3>. QED
      BY <2>1, <3>1 DEF IsSetting
  <2>2. CASE f \in {"limit", "estimatedRows"}
    <3>1. NoSettings[f] = None
      BY <2>2
    <3>. QED
      BY <2>2, <3>1 DEF IsSetting
  <2>3. CASE f = "policies"
    <3>1. NoSettings[f] = {}
      BY <2>3 DEF NoSettings
    <3>. QED
      BY <2>3, <3>1 DEF IsSetting
  <2>4. CASE f \notin {"required", "includable", "filterable", "bare", "limit", "estimatedRows", "policies"}
    BY <2>4 DEF IsSetting
  <2>. QED
    BY <2>1, <2>2, <2>3, <2>4
<1>. QED
  BY <1>1 DEF IsSettings

LEMMA NewEdgeOK ==
    ASSUME NEW key \in STRING, NEW kind, IsKind(kind)
    PROVE  IsEdge(NewEdge(key, kind))
  BY NoSettingsOK DEF IsEdge, NewEdge

LEMMA NewNodeOK == ASSUME NEW name, NEW wire PROVE IsNode(NewNode(name, wire))
<1> DEFINE d == NewNode(name, wire)
<1>1. DOMAIN d = NodeFields
  BY DEF NewNode, NodeFields
<1>2. d.defaults = <<>> /\ d.inputs = None /\ d.edges = <<>>
  BY DEF NewNode
<1>3. <<>> \in Seq(Range(<<>>)) /\ DOMAIN <<>> = {}
  OBVIOUS
<1>. QED
  BY <1>1, <1>2, <1>3 DEF IsNode, IsListing, IsSeq

LEMMA NodeWithEdge ==
    ASSUME NEW d, IsNode(d), NEW e, IsEdge(e)
    PROVE  IsNode([d EXCEPT !.edges = Append(@, e)])
<1> DEFINE w == [d EXCEPT !.edges = Append(d.edges, e)]
           own == d.edges
<1>1. "edges" \in NodeFields
  BY DEF NodeFields, NewNode
<1>2. /\ DOMAIN w = NodeFields /\ w.edges = Append(own, e)
      /\ w.defaults = d.defaults /\ w.inputs = d.inputs
  BY <1>1 DEF IsNode
<1>3. IsSeq(own) /\ \A i \in DOMAIN own : IsEdge(own[i])
  BY DEF IsNode
<1> HIDE DEF own, w
<1>4. /\ IsSeq(Append(own, e))
      /\ \A i \in DOMAIN Append(own, e) : IsEdge(Append(own, e)[i])
  BY <1>3, AppendSeq
<1>5. IsNode(w)
  BY <1>2, <1>4 DEF IsNode
<1>. QED
  BY <1>5 DEF w, own

LEMMA NodeWithEdges ==
    ASSUME NEW d, IsNode(d), NEW es, DOMAIN es = DOMAIN d.edges,
           es = [i \in DOMAIN es |-> es[i]], \A i \in DOMAIN es : IsEdge(es[i])
    PROVE  IsNode([d EXCEPT !.edges = es])
<1> DEFINE w == [d EXCEPT !.edges = es]
<1>1. "edges" \in NodeFields
  BY DEF NodeFields, NewNode
<1>2. /\ DOMAIN w = NodeFields /\ w.edges = es
      /\ w.defaults = d.defaults /\ w.inputs = d.inputs
  BY <1>1 DEF IsNode
<1>3. IsSeq(es)
  BY SameDomainSeq DEF IsNode
<1> HIDE DEF w
<1>4. IsNode(w)
  BY <1>2, <1>3 DEF IsNode
<1>. QED
  BY <1>4 DEF w

LEMMA SettingKept ==
    ASSUME NEW s, IsSettings(s), NEW field, NEW v, IsSetting(field, v)
    PROVE  IsSettings(Updated(s, field, v))
<1> DEFINE u == Updated(s, field, v)
           x == IF field \in SettersAdd THEN s[field] \cup v ELSE v
<1>1. DOMAIN s = DOMAIN NoSettings /\ field \in DOMAIN s
  BY DEF IsSettings, IsSetting
<1>2. IsSetting(field, s[field])
  BY <1>1 DEF IsSettings
<1>3. IsSetting(field, x)
  <2>1. CASE field = "policies"
    BY <1>2, <2>1 DEF IsSetting, SettersAdd
  <2>2. CASE field = "args"
    BY <1>2, <2>2 DEF IsSetting
  <2>3. CASE field \notin SettersAdd
    BY <2>3
  <2>. QED
    BY <2>1, <2>2, <2>3 DEF SettersAdd
<1>4. u = [s EXCEPT ![field] = x]
  BY DEF Updated
<1> HIDE DEF x, u
<1>5. DOMAIN u = DOMAIN NoSettings /\ \A f \in DOMAIN u : u[f] = IF f = field THEN x ELSE s[f]
  BY <1>1, <1>4
<1>6. IsSettings(u)
  BY <1>1, <1>3, <1>5 DEF IsSettings
<1>. QED
  BY <1>6 DEF u

LEMMA EdgeWithSetting ==
    ASSUME NEW e, IsEdge(e), NEW s, IsSettings(s)
    PROVE  IsEdge([e EXCEPT !.set = s])
  BY DEF IsEdge

LEMMA SettingSet ==
    ASSUME NEW nodes, NodesOK(nodes), NEW hs, NEW field, NEW v, IsSetting(field, v)
    PROVE  NodesOK(WithSetting(nodes, hs, field, v))
           /\ DOMAIN WithSetting(nodes, hs, field, v) = DOMAIN nodes
<1> DEFINE E(n) == [i \in DOMAIN nodes[n].edges |->
                       LET e == nodes[n].edges[i]
                       IN  IF <<n, i>> \in hs THEN [e EXCEPT !.set = Updated(e.set, field, v)] ELSE e]
           w == WithSetting(nodes, hs, field, v)
<1>1. w = [n \in DOMAIN nodes |-> [nodes[n] EXCEPT !.edges = E(n)]]
  BY DEF WithSetting
<1>2. ASSUME NEW n \in DOMAIN nodes PROVE IsNode([nodes[n] EXCEPT !.edges = E(n)])
  <2> DEFINE d == nodes[n]
  <2>1. IsNode(d)
    BY DEF NodesOK
  <2>2. ASSUME NEW i \in DOMAIN d.edges PROVE IsEdge(E(n)[i])
    <3>1. IsEdge(d.edges[i]) /\ IsSettings(d.edges[i].set)
      BY <2>1 DEF IsNode, IsEdge
    <3>2. IsEdge([d.edges[i] EXCEPT !.set = Updated(d.edges[i].set, field, v)])
      BY <3>1, SettingKept, EdgeWithSetting
    <3>3. E(n)[i] = IF <<n, i>> \in hs
                    THEN [d.edges[i] EXCEPT !.set = Updated(d.edges[i].set, field, v)]
                    ELSE d.edges[i]
      OBVIOUS
    <3>. QED
      BY <3>1, <3>2, <3>3
  <2>3. DOMAIN E(n) = DOMAIN d.edges /\ E(n) = [i \in DOMAIN E(n) |-> E(n)[i]]
    OBVIOUS
  <2> HIDE DEF E
  <2>. QED
    BY <2>1, <2>2, <2>3, NodeWithEdges
<1> HIDE DEF E
<1>3. DOMAIN w = DOMAIN nodes /\ w = [n \in DOMAIN nodes |-> w[n]]
      /\ \A n \in DOMAIN nodes : IsNode(w[n])
  BY <1>1, <1>2
<1>. QED
  BY <1>3, NodesChanged

LEMMA EdgeAdded ==
    ASSUME NEW nodes, NodesOK(nodes), NEW n, NEW e, IsEdge(e)
    PROVE  NodesOK(WithEdge(nodes, n, e)) /\ DOMAIN WithEdge(nodes, n, e) = DOMAIN nodes
<1> DEFINE w == WithEdge(nodes, n, e)
<1>1. \A m \in DOMAIN nodes : IsNode([nodes[m] EXCEPT !.edges = Append(nodes[m].edges, e)])
  BY NodeWithEdge DEF NodesOK
<1>2. w = [nodes EXCEPT ![n] = [nodes[n] EXCEPT !.edges = Append(nodes[n].edges, e)]]
  BY DEF WithEdge
<1>3. DOMAIN w = DOMAIN nodes /\ w = [m \in DOMAIN nodes |-> w[m]]
  BY <1>2
<1>4. \A m \in DOMAIN nodes : IsNode(w[m])
  BY <1>1, <1>2 DEF NodesOK
<1>. QED
  BY <1>3, <1>4, NodesChanged

\* The two edges a relation declares.
LEMMA RelatedEdgeOK ==
    ASSUME NEW key \in STRING, NEW kind, IsKind(kind), NEW relation, NEW inverse
    PROVE  IsEdge([NewEdge(key, kind) EXCEPT !.relation = relation, !.set.inverse = inverse])
<1>1. IsSettings([NoSettings EXCEPT !.inverse = inverse])
  <2>1. IsSetting("inverse", inverse)
    BY DEF IsSetting, NoSettings
  <2>. QED
    BY <2>1, NoSettingsOK DEF IsSettings
<1> DEFINE e == NewEdge(key, kind)
           r == [e EXCEPT !.relation = relation, !.set.inverse = inverse]
<1>2. DOMAIN e = {"key", "kind", "relation", "set"} /\ e.key = key /\ e.kind = kind /\ e.set = NoSettings
  BY DEF NewEdge
<1> HIDE DEF e
<1>3. /\ DOMAIN r = {"key", "kind", "relation", "set"} /\ r.key = key /\ r.kind = kind
      /\ r.set = [NoSettings EXCEPT !.inverse = inverse]
  BY <1>2
<1> HIDE DEF r
<1>4. IsEdge(r)
  BY <1>1, <1>3 DEF IsEdge
<1>. QED
  BY <1>4 DEF r, e

LEMMA KindsOK ==
    /\ \A w : IsKind(ToOne(w)) /\ IsKind(ToMany(w))
    /\ \A w, field : IsKind(Reverse2(w, field))
  BY DEF IsKind, ToOne, ToMany, Reverse2, NoKind, EdgeKinds

LEMMA RelationAdded ==
    ASSUME NEW nodes, NodesOK(nodes), NEW k \in STRING, NEW j \in STRING, NEW m, NEW n
    PROVE  /\ NodesOK(OneToMany(nodes, m, n, k, j)) /\ DOMAIN OneToMany(nodes, m, n, k, j) = DOMAIN nodes
           /\ NodesOK(ManyToMany(nodes, m, n, k, j)) /\ DOMAIN ManyToMany(nodes, m, n, k, j) = DOMAIN nodes
<1>1. ASSUME NEW e, NEW d, IsEdge(e), IsEdge(d), NEW x, NEW y
      PROVE  /\ NodesOK(WithEdge(WithEdge(nodes, x, e), y, d))
             /\ DOMAIN WithEdge(WithEdge(nodes, x, e), y, d) = DOMAIN nodes
  <2>1. NodesOK(WithEdge(nodes, x, e)) /\ DOMAIN WithEdge(nodes, x, e) = DOMAIN nodes
    BY <1>1, EdgeAdded
  <2>. QED
    BY <1>1, <2>1, EdgeAdded
<1>2. /\ IsEdge([NewEdge(j, ToOne(nodes[m].wire)) EXCEPT !.relation = "OneToMany", !.set.inverse = k])
      /\ IsEdge([NewEdge(k, Reverse2(nodes[n].wire, "")) EXCEPT !.relation = "OneToMany", !.set.inverse = j])
      /\ IsEdge([NewEdge(k, ToMany(nodes[n].wire)) EXCEPT !.relation = "ManyToMany", !.set.inverse = j])
      /\ IsEdge([NewEdge(j, Reverse2(nodes[m].wire, "")) EXCEPT !.relation = "ManyToMany", !.set.inverse = k])
  BY RelatedEdgeOK, KindsOK
<1>. QED
  BY <1>1, <1>2 DEF OneToMany, ManyToMany

LEMMA ForeignKeySet ==
    ASSUME NEW nodes, NodesOK(nodes), NEW r, NEW field, NEW fn
    PROVE  /\ NodesOK(WithForeignKey(nodes, r, field, fn))
           /\ DOMAIN WithForeignKey(nodes, r, field, fn) = DOMAIN nodes
<1> DEFINE closure == IF r.kind = "OneToMany" THEN "foreignKey" ELSE "foreignKeys"
           held == WithSetting(nodes, {r.holder}, closure, fn)
           n == r.lister[1]
           i == r.lister[2]
           w == WithForeignKey(nodes, r, field, fn)
<1>1. IsSetting(closure, fn)
  BY DEF IsSetting, NoSettings
<1>2. NodesOK(held) /\ DOMAIN held = DOMAIN nodes
  BY <1>1, SettingSet
<1>3. w = [held EXCEPT ![n].edges[i].kind.backref = field]
  BY DEF WithForeignKey
<1> HIDE DEF held, n, i, w
<1> DEFINE es == [held[n].edges EXCEPT ![i].kind.backref = field]
           d == [held[n] EXCEPT !.edges = es]
<1>4. w = [held EXCEPT ![n] = d]
  BY <1>3
<1>5. ASSUME n \in DOMAIN held PROVE IsNode(d)
  <2>1. IsNode(held[n])
    BY <1>2, <1>5 DEF NodesOK
  <2>2. DOMAIN es = DOMAIN held[n].edges /\ es = [j \in DOMAIN es |-> es[j]]
    OBVIOUS
  <2>3. ASSUME NEW j \in DOMAIN held[n].edges PROVE IsEdge(es[j])
    <3>1. IsEdge(held[n].edges[j])
      BY <2>1 DEF IsNode
    <3>2. es[j] = held[n].edges[j] \/ es[j] = [held[n].edges[j] EXCEPT !.kind.backref = field]
      OBVIOUS
    <3>3. IsEdge([held[n].edges[j] EXCEPT !.kind.backref = field])
      <4> DEFINE e == held[n].edges[j]
      <4>1. IsKind(e.kind) /\ DOMAIN e = {"key", "kind", "relation", "set"}
        BY <3>1 DEF IsEdge
      <4>2. IsKind([e.kind EXCEPT !.backref = field])
        BY <4>1 DEF IsKind, NoKind
      <4>. QED
        BY <3>1, <4>1, <4>2 DEF IsEdge
    <3>. QED
      BY <3>1, <3>2, <3>3
  <2> HIDE DEF es
  <2>. QED
    BY <2>1, <2>2, <2>3, NodeWithEdges
<1> HIDE DEF d
<1>6. DOMAIN w = DOMAIN held /\ w = [m \in DOMAIN held |-> w[m]]
      /\ \A m \in DOMAIN held : IsNode(w[m])
  BY <1>2, <1>4, <1>5 DEF NodesOK
<1>7. NodesOK(w) /\ DOMAIN w = DOMAIN nodes
  BY <1>2, <1>6, NodesChanged
<1>. QED
  BY <1>7 DEF w

\* A literal.
LEMMA SpecOK == ASSUME NEW s, IsSpec(s) PROVE IsNode(NodeOfSpec(s))
<1> DEFINE es == [i \in DOMAIN s.edges |-> EdgeOfSpec(s.edges[i])]
           d == NodeOfSpec(s)
<1>1. /\ DOMAIN d = NodeFields /\ d.edges = es
      /\ d.defaults = s.defaults /\ d.inputs = s.inputs
  <2>1. d = [s EXCEPT !.Wire = Closure(s.Wire), !.PrimaryKey = Closure(s.PrimaryKey),
                      !.Enrich = Closure(s.Enrich), !.edges = es]
    BY DEF NodeOfSpec
  <2>2. "edges" \in DOMAIN s /\ DOMAIN s = NodeFields
    BY DEF IsSpec, NodeFields, NewNode
  <2> HIDE DEF d, es
  <2>. QED
    BY <2>1, <2>2
<1>2. IsSeq(s.edges) /\ \A i \in DOMAIN s.edges : s.edges[i] \in Range(s.edges)
  BY DEF IsSpec, IsSeq, Range
<1>3. ASSUME NEW i \in DOMAIN s.edges PROVE IsEdge(es[i])
  <2> DEFINE x == s.edges[i]
             t == [x.set EXCEPT !.foreignKey = Closure(x.set.foreignKey),
                                !.foreignKeys = Closure(x.set.foreignKeys),
                                !.guard = Closure(x.set.guard),
                                !.limit = Declared(x.set.limit, 0),
                                !.estimatedRows = Declared(x.set.estimatedRows, 0)]
  <2>1. x.key \in STRING /\ IsKind(x.kind) /\ IsSettings(x.set)
    BY <1>2 DEF IsSpec
  <2>2. es[i] = [NewEdge(x.key, x.kind) EXCEPT !.set = t]
    BY DEF EdgeOfSpec
  <2>3. IsSettings(t)
    <3>1. DOMAIN x.set = DOMAIN NoSettings /\ \A f \in DOMAIN x.set : IsSetting(f, x.set[f])
      BY <2>1 DEF IsSettings
    <3>2. DOMAIN t = DOMAIN NoSettings
      BY <3>1
    <3>3. "limit" \in DOMAIN NoSettings /\ "estimatedRows" \in DOMAIN NoSettings
      BY DEF NoSettings
    <3>4. /\ x.set.limit \in Int \cup {None} /\ x.set.estimatedRows \in Int \cup {None}
      BY <3>1, <3>3 DEF IsSetting
    <3>5. ASSUME NEW f \in DOMAIN t PROVE IsSetting(f, t[f])
      <4>1. CASE f \in {"foreignKey", "foreignKeys", "guard"}
        BY <3>2, <4>1 DEF IsSetting
      <4>2. CASE f = "limit"
        <5>1. t[f] = Declared(x.set.limit, 0)
          BY <3>1, <3>3, <4>2
        <5>. QED
          BY <3>3, <3>4, <4>2, <5>1 DEF IsSetting, Declared
      <4>3. CASE f = "estimatedRows"
        <5>1. t[f] = Declared(x.set.estimatedRows, 0)
          BY <3>1, <3>3, <4>3
        <5>. QED
          BY <3>3, <3>4, <4>3, <5>1 DEF IsSetting, Declared
      <4>4. CASE f \notin {"foreignKey", "foreignKeys", "guard", "limit", "estimatedRows"}
        <5>1. t[f] = x.set[f] /\ f \in DOMAIN x.set
          BY <3>1, <3>2, <4>4
        <5>. QED
          BY <3>1, <5>1
      <4>. QED
        BY <4>1, <4>2, <4>3, <4>4
    <3>. QED
      BY <3>2, <3>5 DEF IsSettings
  <2> HIDE DEF t
  <2>4. IsEdge([NewEdge(x.key, x.kind) EXCEPT !.set = t])
    BY <2>1, <2>3, NewEdgeOK, EdgeWithSetting
  <2>. QED
    BY <2>2, <2>4
<1>4. DOMAIN es = DOMAIN s.edges /\ es = [i \in DOMAIN es |-> es[i]]
  OBVIOUS
<1> HIDE DEF es
<1>5. IsSeq(es)
  BY <1>2, <1>4, SameDomainSeq
<1>. QED
  BY <1>1, <1>3, <1>4, <1>5 DEF IsSpec, IsNode

-----------------------------------------------------------------------------
\* The calls of the application.
LEMMA ScriptFacts ==
    ASSUME ScriptOK, script # <<>>
    PROVE  /\ IsCall(Call)
           /\ IsSeq(Tail(script)) /\ \A i \in DOMAIN Tail(script) : IsCall(Tail(script)[i])
<1> DEFINE T == Range(script)
           t == Tail(script)
<1>1. script \in Seq(T)
  BY DEF ScriptOK, IsSeq
<1> HIDE DEF T
<1>2. /\ Len(script) \in Nat /\ Len(script) >= 1 /\ DOMAIN script = 1..Len(script)
      /\ Head(script) = script[1]
      /\ t \in Seq(T) /\ DOMAIN t = 1..(Len(script) - 1)
      /\ \A i \in 1..(Len(script) - 1) : t[i] = script[i + 1]
  BY <1>1
<1> HIDE DEF t
<1>3. t \in Seq(Range(t))
  BY <1>2 DEF Range
<1>4. \A i \in DOMAIN t : i + 1 \in DOMAIN script /\ t[i] = script[i + 1]
  BY <1>2
<1>5. IsCall(Head(script)) /\ \A i \in DOMAIN t : IsCall(t[i])
  BY <1>2, <1>4 DEF ScriptOK
<1>. QED
  BY <1>3, <1>5 DEF t, IsSeq, Call

LEMMA NextCallFacts ==
    ASSUME DeclaredInv, NEW op, NextCall(op)
    PROVE  ScriptOK' /\ IsCall(Call) /\ Call.op = op
<1>1. script # <<>> /\ script' = Tail(script) /\ Call.op = op
  BY DEF NextCall
<1>. QED
  BY <1>1, ScriptFacts DEF DeclaredInv, ScriptOK

\* A call that records nodes, and one that records something else.
LEMMA Recorded ==
    ASSUME DeclaredInv, ScriptOK', NEW nodes, NodesOK(nodes), DOMAIN b.nodes \subseteq DOMAIN nodes,
           DOMAIN b' = DOMAIN b, b'.nodes = nodes, b'.roots = b.roots
    PROVE  DeclaredInv'
<1>1. b.roots \in Seq(DOMAIN nodes)
  BY DEF DeclaredInv
<1>. QED
  BY <1>1 DEF DeclaredInv

LEMMA DeclaresKeeps ==
    ASSUME DeclaredInv, ScriptOK', NEW nodes, NodesOK(nodes), DOMAIN b.nodes \subseteq DOMAIN nodes,
           Declares(nodes)
    PROVE  DeclaredInv'
<1>1. DOMAIN b' = DOMAIN b /\ b'.nodes = nodes /\ b'.roots = b.roots
  BY DEF Declares, DeclaredInv
<1>. QED
  BY <1>1, Recorded

LEMMA SetNodeKeeps == DeclaredInv /\ SetNode => DeclaredInv'
<1>. SUFFICES ASSUME DeclaredInv, SetNode PROVE DeclaredInv'
  OBVIOUS
<1>1. ScriptOK' /\ IsCall(Call) /\ Call.op = "setNode"
  BY NextCallFacts DEF SetNode, Calls
<1> DEFINE n == Call.node
           f == Call.field
           v == Call.value
           nodes == [b.nodes EXCEPT ![n][f] = v]
<1>2. Declares(nodes)
  BY DEF SetNode
<1>3. f \in NodeFields \ {"defaults", "edges", "edgeFetch"} /\ (f = "inputs" => IsListing(v))
  BY <1>1 DEF IsCall
<1> HIDE DEF n, f, v
<1>4. ASSUME NEW m \in DOMAIN b.nodes PROVE IsNode(nodes[m])
  <2>1. IsNode(b.nodes[m])
    BY DEF DeclaredInv, NodesOK
  <2>2. nodes[m] = b.nodes[m] \/ nodes[m] = [b.nodes[m] EXCEPT ![f] = v]
    OBVIOUS
  <2> DEFINE d == b.nodes[m]
             w == [d EXCEPT ![f] = v]
  <2>3. /\ DOMAIN w = NodeFields /\ w.defaults = d.defaults /\ w.edges = d.edges
        /\ w.inputs = d.inputs \/ IsListing(w.inputs)
    <3>1. DOMAIN d = NodeFields
      BY <2>1 DEF IsNode
    <3>2. {"defaults", "edges", "inputs"} \subseteq NodeFields
      BY DEF NodeFields, NewNode
    <3>. QED
      BY <1>3, <3>1, <3>2
  <2> HIDE DEF w
  <2>4. IsNode(w)
    BY <2>1, <2>3 DEF IsNode
  <2>. QED
    BY <2>1, <2>2, <2>4 DEF w
<1>5. DOMAIN nodes = DOMAIN b.nodes /\ nodes = [m \in DOMAIN b.nodes |-> nodes[m]]
  OBVIOUS
<1> HIDE DEF nodes
<1>6. NodesOK(nodes)
  BY <1>4, <1>5, NodesChanged DEF DeclaredInv
<1>. QED
  BY <1>1, <1>2, <1>5, <1>6, DeclaresKeeps

LEMMA DefaultsKeep == DeclaredInv /\ Defaults => DeclaredInv'
<1>. SUFFICES ASSUME DeclaredInv, Defaults PROVE DeclaredInv'
  OBVIOUS
<1>1. ScriptOK' /\ IsCall(Call) /\ Call.op = "Defaults"
  BY NextCallFacts DEF Defaults, Calls
<1> DEFINE n == Call.node
           ks == Call.keys
           nodes == [b.nodes EXCEPT ![n].defaults = @ \o ks]
<1>2. Declares(nodes)
  BY DEF Defaults
<1>3. ks \in Seq(STRING)
  BY <1>1 DEF IsCall
<1> HIDE DEF n, ks
<1>4. ASSUME NEW m \in DOMAIN b.nodes PROVE IsNode(nodes[m])
  <2> DEFINE d == b.nodes[m]
             w == [d EXCEPT !.defaults = d.defaults \o ks]
  <2>1. IsNode(d)
    BY DEF DeclaredInv, NodesOK
  <2>2. nodes[m] = d \/ nodes[m] = w
    OBVIOUS
  <2>3. d.defaults \o ks \in Seq(STRING)
    BY <1>3, <2>1, ConcatProperties DEF IsNode
  <2>4. {"defaults", "edges", "inputs"} \subseteq NodeFields
    BY DEF NodeFields, NewNode
  <2>5. /\ DOMAIN w = NodeFields /\ w.defaults = d.defaults \o ks /\ w.edges = d.edges
        /\ w.inputs = d.inputs
    BY <2>1, <2>4 DEF IsNode
  <2> HIDE DEF w
  <2>6. IsNode(w)
    BY <2>1, <2>3, <2>5 DEF IsNode
  <2>. QED
    BY <2>1, <2>2, <2>6
<1>5. DOMAIN nodes = DOMAIN b.nodes /\ nodes = [m \in DOMAIN b.nodes |-> nodes[m]]
  OBVIOUS
<1> HIDE DEF nodes
<1>6. NodesOK(nodes)
  BY <1>4, <1>5, NodesChanged DEF DeclaredInv
<1>. QED
  BY <1>1, <1>2, <1>5, <1>6, DeclaresKeeps

\* FetchEdge and FetchParents of a relation bind a fetcher, and nothing else.
LEMMA BindKeeps ==
    ASSUME DeclaredInv, ScriptOK', NEW n, NEW binds, Declares([b.nodes EXCEPT ![n].edgeFetch = binds])
    PROVE  DeclaredInv'
<1> DEFINE nodes == [b.nodes EXCEPT ![n].edgeFetch = binds]
<1>1. ASSUME NEW m \in DOMAIN b.nodes PROVE IsNode(nodes[m])
  <2> DEFINE d == b.nodes[m]
             w == [d EXCEPT !.edgeFetch = binds]
  <2>1. IsNode(d)
    BY DEF DeclaredInv, NodesOK
  <2>2. nodes[m] = d \/ nodes[m] = w
    OBVIOUS
  <2>3. {"defaults", "edges", "inputs"} \subseteq NodeFields
    BY DEF NodeFields, NewNode
  <2>4. /\ DOMAIN w = NodeFields /\ w.defaults = d.defaults /\ w.edges = d.edges
        /\ w.inputs = d.inputs
    BY <2>1, <2>3 DEF IsNode
  <2> HIDE DEF w
  <2>5. IsNode(w)
    BY <2>1, <2>4 DEF IsNode
  <2>. QED
    BY <2>1, <2>2, <2>5
<1>2. DOMAIN nodes = DOMAIN b.nodes /\ nodes = [m \in DOMAIN b.nodes |-> nodes[m]]
  OBVIOUS
<1>3. Declares(nodes)
  OBVIOUS
<1> HIDE DEF nodes
<1>4. NodesOK(nodes)
  BY <1>1, <1>2, NodesChanged DEF DeclaredInv
<1>. QED
  BY <1>2, <1>3, <1>4, DeclaresKeeps

LEMMA RelateKeeps == DeclaredInv /\ Relate => DeclaredInv'
<1>. SUFFICES ASSUME DeclaredInv, Relate PROVE DeclaredInv'
  OBVIOUS
<1>1. ASSUME NEW kind, NEW nodes, NEW h, NEW l, NodesOK(nodes), DOMAIN nodes = DOMAIN b.nodes,
             ScriptOK', Related(kind, nodes, h, l)
      PROVE  DeclaredInv'
  <2>1. DOMAIN b' = DOMAIN b /\ b'.nodes = nodes /\ b'.roots = b.roots
    BY <1>1 DEF Related, DeclaredInv
  <2>. QED
    BY <1>1, <2>1, Recorded
<1>2. NodesOK(b.nodes)
  BY DEF DeclaredInv
<1>3. CASE /\ Calls("OneToMany")
           /\ Related("OneToMany", OneToMany(b.nodes, Call.one, Call.many, Call.manyKey, Call.oneKey),
                      Call.many, Call.one)
  <2>1. ScriptOK' /\ IsCall(Call) /\ Call.op = "OneToMany"
    BY <1>3, NextCallFacts DEF Calls
  <2>2. Call.manyKey \in STRING /\ Call.oneKey \in STRING
    BY <2>1 DEF IsCall
  <2>. QED
    BY <1>1, <1>2, <1>3, <2>1, <2>2, RelationAdded
<1>4. CASE /\ Calls("ManyToMany")
           /\ Related("ManyToMany",
                  ManyToMany(b.nodes, Call.left, Call.right, Call.leftKey, Call.rightKey),
                  Call.left, Call.right)
  <2>1. ScriptOK' /\ IsCall(Call) /\ Call.op = "ManyToMany"
    BY <1>4, NextCallFacts DEF Calls
  <2>2. Call.leftKey \in STRING /\ Call.rightKey \in STRING
    BY <2>1 DEF IsCall
  <2>. QED
    BY <1>1, <1>2, <1>4, <2>1, <2>2, RelationAdded
<1>. QED
  BY <1>3, <1>4 DEF Relate

LEMMA AddCallKeeps == DeclaredInv /\ AddCall => DeclaredInv'
<1>. SUFFICES ASSUME DeclaredInv, AddCall PROVE DeclaredInv'
  OBVIOUS
<1>1. PICK cs \in Extras : script' = cs \o script
  BY DEF AddCall
<1>2. cs \in Seq(Range(cs)) /\ \A c \in Range(cs) : IsCall(c)
  BY ScriptsAssumption
<1> DEFINE T == Range(cs) \cup Range(script)
           t == cs \o script
<1>3. cs \in Seq(T) /\ script \in Seq(T) /\ \A c \in T : IsCall(c)
  BY <1>2 DEF DeclaredInv, ScriptOK, IsSeq, Range
<1> HIDE DEF T
<1>4. t \in Seq(T)
  BY <1>3, ConcatProperties
<1> HIDE DEF t
<1>5. t \in Seq(Range(t)) /\ \A i \in DOMAIN t : t[i] \in T
  BY <1>4 DEF Range
<1>6. ScriptOK'
  BY <1>1, <1>3, <1>5 DEF t, ScriptOK, IsSeq
<1>. QED
  BY <1>6 DEF AddCall, DeclaredInv

LEMMA DeclareKeeps == DeclaredInv /\ Declare => DeclaredInv'
<1>. SUFFICES ASSUME DeclaredInv, Declare PROVE DeclaredInv'
  OBVIOUS
<1>0. NodesOK(b.nodes)
  BY DEF DeclaredInv
<1>1. CASE DeclareNode
  <2>1. ScriptOK' /\ Declares(Append(b.nodes, NewNode(Call.name, Call.wire)))
    BY <1>1, NextCallFacts DEF DeclareNode, Calls
  <2>. QED
    BY <1>0, <2>1, NewNodeOK, NodesAppended, DeclaresKeeps
<1>2. CASE AddSpec
  <2>1. /\ ScriptOK' /\ IsCall(Call) /\ Call.op = "Add"
        /\ Declares(Append(b.nodes, NodeOfSpec(Call.spec)))
    BY <1>2, NextCallFacts DEF AddSpec, Calls
  <2>2. IsNode(NodeOfSpec(Call.spec))
    BY <2>1, SpecOK DEF IsCall
  <2>. QED
    BY <1>0, <2>1, <2>2, NodesAppended, DeclaresKeeps
<1>3. CASE DeclareEdge
  <2>1. /\ ScriptOK' /\ IsCall(Call) /\ Call.op = "Edge"
        /\ Declares(WithEdge(b.nodes, Call.node, NewEdge(Call.key, Call.kind)))
    BY <1>3, NextCallFacts DEF DeclareEdge, Calls
  <2>2. IsEdge(NewEdge(Call.key, Call.kind))
    BY <2>1, NewEdgeOK DEF IsCall
  <2>. QED
    BY <1>0, <2>1, <2>2, EdgeAdded, DeclaresKeeps
<1>4. CASE SetEdge
  <2>1. /\ ScriptOK' /\ IsCall(Call) /\ Call.op = "setEdge"
        /\ Declares(WithSetting(b.nodes, {Call.edge}, Call.field, Call.value))
    BY <1>4, NextCallFacts DEF SetEdge, Calls
  <2>2. IsSetting(Call.field, Call.value)
    BY <2>1 DEF IsCall
  <2>. QED
    BY <1>0, <2>1, <2>2, SettingSet, DeclaresKeeps
<1>5. CASE SetRelation
  <2> DEFINE hs == SidesOf(b.relations[Call.relation], Call.field)
  <2>1. /\ ScriptOK' /\ IsCall(Call) /\ Call.op = "setRelation"
        /\ Declares(WithSetting(b.nodes, hs, Call.field, Call.value))
    BY <1>5, NextCallFacts DEF SetRelation, Calls
  <2>2. IsSetting(Call.field, Call.value)
    BY <2>1 DEF IsCall
  <2> HIDE DEF hs
  <2>. QED
    BY <1>0, <2>1, <2>2, SettingSet, DeclaresKeeps
<1>6. CASE RelationForeignKey
  <2>1. /\ ScriptOK'
        /\ Declares(WithForeignKey(b.nodes, b.relations[Call.relation], Call.field, Call.fn))
    BY <1>6, NextCallFacts DEF RelationForeignKey, Calls
  <2>. QED
    BY <1>0, <2>1, ForeignKeySet, DeclaresKeeps
<1>7. CASE FetchEdge
  <2>1. /\ ScriptOK'
        /\ Declares([b.nodes EXCEPT ![Call.node].edgeFetch =
                        Bind(b.nodes[Call.node].edgeFetch, Call.key, Call.target, Call.fn)])
    BY <1>7, NextCallFacts DEF FetchEdge, Calls
  <2>. QED
    BY <2>1, BindKeeps
<1>8. CASE RelationFetch
  <2> DEFINE r == b.relations[Call.relation]
             n == r.lister[1]
             key == b.nodes[n].edges[r.lister[2]].key
  <2>1. /\ ScriptOK'
        /\ Declares([b.nodes EXCEPT ![n].edgeFetch =
                        Bind(b.nodes[n].edgeFetch, key, r.holder[1], Call.fn)])
    BY <1>8, NextCallFacts DEF RelationFetch, Calls
  <2> HIDE DEF r, n, key
  <2>. QED
    BY <2>1, BindKeeps
<1>9. CASE Root
  <2>1. ScriptOK' /\ Call.node \in DOMAIN b.nodes /\ b' = [b EXCEPT !.roots = Append(b.roots, Call.node)]
    BY <1>9, NextCallFacts DEF Root, Calls
  <2>2. Append(b.roots, Call.node) \in Seq(DOMAIN b.nodes)
    BY <2>1, AppendProperties DEF DeclaredInv
  <2>3. /\ DOMAIN b' = DOMAIN b /\ b'.nodes = b.nodes /\ b'.roots = Append(b.roots, Call.node)
    BY <2>1 DEF DeclaredInv
  <2>. QED
    BY <2>1, <2>2, <2>3 DEF DeclaredInv
<1>10. CASE GraphEnvelope
  <2>1. ScriptOK' /\ b' = [b EXCEPT !.envelope = Call.value]
    BY <1>10, NextCallFacts DEF GraphEnvelope, Calls
  <2>2. /\ DOMAIN b' = DOMAIN b /\ b'.nodes = b.nodes /\ b'.roots = b.roots
    BY <2>1 DEF DeclaredInv
  <2>. QED
    BY <2>1, <2>2 DEF DeclaredInv
<1>11. CASE Forget
  <2>1. ScriptOK' /\ b' = b
    BY <1>11, ScriptFacts DEF Forget, DeclaredInv, ScriptOK
  <2>. QED
    BY <2>1 DEF DeclaredInv
<1>. QED
  BY <1>1, <1>2, <1>3, <1>4, <1>5, <1>6, <1>7, <1>8, <1>9, <1>10, <1>11,
     SetNodeKeeps, DefaultsKeep, RelateKeeps, AddCallKeeps DEF Declare

-----------------------------------------------------------------------------
(* The passes of Compile: what each leaves behind, and that a clean run found
   nothing wrong. *)

Clean == findings = {}

OpeningDone == Clean => EnvelopeFaults(b.envelope) = {}
IdentityDone ==
    /\ compiled = CompiledNodes /\ byWire = NodesByWire
    /\ Clean => \A n \in Nodes : IdentityFaults(n) = {}
NodesDone ==
    /\ shapes = [n \in Nodes |-> Shapes[b.nodes[n].wire]]
    /\ inputs = [n \in Nodes |-> CompiledInputs(b.nodes[n].inputs, shapes[n])]
    /\ Clean => \A n \in compiled : NodeFaults(n, shapes[n]) = {}
EdgesClean(n) ==
    LET own == b.nodes[n].edges IN
    /\ \A e \in EdgesOf(n) : ~Skipped(e) /\ BuiltFaults(n, e) = {}
    /\ \A i \in DOMAIN own : own[i].key # "" /\ \A j \in 1..(i - 1) : own[j].key # own[i].key
EdgesDone ==
    /\ edges = EdgeTables
    /\ Clean => \A n \in compiled : EdgesClean(n)
NamesDone ==
    /\ edgeFetch = [n \in Nodes |-> IF n \in compiled THEN ValidBinds(n) ELSE {}]
    /\ defaults = [n \in Nodes |-> IF n \in compiled THEN DefaultsOf(n) ELSE b.nodes[n].defaults]
PairClean(n, e) ==
    /\ ~NeedsEstimate(n, e)
    /\ e.set.filterable /\ e.target # None /\ e.kind # "inArray" => LeadsToColumn(e.target)
PairsDone == Clean => \A n \in Nodes : \A e \in BuiltEdges(n) : PairClean(n, e)
CyclesDone ==
    /\ loads = [n \in Nodes |-> Loads(n)]
    /\ seeds = Range(b.roots)
FetchersChecked == Clean => FetchersDone /\ \A n \in Nodes : MissingFetchers(n) = {}

Later == [identity |-> {"nodes", "edges", "names", "pairs", "cycles", "fetchers", "graph", "refused"},
          nodes |-> {"edges", "names", "pairs", "cycles", "fetchers", "graph", "refused"},
          edges |-> {"names", "pairs", "cycles", "fetchers", "graph", "refused"},
          names |-> {"pairs", "cycles", "fetchers", "graph", "refused"},
          pairs |-> {"cycles", "fetchers", "graph", "refused"},
          cycles |-> {"fetchers", "graph", "refused"},
          fetchers |-> {"graph", "refused"}]

PassesInv ==
    /\ phase \in {"declare", "identity"} \cup Later.identity
    /\ phase = "declare" <=> ~dead
    /\ phase # "declare" => OpeningDone
    /\ phase \in Later.identity => IdentityDone
    /\ phase \in Later.nodes => NodesDone
    /\ phase \in Later.edges => EdgesDone
    /\ phase \in Later.names => NamesDone
    /\ phase \in Later.pairs => PairsDone
    /\ phase \in Later.cycles => CyclesDone
    /\ phase \in Later.fetchers => FetchersChecked
    /\ phase = "graph" => Clean

CompileInv == DeclaredInv /\ PassesInv

-----------------------------------------------------------------------------
\* What a pass left behind stays while its tables do and nothing is taken back.
Forward == b' = b /\ (Clean' => Clean)

LEMMA IdentityStays ==
    ASSUME Forward, UNCHANGED <<compiled, byWire>>, IdentityDone
    PROVE  IdentityDone'
<1>1. Nodes' = Nodes /\ CompiledNodes' = CompiledNodes
  BY DEF Forward, CompiledNodes, Nodes, Name
<1>2. NodesByWire' = NodesByWire
  BY <1>1 DEF Forward, NodesByWire
<1>3. \A n : IdentityFaults(n)' = IdentityFaults(n)
  BY <1>1, <1>2 DEF Forward, IdentityFaults, Name
<1>. QED
  BY <1>1, <1>2, <1>3 DEF Forward, IdentityDone

LEMMA NodesStay ==
    ASSUME Forward, UNCHANGED <<compiled, shapes, inputs>>, NodesDone
    PROVE  NodesDone'
<1>1. Nodes' = Nodes /\ \A n : NodeFaults(n, shapes[n])' = NodeFaults(n, shapes[n])
  BY DEF Forward, Nodes, NodeFaults, ClosureFaults
<1>. QED
  BY <1>1 DEF Forward, NodesDone

LEMMA EdgesStay ==
    ASSUME Forward, UNCHANGED <<compiled, byWire, shapes, edges>>, EdgesDone
    PROVE  EdgesDone'
<1>1. Nodes' = Nodes /\ \A n : EdgeTable(n)' = EdgeTable(n)
  BY DEF Forward, Nodes, EdgeTable, Resolved
<1>2. \A n, e : BuiltFaults(n, e)' = BuiltFaults(n, e)
  BY DEF BuiltFaults, PlaceFaults, MeaningFaults, ShapeOf
<1>3. ASSUME NEW n, EdgesClean(n) PROVE EdgesClean(n)'
  <2>1. b.nodes[n].edges' = b.nodes[n].edges /\ EdgesOf(n)' = EdgesOf(n)
    BY DEF Forward, EdgesOf
  <2>. QED
    BY <1>2, <1>3, <2>1 DEF EdgesClean
<1>. QED
  BY <1>1, <1>3 DEF Forward, EdgesDone, EdgeTables

LEMMA NamesStay ==
    ASSUME Forward, UNCHANGED <<compiled, edges, edgeFetch, defaults>>, NamesDone
    PROVE  NamesDone'
<1>1. Nodes' = Nodes /\ \A n : EdgesOf(n)' = EdgesOf(n) /\ KeysOf(n)' = KeysOf(n)
  BY DEF Forward, Nodes, EdgesOf, KeysOf
<1>2. \A n, key : EdgeNamed(n, key)' = EdgeNamed(n, key)
  BY <1>1 DEF EdgeNamed
<1>3. \A n, key : BindFault(n, key)' = BindFault(n, key)
  BY <1>1, <1>2 DEF Forward, BindFault
<1>4. \A n : ValidBinds(n)' = ValidBinds(n)
  BY <1>3 DEF Forward, ValidBinds
<1>5. \A n : BuiltEdges(n)' = BuiltEdges(n)
  BY <1>1 DEF BuiltEdges
<1>6. \A n : RequiredKeys(n)' = RequiredKeys(n)
  BY <1>5 DEF Forward, RequiredKeys
<1>7. \A n : DefaultsOf(n)' = DefaultsOf(n)
  BY <1>6 DEF Forward, DefaultsOf
<1>. QED
  BY <1>1, <1>4, <1>7 DEF Forward, NamesDone

LEMMA PairsStay ==
    ASSUME Forward, UNCHANGED <<edges, shapes>>, PairsDone
    PROVE  PairsDone'
<1>1. Nodes' = Nodes /\ \A n : EdgesOf(n)' = EdgesOf(n)
  BY DEF Forward, Nodes, EdgesOf
<1>2. \A n : BuiltEdges(n)' = BuiltEdges(n)
  BY <1>1 DEF BuiltEdges
<1>3. \A n : FilterNext(n)' = FilterNext(n)
  BY <1>2 DEF FilterNext
<1>4. ManyTargets' = ManyTargets
  BY <1>1 DEF ManyTargets
<1>5. ASSUME NEW n, NEW e, PairClean(n, e) PROVE PairClean(n, e)'
  <2>1. \A t : LeadsToColumn(t)' <=> LeadsToColumn(t)
    BY <1>1, <1>3 DEF LeadsToColumn, ShapeOf
  <2>. QED
    BY <1>4, <1>5, <2>1 DEF PairClean, NeedsEstimate
<1>. QED
  BY <1>1, <1>2, <1>5 DEF Forward, PairsDone

LEMMA CyclesStay ==
    ASSUME Forward, UNCHANGED <<edges, defaults, edgeFetch, loads, seeds>>, CyclesDone
    PROVE  CyclesDone'
<1>1. Nodes' = Nodes /\ \A n : EdgesOf(n)' = EdgesOf(n)
  BY DEF Forward, Nodes, EdgesOf
<1>2. \A n : Loaded(n)' = Loaded(n)
  BY <1>1 DEF Loaded
<1>3. \A n : Loads(n)' = Loads(n)
  BY <1>2 DEF Loads
<1>. QED
  BY <1>1, <1>3 DEF Forward, CyclesDone

-----------------------------------------------------------------------------
(* The tables of Compile. *)

TablesBuilt == NodesOK(b.nodes) /\ compiled = CompiledNodes /\ byWire = NodesByWire

\* A wire type stands for a node.
LEMMA OwnersFacts ==
    ASSUME TablesBuilt, NEW w \in DOMAIN byWire
    PROVE  byWire[w] \in compiled
<1> DEFINE owners == [x \in Wires |-> {n \in CompiledNodes : b.nodes[n].wire = x}]
<1>1. w \in Wires /\ owners[w] # {} /\ byWire[w] = Min(owners[w])
  BY DEF TablesBuilt, NodesByWire
<1> DEFINE S == owners[w]
<1>2. S \subseteq CompiledNodes
  BY <1>1
<1>3. CompiledNodes \subseteq Nat
  <2>1. Len(b.nodes) \in Nat /\ Nodes = 1..Len(b.nodes)
    BY NodesFacts DEF TablesBuilt, Nodes
  <2>2. CompiledNodes \subseteq Nodes
    BY DEF CompiledNodes
  <2>. QED
    BY <2>1, <2>2
<1>4. S # {} /\ S \in SUBSET Nat
  BY <1>1, <1>2, <1>3
<1> HIDE DEF S
<1>5. \E x \in S : \A y \in S : x <= y
  BY <1>4, LeastNatural
<1>6. Min(S) \in S
  BY <1>5 DEF Min
<1>. QED
  BY <1>1, <1>2, <1>6 DEF TablesBuilt, S

\* What an edge of a table is: one that was declared, with the node it leads to.
LEMMA ResolvedFacts ==
    ASSUME TablesBuilt, NEW d, IsEdge(d)
    PROVE  LET e == Resolved(d) IN
           /\ e.key = d.key /\ e.key \in STRING /\ e.set = d.set /\ IsSettings(e.set)
           /\ e.kind \in EdgeKinds \cup {""}
           /\ e.target # None => e.target \in compiled
<1>1. Resolved(d).target # None => Resolved(d).target \in compiled
  BY OwnersFacts DEF Resolved
<1>. QED
  BY <1>1 DEF Resolved, IsEdge, IsKind

LEMMA TableFacts ==
    ASSUME TablesBuilt, NEW n \in Nodes
    PROVE  LET own == b.nodes[n].edges IN
           /\ IsSeq(EdgeTable(n))
           /\ Range(EdgeTable(n)) = {Resolved(own[i]) : i \in FirstOfKey(own)}
<1> DEFINE own == b.nodes[n].edges
           places == [i \in DOMAIN own |-> i]
           S == FirstOfKey(own)
           seen == Selected(places, S)
           table == [j \in DOMAIN seen |-> Resolved(own[seen[j]])]
<1>1. Len(own) \in Nat /\ DOMAIN own = 1..Len(own)
  BY DEF TablesBuilt, NodesOK, Nodes, IsNode, IsSeq
<1>2. places \in Seq(DOMAIN own) /\ Range(places) = DOMAIN own
  <2> HIDE DEF own
  <2>1. DOMAIN places = 1..Len(own) /\ \A i \in DOMAIN places : places[i] = i
    BY <1>1
  <2>2. places \in [1..Len(own) -> DOMAIN own]
    BY <1>1
  <2>. QED
    BY <1>1, <2>1, <2>2 DEF Range
<1>3. S \subseteq DOMAIN own
  BY DEF FirstOfKey
<1>4. table = EdgeTable(n)
  BY DEF EdgeTable
<1> HIDE DEF places
<1> HIDE DEF own, S
<1>5. seen \in Seq(DOMAIN own) /\ Range(seen) = S
  <2>1. seen \in Seq(DOMAIN own) /\ Range(seen) = Range(places) \cap S
    BY <1>2, SelectedFacts
  <2>. QED
    BY <1>2, <1>3, <2>1
<1> HIDE DEF seen
<1>6. DOMAIN seen = 1..Len(seen) /\ Len(seen) \in Nat
  BY <1>5
<1>7. table \in Seq(Range(table))
  BY <1>6 DEF Range
<1>8. Range(table) = {Resolved(own[i]) : i \in S}
  BY <1>5 DEF Range
<1>. QED
  BY <1>4, <1>7, <1>8 DEF own, S, IsSeq

EdgesBuilt == TablesBuilt /\ edges = EdgeTables

\* Every edge of a table is one declared of that node, and no two have one key.
LEMMA EdgeFacts ==
    ASSUME EdgesBuilt, NEW n \in Nodes
    PROVE  /\ IsSeq(edges[n])
           /\ \A e \in EdgesOf(n) :
                 /\ e.key \in STRING /\ IsSettings(e.set)
                 /\ e.kind \in EdgeKinds \cup {""}
                 /\ e.target # None => e.target \in compiled
           /\ \A e, f \in EdgesOf(n) : e.key = f.key => e = f
<1> DEFINE own == b.nodes[n].edges
<1>1. CASE n \notin compiled
  <2>1. edges[n] = <<>>
    BY <1>1 DEF EdgesBuilt, EdgeTables
  <2>2. Range(<<>>) = {} /\ <<>> \in Seq(Range(<<>>))
    BY DEF Range
  <2>. QED
    BY <2>1, <2>2 DEF EdgesOf, IsSeq
<1>2. CASE n \in compiled
  <2>1. edges[n] = EdgeTable(n)
    BY <1>2 DEF EdgesBuilt, EdgeTables
  <2>2. IsSeq(edges[n]) /\ EdgesOf(n) = {Resolved(own[i]) : i \in FirstOfKey(own)}
    BY <2>1, TableFacts DEF EdgesBuilt, EdgesOf
  <2>3. \A i \in FirstOfKey(own) : i \in DOMAIN own /\ IsEdge(own[i])
    BY DEF EdgesBuilt, TablesBuilt, NodesOK, Nodes, IsNode, FirstOfKey
  <2>4. \A i \in FirstOfKey(own) : Resolved(own[i]).key = own[i].key
    BY <2>3, ResolvedFacts DEF EdgesBuilt
  <2>5. ASSUME NEW e \in EdgesOf(n), NEW f \in EdgesOf(n), e.key = f.key PROVE e = f
    <3>1. PICK i \in FirstOfKey(own) : e = Resolved(own[i])
      BY <2>2
    <3>2. PICK j \in FirstOfKey(own) : f = Resolved(own[j])
      BY <2>2
    <3>3. own[i].key = own[j].key
      BY <2>4, <2>5, <3>1, <3>2
    <3>4. Len(own) \in Nat /\ DOMAIN own = 1..Len(own)
      BY DEF EdgesBuilt, TablesBuilt, NodesOK, Nodes, IsNode, IsSeq
    <3>5. /\ i \in 1..Len(own) /\ \A k \in 1..(i - 1) : own[k].key # own[i].key
          /\ j \in 1..Len(own) /\ \A k \in 1..(j - 1) : own[k].key # own[j].key
      BY <3>4 DEF FirstOfKey
    <3>6. ~(i < j) /\ ~(j < i)
      BY <3>3, <3>4, <3>5
    <3>7. i = j
      BY <3>4, <3>5, <3>6
    <3>. QED
      BY <3>1, <3>2, <3>7
  <2>6. \A e \in EdgesOf(n) :
                 /\ e.key \in STRING /\ IsSettings(e.set)
                 /\ e.kind \in EdgeKinds \cup {""}
                 /\ e.target # None => e.target \in compiled
    BY <2>2, <2>3, ResolvedFacts DEF EdgesBuilt
  <2>. QED
    BY <2>2, <2>5, <2>6
<1>. QED
  BY <1>1, <1>2

LEMMA NamedEdge ==
    ASSUME EdgesBuilt, NEW n \in Nodes, NEW e \in EdgesOf(n)
    PROVE  EdgeNamed(n, e.key) = e
  BY EdgeFacts DEF EdgeNamed

-----------------------------------------------------------------------------
(* Each pass keeps what the passes before it left, and adds its own. *)

LEMMA Reported ==
    ASSUME NEW fs, Reports(fs), Clean'
    PROVE  Clean /\ fs = {}
  BY DEF Reports, Clean

LEMMA SameDeclared ==
    ASSUME DeclaredInv, UNCHANGED builderVars
    PROVE  DeclaredInv' /\ b' = b /\ dead' = dead
<1>1. script' = script /\ b' = b /\ dead' = dead
  BY DEF builderVars
<1>2. ScriptOK'
  BY <1>1 DEF DeclaredInv, ScriptOK
<1>. QED
  BY <1>1, <1>2 DEF DeclaredInv

LEMMA OpeningStays == ASSUME Forward, OpeningDone PROVE OpeningDone'
  BY DEF Forward, OpeningDone

LEMMA OfNothing == ASSUME NEW n, NEW fs, Of(n, fs) = {} PROVE fs = {}
  BY DEF Of

LEMMA StartCompileKeeps == CompileInv /\ StartCompile => CompileInv'
<1>. SUFFICES ASSUME CompileInv, StartCompile PROVE CompileInv'
  OBVIOUS
<1>1. ScriptOK' /\ b' = b /\ dead' = TRUE /\ phase' = "identity"
  BY NextCallFacts DEF StartCompile, CompileInv
<1>2. DeclaredInv'
  BY <1>1 DEF CompileInv, DeclaredInv
<1>3. OpeningDone'
  <2>1. findings' = {[node |-> "", edge |-> "", rule |-> r] : r \in EnvelopeFaults(b.envelope)}
    BY DEF StartCompile
  <2>. QED
    BY <1>1, <2>1 DEF OpeningDone, Clean
<1>. QED
  BY <1>1, <1>2, <1>3 DEF CompileInv, PassesInv, Later

LEMMA CheckIdentityKeeps == CompileInv /\ CheckIdentity => CompileInv'
<1>. SUFFICES ASSUME CompileInv, CheckIdentity PROVE CompileInv'
  OBVIOUS
<1>1. /\ phase = "identity" /\ phase' = "nodes" /\ UNCHANGED builderVars
      /\ Reports(UNION {Of(n, IdentityFaults(n)) : n \in Nodes})
      /\ compiled' = CompiledNodes /\ byWire' = NodesByWire
  BY DEF CheckIdentity, Pass
<1>2. DeclaredInv' /\ b' = b /\ dead' = dead
  BY <1>1, SameDeclared DEF CompileInv
<1>3. Forward
  BY <1>1, <1>2, Reported DEF Forward
<1>4. OpeningDone'
  BY <1>1, <1>3, OpeningStays DEF CompileInv, PassesInv
<1>5. IdentityDone'
  <2>1. Nodes' = Nodes /\ CompiledNodes' = CompiledNodes
    BY <1>2 DEF CompiledNodes, Nodes, Name
  <2>2. NodesByWire' = NodesByWire
    BY <1>2, <2>1 DEF NodesByWire
  <2>3. \A n : IdentityFaults(n)' = IdentityFaults(n)
    BY <1>2, <2>1, <2>2 DEF IdentityFaults, Name
  <2>4. ASSUME Clean', NEW n \in Nodes PROVE IdentityFaults(n) = {}
    <3>1. UNION {Of(m, IdentityFaults(m)) : m \in Nodes} = {}
      BY <1>1, <2>4, Reported
    <3>2. Of(n, IdentityFaults(n)) = {}
      BY <3>1
    <3>. QED
      BY <3>2, OfNothing
  <2>. QED
    BY <1>1, <2>1, <2>2, <2>3, <2>4 DEF IdentityDone
<1>. QED
  BY <1>1, <1>2, <1>4, <1>5 DEF CompileInv, PassesInv, Later

LEMMA CheckNodesKeeps == CompileInv /\ CheckNodes => CompileInv'
<1>. SUFFICES ASSUME CompileInv, CheckNodes PROVE CompileInv'
  OBVIOUS
<1>1. /\ phase = "nodes" /\ phase' = "edges" /\ UNCHANGED builderVars
      /\ shapes' = [n \in Nodes |-> Shapes[b.nodes[n].wire]]
      /\ Reports(UNION {Of(n, NodeFaults(n, shapes'[n])) : n \in compiled})
      /\ inputs' = [n \in Nodes |-> CompiledInputs(b.nodes[n].inputs, shapes'[n])]
      /\ compiled' = compiled /\ byWire' = byWire
  BY DEF CheckNodes, Pass
<1>2. DeclaredInv' /\ b' = b /\ dead' = dead
  BY <1>1, SameDeclared DEF CompileInv
<1>3. Forward
  BY <1>1, <1>2, Reported DEF Forward
<1>4. OpeningDone' /\ IdentityDone'
  BY <1>1, <1>3, OpeningStays, IdentityStays DEF CompileInv, PassesInv, Later
<1>5. NodesDone'
  <2>1. Nodes' = Nodes /\ \A n, s : NodeFaults(n, s)' = NodeFaults(n, s)
    BY <1>2 DEF Nodes, NodeFaults, ClosureFaults
  <2>2. ASSUME Clean', NEW n \in compiled PROVE NodeFaults(n, shapes'[n]) = {}
    <3>1. UNION {Of(m, NodeFaults(m, shapes'[m])) : m \in compiled} = {}
      BY <1>1, <2>2, Reported
    <3>2. Of(n, NodeFaults(n, shapes'[n])) = {}
      BY <3>1
    <3>. QED
      BY <3>2, OfNothing
  <2>3. ASSUME Clean', NEW n \in compiled PROVE NodeFaults(n, shapes[n])' = {}
    BY <1>2, <2>2, <2>3 DEF NodeFaults, ClosureFaults
  <2>. QED
    BY <1>1, <1>2, <2>1, <2>3 DEF NodesDone
<1>. QED
  BY <1>1, <1>2, <1>4, <1>5 DEF CompileInv, PassesInv, Later

LEMMA CheckEdgesKeeps == CompileInv /\ CheckEdges => CompileInv'
<1>. SUFFICES ASSUME CompileInv, CheckEdges PROVE CompileInv'
  OBVIOUS
<1>1. /\ phase = "edges" /\ phase' = "names" /\ UNCHANGED builderVars
      /\ edges' = EdgeTables
      /\ Reports(UNION {EdgeFindings(n, edges'[n]) : n \in compiled})
      /\ compiled' = compiled /\ byWire' = byWire /\ shapes' = shapes /\ inputs' = inputs
  BY DEF CheckEdges, Pass
<1>2. DeclaredInv' /\ b' = b /\ dead' = dead
  BY <1>1, SameDeclared DEF CompileInv
<1>3. Forward
  BY <1>1, <1>2, Reported DEF Forward
<1>4. OpeningDone' /\ IdentityDone' /\ NodesDone'
  BY <1>1, <1>3, OpeningStays, IdentityStays, NodesStay DEF CompileInv, PassesInv, Later
<1>5. EdgeTables' = EdgeTables
  <2>1. Nodes' = Nodes /\ \A n : EdgeTable(n)' = EdgeTable(n)
    BY <1>1, <1>2 DEF Nodes, EdgeTable, Resolved
  <2>. QED
    BY <1>1, <2>1 DEF EdgeTables
<1>6. \A n, e : BuiltFaults(n, e)' = BuiltFaults(n, e)
  BY <1>1 DEF BuiltFaults, PlaceFaults, MeaningFaults, ShapeOf
<1>7. ASSUME Clean', NEW n \in compiled PROVE EdgesClean(n)'
  <2> DEFINE own == b.nodes[n].edges
             Rules(e) == IF Skipped(e) THEN {"noKind"} ELSE BuiltFaults(n, e)
             repeated == {i \in DOMAIN own : \E j \in 1..(i - 1) : own[j].key = own[i].key}
  <2>1. EdgeFindings(n, edges'[n]) = {}
    <3>1. UNION {EdgeFindings(m, edges'[m]) : m \in compiled} = {}
      BY <1>1, <1>7, Reported
    <3>. QED
      BY <3>1
  <2> DEFINE found(e) == {Finding(n, e.key, r) : r \in Rules(e)}
             bad == {j \in DOMAIN own : own[j].key = "" \/ j \in repeated}
             A == UNION {found(e) : e \in Range(edges'[n])}
             B == {Finding(n, own[i].key, IF own[i].key = "" THEN "noKey" ELSE "duplicateEdge") :
                      i \in bad}
  <2>2. A \cup B = {}
    <3>1. EdgeFindings(n, edges'[n]) = A \cup B
      BY Zenon DEF EdgeFindings
    <3>. QED
      BY <2>1, <3>1
  <2> HIDE DEF found, bad
  <2>3. ASSUME NEW e \in Range(edges'[n]) PROVE ~Skipped(e) /\ BuiltFaults(n, e) = {}
    <3>1. found(e) = {}
      BY <2>2
    <3>2. Rules(e) = {}
      BY <3>1 DEF found
    <3>. QED
      BY <3>2
  <2>4. bad = {}
    BY <2>2
  <2>. QED
    BY <1>2, <1>6, <2>3, <2>4 DEF EdgesClean, EdgesOf, Skipped, bad
<1>8. EdgesDone'
  BY <1>1, <1>5, <1>7 DEF EdgesDone
<1>. QED
  BY <1>1, <1>2, <1>4, <1>8 DEF CompileInv, PassesInv, Later

LEMMA CheckNamesKeeps == CompileInv /\ CheckNames => CompileInv'
<1>. SUFFICES ASSUME CompileInv, CheckNames PROVE CompileInv'
  OBVIOUS
<1>1. /\ phase = "names" /\ phase' = "pairs" /\ UNCHANGED builderVars
      /\ Reports(UNION {BindFindings(n) \cup DefaultFindings(n) : n \in compiled})
      /\ edgeFetch' = [n \in Nodes |-> IF n \in compiled THEN ValidBinds(n) ELSE {}]
      /\ defaults' = [n \in Nodes |-> IF n \in compiled THEN DefaultsOf(n) ELSE b.nodes[n].defaults]
      /\ compiled' = compiled /\ byWire' = byWire /\ shapes' = shapes /\ inputs' = inputs
      /\ edges' = edges
  BY DEF CheckNames, Pass
<1>2. DeclaredInv' /\ b' = b /\ dead' = dead
  BY <1>1, SameDeclared DEF CompileInv
<1>3. Forward
  BY <1>1, <1>2, Reported DEF Forward
<1>4. OpeningDone' /\ IdentityDone' /\ NodesDone' /\ EdgesDone'
  BY <1>1, <1>3, OpeningStays, IdentityStays, NodesStay, EdgesStay DEF CompileInv, PassesInv, Later
<1>5. NamesDone'
  <2>1. Nodes' = Nodes /\ \A n : EdgesOf(n)' = EdgesOf(n) /\ KeysOf(n)' = KeysOf(n)
    BY <1>1, <1>2 DEF Nodes, EdgesOf, KeysOf
  <2>2. \A n, key : EdgeNamed(n, key)' = EdgeNamed(n, key)
    BY <2>1 DEF EdgeNamed
  <2>3. \A n, key : BindFault(n, key)' = BindFault(n, key)
    BY <1>2, <2>1, <2>2 DEF BindFault
  <2>4. \A n : ValidBinds(n)' = ValidBinds(n)
    BY <1>2, <2>3 DEF ValidBinds
  <2>5. \A n : BuiltEdges(n)' = BuiltEdges(n)
    BY <2>1 DEF BuiltEdges
  <2>6. \A n : RequiredKeys(n)' = RequiredKeys(n)
    BY <1>1, <1>2, <2>5 DEF RequiredKeys
  <2>7. \A n : DefaultsOf(n)' = DefaultsOf(n)
    BY <1>2, <2>6 DEF DefaultsOf
  <2>. QED
    BY <1>1, <1>2, <2>1, <2>4, <2>7 DEF NamesDone
<1>. QED
  BY <1>1, <1>2, <1>4, <1>5 DEF CompileInv, PassesInv, Later

\* A walk stays in every set that is closed under its steps.
OnwardUpTo(f, next, n) ==
    f = [i \in 0..Len(b.nodes) |->
            IF i = 0 THEN {n}
            ELSE LET before == f[i - 1] IN before \cup UNION {next[m] : m \in before}]

LEMMA OnwardStays ==
    ASSUME NodesOK(b.nodes), NEW next, NEW n, NEW S, n \in S, \A m \in S : next[m] \subseteq S
    PROVE  Onward(next, n) \subseteq S
<1> DEFINE V == SUBSET S
           L == Len(b.nodes)
           Next1(v) == v \cup UNION {next[m] : m \in v}
           step == [i \in 1..L |-> [v \in V |-> Next1(v)]]
<1>1. L \in Nat /\ {n} \in V
  BY NodesFacts
<1>2. \A v \in V : Next1(v) \in V
  OBVIOUS
<1>3. step \in [1..L -> [V -> V]]
  <2> HIDE DEF Next1, V
  <2>. QED
    BY <1>2
<1>4. \E g \in [0..L -> V] : Stepwise(g, L, {n}, step)
  <2> HIDE DEF V, L, step
  <2>. QED
    BY <1>1, <1>3, StepwiseExists
<1>5. PICK g \in [0..L -> V] : Stepwise(g, L, {n}, step)
  BY <1>4
<1> HIDE DEF Next1
<1>6. \A i \in 0..L : g[i] = IF i = 0 THEN {n} ELSE Next1(g[i - 1])
  <2>1. ASSUME NEW i \in 0..L, i # 0 PROVE g[i] = Next1(g[i - 1])
    <3>1. i \in 1..L /\ i - 1 \in 0..L
      BY <1>1, <2>1
    <3>2. g[i] = step[i][g[i - 1]] /\ g[i - 1] \in V
      BY <1>5, <2>1, <3>1 DEF Stepwise
    <3>. QED
      BY <3>1, <3>2
  <2>2. g[0] = {n}
    BY <1>1, <1>5 DEF Stepwise
  <2>. QED
    BY <2>1, <2>2
<1>7. OnwardUpTo(g, next, n)
  <2> HIDE DEF V, step
  <2>1. g = [i \in 0..L |-> g[i]]
    BY <1>5
  <2>2. g = [i \in 0..L |-> IF i = 0 THEN {n} ELSE Next1(g[i - 1])]
    BY <1>6, <2>1
  <2>. QED
    BY <2>2 DEF OnwardUpTo, Next1
<1> DEFINE c == CHOOSE f : OnwardUpTo(f, next, n)
<1>8. OnwardUpTo(c, next, n) /\ Onward(next, n) = c[L]
  BY <1>7 DEF Onward, OnwardUpTo
<1> HIDE DEF c
<1>9. \A i \in 0..L : c[i] = IF i = 0 THEN {n} ELSE Next1(c[i - 1])
  BY <1>8 DEF OnwardUpTo, Next1
<1> DEFINE T == {i \in 0..L : c[i] \in V}
<1>10. 0 \in T
  BY <1>1, <1>9
<1>11. ASSUME NEW i \in 0..(L - 1), i \in T PROVE i + 1 \in T
  <2>1. i + 1 \in 0..L /\ i + 1 # 0 /\ (i + 1) - 1 = i
    BY <1>1
  <2>2. c[i + 1] = Next1(c[i]) /\ c[i] \in V
    BY <1>9, <1>11, <2>1
  <2> HIDE DEF V
  <2>. QED
    BY <1>2, <2>1, <2>2
<1>12. L \in T
  <2> HIDE DEF T
  <2>1. 0..L \subseteq T
    BY <1>1, <1>10, <1>11, IntervalByStep
  <2>. QED
    BY <1>1, <2>1
<1>. QED
  BY <1>8, <1>12


\* A filterable edge that is not inert leads to a column.
LEMMA LeadsOn ==
    ASSUME NodesOK(b.nodes), NEW t, NEW m \in FilterReach(t), FilterCols(ShapeOf(m)) # {}
    PROVE  LeadsToColumn(t)
<1>. SUFFICES ASSUME NEW S \in SUBSET Nodes, t \in S, \A n \in S : FilterNext(n) \subseteq S
              PROVE  \E n \in S : FilterCols(ShapeOf(n)) # {}
  BY DEF LeadsToColumn
<1> DEFINE next == [n \in Nodes |-> FilterNext(n)]
<1>1. \A n \in S : next[n] \subseteq S
  OBVIOUS
<1>2. FilterReach(t) = Onward(next, t)
  BY DEF FilterReach
<1> HIDE DEF next
<1>3. FilterReach(t) \subseteq S
  BY <1>1, <1>2, OnwardStays
<1>. QED
  BY <1>3

LEMMA CheckPairsKeeps == CompileInv /\ CheckPairs => CompileInv'
<1>. SUFFICES ASSUME CompileInv, CheckPairs PROVE CompileInv'
  OBVIOUS
<1> DEFINE found(n, e) == {Finding(n, e.key, r) : r \in CrossFaults(n, e)}
<1>1. /\ phase = "pairs" /\ phase' = "cycles" /\ UNCHANGED builderVars
      /\ Reports(UNION {UNION {found(n, e) : e \in BuiltEdges(n)} : n \in Nodes})
      /\ UNCHANGED tableVars
  BY DEF CheckPairs, Pass
<1>2. DeclaredInv' /\ b' = b /\ dead' = dead
  BY <1>1, SameDeclared DEF CompileInv
<1>3. Forward
  BY <1>1, <1>2, Reported DEF Forward
<1>4. /\ compiled' = compiled /\ byWire' = byWire /\ shapes' = shapes /\ inputs' = inputs
      /\ edges' = edges /\ edgeFetch' = edgeFetch /\ defaults' = defaults
  BY <1>1 DEF tableVars
<1>5. OpeningDone' /\ IdentityDone' /\ NodesDone' /\ EdgesDone' /\ NamesDone'
  BY <1>1, <1>3, <1>4, OpeningStays, IdentityStays, NodesStay, EdgesStay, NamesStay
  DEF CompileInv, PassesInv, Later
<1>6. ASSUME Clean', NEW n \in Nodes, NEW e \in BuiltEdges(n) PROVE PairClean(n, e)
  <2>1. UNION {UNION {found(m, f) : f \in BuiltEdges(m)} : m \in Nodes} = {}
    BY <1>1, <1>6, Reported
  <2> HIDE DEF found
  <2>2. UNION {found(n, f) : f \in BuiltEdges(n)} = {}
    BY <2>1
  <2>3. found(n, e) = {}
    BY <2>2
  <2>4. CrossFaults(n, e) = {}
    BY <2>3 DEF found
  <2>5. ~NeedsEstimate(n, e) /\ ~Inert(e)
    BY <2>4 DEF CrossFaults
  <2>6. ASSUME e.set.filterable, e.target # None, e.kind # "inArray"
        PROVE  LeadsToColumn(e.target)
    <3>1. PICK m \in FilterReach(e.target) : FilterCols(ShapeOf(m)) # {}
      BY <2>5, <2>6 DEF Inert
    <3>. QED
      BY <3>1, LeadsOn DEF CompileInv, DeclaredInv
  <2>. QED
    BY <2>5, <2>6 DEF PairClean
<1>7. PairsDone'
  <2>1. Nodes' = Nodes /\ \A n : EdgesOf(n)' = EdgesOf(n)
    BY <1>2, <1>4 DEF Nodes, EdgesOf
  <2>2. \A n : BuiltEdges(n)' = BuiltEdges(n)
    BY <2>1 DEF BuiltEdges
  <2>3. \A n : FilterNext(n)' = FilterNext(n)
    BY <2>2 DEF FilterNext
  <2>4. ManyTargets' = ManyTargets
    BY <2>1 DEF ManyTargets
  <2>5. ASSUME NEW n, NEW e, PairClean(n, e) PROVE PairClean(n, e)'
    <3>1. \A t : LeadsToColumn(t)' <=> LeadsToColumn(t)
      BY <1>4, <2>1, <2>3 DEF LeadsToColumn, ShapeOf
    <3>. QED
      BY <2>4, <2>5, <3>1 DEF PairClean, NeedsEstimate
  <2>. QED
    BY <1>6, <2>1, <2>2, <2>5 DEF PairsDone
<1>. QED
  BY <1>1, <1>2, <1>5, <1>7 DEF CompileInv, PassesInv, Later

\* What stays while the tables do.
LEMMA PassesStay ==
    ASSUME CompileInv, phase \in Later.pairs, Forward, UNCHANGED tableVars
    PROVE  /\ OpeningDone' /\ IdentityDone' /\ NodesDone' /\ EdgesDone' /\ NamesDone'
           /\ PairsDone'
<1>1. /\ compiled' = compiled /\ byWire' = byWire /\ shapes' = shapes /\ inputs' = inputs
      /\ edges' = edges /\ edgeFetch' = edgeFetch /\ defaults' = defaults
  BY DEF tableVars
<1>2. OpeningDone /\ IdentityDone /\ NodesDone /\ EdgesDone /\ NamesDone /\ PairsDone
  BY DEF CompileInv, PassesInv, Later
<1>. QED
  BY <1>1, <1>2, OpeningStays, IdentityStays, NodesStay, EdgesStay, NamesStay, PairsStay

LEMMA WalkDefaultsKeeps == CompileInv /\ WalkDefaults => CompileInv'
<1>. SUFFICES ASSUME CompileInv, WalkDefaults PROVE CompileInv'
  OBVIOUS
<1>1. phase = "cycles" /\ UNCHANGED builderVars /\ UNCHANGED tableVars /\ UNCHANGED compileVars
  BY DEF WalkDefaults
<1>2. DeclaredInv' /\ b' = b /\ dead' = dead
  BY <1>1, SameDeclared DEF CompileInv
<1>3. phase' = phase /\ Forward
  BY <1>1, <1>2 DEF Forward, Clean, compileVars
<1>4. OpeningDone' /\ IdentityDone' /\ NodesDone' /\ EdgesDone' /\ NamesDone' /\ PairsDone'
  BY <1>1, <1>3, PassesStay DEF Later
<1>. QED
  BY <1>1, <1>2, <1>3, <1>4 DEF CompileInv, PassesInv, Later

LEMMA CheckCyclesKeeps == CompileInv /\ CheckCycles => CompileInv'
<1>. SUFFICES ASSUME CompileInv, CheckCycles PROVE CompileInv'
  OBVIOUS
<1>1. /\ phase = "cycles" /\ phase' = "fetchers" /\ UNCHANGED builderVars /\ UNCHANGED tableVars
      /\ Reports({Finding(c[1], c[2], "defaultCycle") : c \in cycles})
      /\ loads' = [n \in Nodes |-> Loads(n)]
      /\ seeds' = {Once(b.roots)[i] : i \in DOMAIN Once(b.roots)}
  BY DEF CheckCycles, Pass, BeginFetchers
<1>2. DeclaredInv' /\ b' = b /\ dead' = dead
  BY <1>1, SameDeclared DEF CompileInv
<1>3. Forward
  BY <1>1, <1>2, Reported DEF Forward
<1>4. OpeningDone' /\ IdentityDone' /\ NodesDone' /\ EdgesDone' /\ NamesDone' /\ PairsDone'
  BY <1>1, <1>3, PassesStay DEF Later
<1>5. CyclesDone'
  <2>1. Range(Once(b.roots)) = Range(b.roots)
    <3>1. b.roots \in Seq(DOMAIN b.nodes)
      BY DEF CompileInv, DeclaredInv
    <3>2. Range(Picked(b.roots, Range(b.roots))) = Range(b.roots) \cap Range(b.roots)
      BY <3>1, PickedFacts
    <3>. QED
      BY <3>2 DEF Once
  <2>2. seeds' = Range(b.roots)
    BY <1>1, <2>1 DEF Range
  <2>3. edges' = edges /\ edgeFetch' = edgeFetch /\ defaults' = defaults
    BY <1>1 DEF tableVars
  <2>4. Nodes' = Nodes /\ \A n : EdgesOf(n)' = EdgesOf(n)
    BY <1>2, <2>3 DEF Nodes, EdgesOf
  <2>5. \A n : Loaded(n)' = Loaded(n)
    BY <2>3, <2>4 DEF Loaded
  <2>6. \A n : Loads(n)' = Loads(n)
    BY <2>3, <2>5 DEF Loads
  <2>. QED
    BY <1>1, <1>2, <2>2, <2>4, <2>6 DEF CyclesDone
<1>. QED
  BY <1>1, <1>2, <1>4, <1>5 DEF CompileInv, PassesInv, Later

LEMMA WalkFetchersKeeps == CompileInv /\ WalkFetchers => CompileInv'
<1>. SUFFICES ASSUME CompileInv, WalkFetchers PROVE CompileInv'
  OBVIOUS
<1>1. phase = "fetchers" /\ UNCHANGED builderVars /\ UNCHANGED tableVars /\ UNCHANGED compileVars
  BY DEF WalkFetchers
<1>2. DeclaredInv' /\ b' = b /\ dead' = dead
  BY <1>1, SameDeclared DEF CompileInv
<1>3. phase' = phase /\ Forward
  BY <1>1, <1>2 DEF Forward, Clean, compileVars
<1>4. OpeningDone' /\ IdentityDone' /\ NodesDone' /\ EdgesDone' /\ NamesDone' /\ PairsDone'
  BY <1>1, <1>3, PassesStay DEF Later
<1>5. loads' = loads /\ seeds' = seeds
  BY DEF WalkFetchers, FetchStep, Examine, NextNode
<1>6. CyclesDone'
  <2>1. edges' = edges /\ edgeFetch' = edgeFetch /\ defaults' = defaults
    BY <1>1 DEF tableVars
  <2>. QED
    BY <1>1, <1>3, <1>5, <2>1, CyclesStay DEF CompileInv, PassesInv, Later
<1>. QED
  BY <1>1, <1>2, <1>3, <1>4, <1>6 DEF CompileInv, PassesInv, Later

LEMMA CheckFetchersKeeps == CompileInv /\ CheckFetchers => CompileInv'
<1>. SUFFICES ASSUME CompileInv, CheckFetchers PROVE CompileInv'
  OBVIOUS
<1>1. /\ phase = "fetchers" /\ FetchersDone /\ UNCHANGED builderVars /\ UNCHANGED tableVars
      /\ Reports(UNION {Of(n, MissingFetchers(n)) : n \in Nodes})
      /\ phase' = IF Clean' THEN "graph" ELSE "refused"
      /\ UNCHANGED fetchVars
  BY DEF CheckFetchers, Clean
<1>2. DeclaredInv' /\ b' = b /\ dead' = dead
  BY <1>1, SameDeclared DEF CompileInv
<1>3. Forward
  BY <1>1, <1>2, Reported DEF Forward
<1>4. OpeningDone' /\ IdentityDone' /\ NodesDone' /\ EdgesDone' /\ NamesDone' /\ PairsDone'
  BY <1>1, <1>3, PassesStay DEF Later
<1>5. /\ loads' = loads /\ seeds' = seeds /\ queue' = queue /\ needIDs' = needIDs
      /\ needParents' = needParents
  BY <1>1 DEF fetchVars
<1>6. CyclesDone'
  <2>1. edges' = edges /\ edgeFetch' = edgeFetch /\ defaults' = defaults
    BY <1>1 DEF tableVars
  <2>. QED
    BY <1>1, <1>3, <1>5, <2>1, CyclesStay DEF CompileInv, PassesInv, Later
<1>7. FetchersChecked'
  <2>1. Nodes' = Nodes /\ \A n : MissingFetchers(n)' = MissingFetchers(n)
    BY <1>2, <1>5 DEF Nodes, MissingFetchers
  <2>2. ASSUME Clean', NEW n \in Nodes PROVE MissingFetchers(n) = {}
    <3>1. UNION {Of(m, MissingFetchers(m)) : m \in Nodes} = {}
      BY <1>1, <2>2, Reported
    <3>2. Of(n, MissingFetchers(n)) = {}
      BY <3>1
    <3>. QED
      BY <3>2, OfNothing
  <2>. QED
    BY <1>1, <1>5, <2>1, <2>2 DEF FetchersChecked, FetchersDone
<1>. QED
  BY <1>1, <1>2, <1>4, <1>6, <1>7 DEF CompileInv, PassesInv, Later

LEMMA SteadyKeeps ==
    ASSUME CompileInv, UNCHANGED <<tableVars, fetchVars, compileVars>>,
           script' = script, b' = b, dead' = dead
    PROVE  CompileInv'
<1>1. /\ compiled' = compiled /\ byWire' = byWire /\ shapes' = shapes /\ inputs' = inputs
      /\ edges' = edges /\ edgeFetch' = edgeFetch /\ defaults' = defaults
      /\ loads' = loads /\ seeds' = seeds /\ queue' = queue /\ needIDs' = needIDs
      /\ needParents' = needParents /\ phase' = phase /\ findings' = findings
  BY DEF tableVars, fetchVars, compileVars
<1>2. DeclaredInv'
  <2>1. ScriptOK'
    BY DEF CompileInv, DeclaredInv, ScriptOK
  <2>. QED
    BY <2>1 DEF CompileInv, DeclaredInv
<1>3. (Clean' <=> Clean) /\ Forward
  BY <1>1 DEF Forward, Clean
<1>4. /\ OpeningDone => OpeningDone'
      /\ IdentityDone => IdentityDone'
      /\ NodesDone => NodesDone'
      /\ EdgesDone => EdgesDone'
      /\ NamesDone => NamesDone'
      /\ PairsDone => PairsDone'
      /\ CyclesDone => CyclesDone'
  BY <1>1, <1>3, OpeningStays, IdentityStays, NodesStay, EdgesStay, NamesStay, PairsStay, CyclesStay
<1>5. FetchersChecked => FetchersChecked'
  <2>1. Nodes' = Nodes /\ \A n : MissingFetchers(n)' = MissingFetchers(n)
    BY <1>1 DEF Nodes, MissingFetchers
  <2>. QED
    BY <1>1, <1>3, <2>1 DEF FetchersChecked, FetchersDone
<1>. QED
  BY <1>1, <1>2, <1>3, <1>4, <1>5 DEF CompileInv, PassesInv

LEMMA DeclaringKeeps == CompileInv /\ Declaring => CompileInv'
<1>. SUFFICES ASSUME CompileInv, Declaring PROVE CompileInv'
  OBVIOUS
<1>1. phase = "declare" /\ Declare /\ phase' = phase
  BY DEF Declaring, compileVars
<1>2. dead' = dead
  BY <1>1 DEF Declare, DeclareNode, AddSpec, SetNode, Defaults, DeclareEdge, SetEdge, Relate,
              SetRelation, RelationForeignKey, FetchEdge, RelationFetch, Root, GraphEnvelope,
              Forget, AddCall, Calls
<1>3. DeclaredInv'
  BY <1>1, DeclareKeeps DEF CompileInv
<1>. QED
  BY <1>1, <1>2, <1>3 DEF CompileInv, PassesInv, Later

LEMMA CompileInitially == Init => CompileInv
<1>. SUFFICES ASSUME Init PROVE CompileInv
  OBVIOUS
<1>1. /\ script \in Scripts /\ phase = "declare" /\ ~dead
      /\ b = [nodes |-> <<>>, roots |-> <<>>, envelope |-> None, relations |-> <<>>]
  BY DEF Init, BuilderInit
<1>2. ScriptOK
  BY <1>1, ScriptsAssumption DEF ScriptOK, IsSeq, Range
<1>3. NodesOK(b.nodes) /\ b.roots \in Seq(DOMAIN b.nodes)
  <2>1. <<>> \in Seq(Range(<<>>)) /\ DOMAIN <<>> = {} /\ <<>> \in Seq({})
    OBVIOUS
  <2>. QED
    BY <1>1, <2>1 DEF NodesOK, IsSeq
<1>4. DOMAIN b = {"nodes", "roots", "envelope", "relations"}
  BY <1>1
<1>. QED
  BY <1>1, <1>2, <1>3, <1>4 DEF CompileInv, DeclaredInv, PassesInv, Later

LEMMA CompileSteps == CompileInv /\ [Next]_vars => CompileInv'
<1>. SUFFICES ASSUME CompileInv, [Next]_vars PROVE CompileInv'
  OBVIOUS
<1>1. CASE UNCHANGED vars
  <2>1. UNCHANGED <<tableVars, fetchVars, compileVars>> /\ script' = script /\ b' = b /\ dead' = dead
    BY <1>1 DEF vars, builderVars
  <2>. QED
    BY <2>1, SteadyKeeps
<1>2. CASE Late \/ Finished
  <2>1. UNCHANGED <<tableVars, fetchVars, compileVars>> /\ script' = script /\ b' = b /\ dead' = dead
    BY <1>2 DEF Late, LateCall, Finished, vars, builderVars
  <2>. QED
    BY <2>1, SteadyKeeps
<1>. QED
  BY <1>1, DeclaringKeeps, StartCompileKeeps, CheckIdentityKeeps, CheckNodesKeeps, CheckEdgesKeeps,
     CheckNamesKeeps, CheckPairsKeeps, WalkDefaultsKeeps, CheckCyclesKeeps, WalkFetchersKeeps,
     CheckFetchersKeeps, <1>2 DEF Next

LEMMA CompileInvHolds == Spec => []CompileInv
  BY CompileInitially, CompileSteps, PTL DEF Spec

-----------------------------------------------------------------------------
(* Compile runs the two walks, each over a graph. *)

LEMMA LoadedFacts ==
    ASSUME EdgesBuilt, NEW n \in Nodes
    PROVE  /\ IsSeq(Loaded(n))
           /\ Range(Loaded(n)) = {e \in EdgesOf(n) :
                  e.target # None /\ (e.set.includable \/ Contains(defaults[n], e.key))}
<1> DEFINE S == {e \in EdgesOf(n) :
                  e.target # None /\ (e.set.includable \/ Contains(defaults[n], e.key))}
           s == edges[n]
           t == Selected(s, S)
<1>1. s \in Seq(Range(s))
  BY EdgeFacts DEF IsSeq
<1>2. S \subseteq Range(s)
  BY DEF EdgesOf
<1>3. t = Loaded(n)
  BY DEF Loaded
<1> HIDE DEF S, s
<1>4. t \in Seq(Range(s)) /\ Range(t) = Range(s) \cap S
  BY <1>1, SelectedFacts
<1> HIDE DEF t
<1>5. t \in Seq(Range(t))
  BY <1>4 DEF Range
<1>. QED
  BY <1>2, <1>3, <1>4, <1>5 DEF S, IsSeq

LEMMA LoadsFactsOf ==
    ASSUME EdgesBuilt, NEW n \in Nodes
    PROVE  Loads(n) \in Seq([target : Nodes, reverse : BOOLEAN, served : BOOLEAN])
<1> DEFINE es == Loaded(n)
           K == [target : Nodes, reverse : BOOLEAN, served : BOOLEAN]
<1>1. es \in Seq(Range(es)) /\ Len(es) \in Nat /\ DOMAIN es = 1..Len(es)
  BY LoadedFacts DEF IsSeq
<1>2. ASSUME NEW j \in DOMAIN es PROVE es[j].target \in Nodes
  <2>1. es[j] \in EdgesOf(n) /\ es[j].target # None
    BY LoadedFacts DEF Range
  <2>2. es[j].target \in compiled
    BY <2>1, EdgeFacts
  <2>. QED
    BY <2>2 DEF EdgesBuilt, TablesBuilt, CompiledNodes
<1>3. \A j \in DOMAIN es : [target |-> es[j].target, reverse |-> es[j].kind = "reverse",
                            served |-> es[j].key \in edgeFetch[n]] \in K
  BY <1>2
<1>4. Loads(n) = [j \in 1..Len(es) |-> [target |-> es[j].target, reverse |-> es[j].kind = "reverse",
                                        served |-> es[j].key \in edgeFetch[n]]]
  BY <1>1 DEF Loads
<1> HIDE DEF es, K
<1>5. Loads(n) \in [1..Len(es) -> K]
  BY <1>1, <1>3, <1>4
<1>6. Loads(n) \in Seq(K)
  BY <1>1, <1>5
<1>. QED
  BY <1>6 DEF K

LEMMA Built == CompileInv /\ phase \in Later.edges => EdgesBuilt
  BY DEF CompileInv, DeclaredInv, PassesInv, Later, IdentityDone, EdgesDone, EdgesBuilt, TablesBuilt

\* A function on the nodes is a sequence.
LEMMA NodesSeq ==
    ASSUME NodesOK(b.nodes), NEW K, NEW f \in [Nodes -> K]
    PROVE  f \in Seq(K) /\ DOMAIN f = Nodes
<1>1. Len(b.nodes) \in Nat /\ Nodes = 1..Len(b.nodes)
  BY NodesFacts DEF Nodes
<1>. QED
  BY <1>1

LEMMA SeqWithin == ASSUME NEW A, NEW B, A \subseteq B, NEW s \in Seq(A) PROVE s \in Seq(B)
  OBVIOUS

LEMMA FetchersBegin ==
    ASSUME CompileInv, phase = "cycles"
    PROVE  LET g == [n \in Nodes |-> Loads(n)] IN
           /\ IsLoads(g) /\ IsRoots(Once(b.roots), g)
           /\ g \in Seq(Seq([target : Nat, reverse : BOOLEAN, served : BOOLEAN]))
           /\ Once(b.roots) \in Seq(Nat)
<1> DEFINE g == [n \in Nodes |-> Loads(n)]
           K == [target : Nodes, reverse : BOOLEAN, served : BOOLEAN]
           KN == [target : Nat, reverse : BOOLEAN, served : BOOLEAN]
<1>1. EdgesBuilt /\ NodesOK(b.nodes) /\ b.roots \in Seq(Nodes)
  BY Built DEF Later, CompileInv, DeclaredInv, Nodes
<1>2. Nodes \subseteq Nat
  BY <1>1, NodesFacts DEF Nodes
<1>3. K \subseteq KN
  BY <1>2
<1>4. \A n \in Nodes : Loads(n) \in Seq(K)
  BY <1>1, LoadsFactsOf
<1> HIDE DEF K, KN
<1>5. \A s : s \in Seq(K) => s \in Seq(KN)
  BY <1>3
<1>6. g \in [Nodes -> Seq(K)] /\ g \in [Nodes -> Seq(KN)]
  BY <1>4, <1>5
<1> HIDE DEF g
<1>7. g \in Seq(Seq(K)) /\ g \in Seq(Seq(KN)) /\ DOMAIN g = Nodes
  BY <1>1, <1>6, NodesSeq
<1>8. Once(b.roots) \in Seq(Nodes)
  BY <1>1, PickedFacts DEF Once
<1>9. Once(b.roots) \in Seq(Nat)
  BY <1>2, <1>8, SeqWithin
<1>. QED
  BY <1>7, <1>8, <1>9 DEF g, K, KN, IsLoads, IsRoots

LEMMA FetchStepwise == CompileInv /\ [Next]_vars => [FetchNext]_fetchVars
<1>. SUFFICES ASSUME CompileInv, [Next]_vars PROVE [FetchNext]_fetchVars
  OBVIOUS
<1>1. CASE UNCHANGED vars
  BY <1>1 DEF vars
<1>2. CASE CheckCycles
  <2>1. phase = "cycles" /\ BeginFetchers([n \in Nodes |-> Loads(n)], Once(b.roots))
    BY <1>2 DEF CheckCycles, Pass
  <2>. QED
    BY <2>1, FetchersBegin DEF FetchNext
<1>3. CASE WalkFetchers
  BY <1>3 DEF WalkFetchers, FetchNext
<1>4. CASE Finished
  BY <1>4 DEF Finished, vars
<1>5. CASE \/ Declaring \/ StartCompile \/ CheckIdentity \/ CheckNodes \/ CheckEdges \/ CheckNames
           \/ CheckPairs \/ WalkDefaults \/ CheckFetchers \/ Late
  BY <1>5 DEF Declaring, StartCompile, CheckIdentity, CheckNodes, CheckEdges, CheckNames, CheckPairs,
              WalkDefaults, CheckFetchers, Late
<1>. QED
  BY <1>1, <1>2, <1>3, <1>4, <1>5 DEF Next

\* Compile walks the fetchers as FetchWalk says (checkFetchers): what is proved
\* of the walk over any graph holds of every compilation.
THEOREM CompileWalksFetchers == Spec => FetchSpec
<1>1. Init => FetchInit
  BY DEF Init
<1>. QED
  BY <1>1, FetchStepwise, CompileInvHolds, PTL DEF Spec, FetchSpec

LEMMA DefaultsTyped ==
    ASSUME DeclaredInv, EdgesBuilt, NamesDone, NEW n \in Nodes
    PROVE  defaults[n] \in Seq(STRING)
<1>1. b.nodes[n].defaults \in Seq(STRING)
  BY DEF DeclaredInv, NodesOK, Nodes, IsNode
<1> DEFINE S == {e \in BuiltEdges(n) : e.set.required /\ ~Contains(b.nodes[n].defaults, e.key)}
           s == edges[n]
           t == Selected(s, S)
<1>2. s \in Seq(Range(s)) /\ \A e \in Range(s) : e.key \in STRING
  BY EdgeFacts DEF IsSeq, EdgesOf
<1>3. RequiredKeys(n) = [j \in DOMAIN t |-> t[j].key]
  BY DEF RequiredKeys
<1> HIDE DEF S, s
<1>4. t \in Seq(Range(s))
  BY <1>2, SelectedFacts
<1> HIDE DEF t
<1>5. Len(t) \in Nat /\ DOMAIN t = 1..Len(t) /\ \A j \in DOMAIN t : t[j].key \in STRING
  BY <1>2, <1>4
<1>6. RequiredKeys(n) \in [1..Len(t) -> STRING]
  BY <1>3, <1>5
<1>7. RequiredKeys(n) \in Seq(STRING)
  BY <1>5, <1>6
<1>8. DefaultsOf(n) \in Seq(STRING)
  BY <1>1, <1>7, ConcatProperties DEF DefaultsOf
<1>. QED
  BY <1>1, <1>8 DEF NamesDone

LEMMA DefaultLinksFacts ==
    ASSUME DeclaredInv, EdgesBuilt, NamesDone, NEW n \in Nodes
    PROVE  DefaultLinks(n) \in Seq([key : STRING, target : Nodes])
<1> DEFINE S == {e.key : e \in {x \in EdgesOf(n) : x.target # None}}
           s == defaults[n]
           keys == Selected(s, S)
           K == [key : STRING, target : Nodes]
<1>1. s \in Seq(STRING)
  BY DefaultsTyped
<1>2. ASSUME NEW k \in S PROVE EdgeNamed(n, k).target \in Nodes
  <2>1. PICK e \in EdgesOf(n) : e.target # None /\ k = e.key
    BY <1>2
  <2>2. EdgeNamed(n, k) = e
    BY <2>1, NamedEdge
  <2>3. e.target \in compiled
    BY <2>1, EdgeFacts
  <2>. QED
    BY <2>2, <2>3 DEF EdgesBuilt, TablesBuilt, CompiledNodes
<1>3. DefaultLinks(n) = [j \in DOMAIN keys |-> [key |-> keys[j], target |-> EdgeNamed(n, keys[j]).target]]
  BY DEF DefaultLinks
<1> HIDE DEF S, s
<1>4. keys \in Seq(STRING) /\ Range(keys) = Range(s) \cap S
  BY <1>1, SelectedFacts
<1> HIDE DEF keys
<1>5. Len(keys) \in Nat /\ DOMAIN keys = 1..Len(keys) /\ \A j \in DOMAIN keys : keys[j] \in STRING /\ keys[j] \in S
  BY <1>4 DEF Range
<1>6. \A j \in DOMAIN keys : [key |-> keys[j], target |-> EdgeNamed(n, keys[j]).target] \in K
  BY <1>2, <1>5
<1> HIDE DEF K
<1>7. DefaultLinks(n) \in [1..Len(keys) -> K]
  BY <1>3, <1>5, <1>6
<1>8. DefaultLinks(n) \in Seq(K)
  BY <1>5, <1>7
<1>. QED
  BY <1>8 DEF K

LEMMA DefaultsBegin ==
    ASSUME CompileInv, phase = "pairs"
    PROVE  LET g == [n \in Nodes |-> DefaultLinks(n)] IN
           IsLinks(g) /\ g \in Seq(Seq([key : STRING, target : Nat]))
<1> DEFINE g == [n \in Nodes |-> DefaultLinks(n)]
           K == [key : STRING, target : Nodes]
           KN == [key : STRING, target : Nat]
<1>1. EdgesBuilt /\ NodesOK(b.nodes) /\ DeclaredInv /\ NamesDone
  BY Built DEF Later, CompileInv, DeclaredInv, PassesInv
<1>2. Nodes \subseteq Nat
  BY <1>1, NodesFacts DEF Nodes
<1>3. K \subseteq KN
  BY <1>2
<1>4. \A n \in Nodes : DefaultLinks(n) \in Seq(K)
  BY <1>1, DefaultLinksFacts
<1> HIDE DEF K, KN
<1>5. \A s : s \in Seq(K) => s \in Seq(KN)
  BY <1>3
<1>6. g \in [Nodes -> Seq(K)] /\ g \in [Nodes -> Seq(KN)]
  BY <1>4, <1>5
<1> HIDE DEF g
<1>7. g \in Seq(Seq(K)) /\ g \in Seq(Seq(KN)) /\ DOMAIN g = Nodes
  BY <1>1, <1>6, NodesSeq
<1>. QED
  BY <1>7 DEF g, K, KN, IsLinks

LEMMA DefaultStepwise == CompileInv /\ [Next]_vars => [DefaultNext]_defaultVars
<1>. SUFFICES ASSUME CompileInv, [Next]_vars PROVE [DefaultNext]_defaultVars
  OBVIOUS
<1>1. CASE UNCHANGED vars
  BY <1>1 DEF vars
<1>2. CASE CheckPairs
  <2>1. phase = "pairs" /\ BeginDefaults([n \in Nodes |-> DefaultLinks(n)])
    BY <1>2 DEF CheckPairs, Pass
  <2>. QED
    BY <2>1, DefaultsBegin DEF DefaultNext
<1>3. CASE WalkDefaults
  BY <1>3 DEF WalkDefaults, DefaultNext
<1>4. CASE Finished
  BY <1>4 DEF Finished, vars
<1>5. CASE \/ Declaring \/ StartCompile \/ CheckIdentity \/ CheckNodes \/ CheckEdges \/ CheckNames
           \/ CheckCycles \/ WalkFetchers \/ CheckFetchers \/ Late
  BY <1>5 DEF Declaring, StartCompile, CheckIdentity, CheckNodes, CheckEdges, CheckNames, CheckCycles,
              WalkFetchers, CheckFetchers, Late
<1>. QED
  BY <1>1, <1>2, <1>3, <1>4, <1>5 DEF Next

\* Compile walks the default edges as DefaultWalk says (checkDefaultCycles).
THEOREM CompileWalksDefaults == Spec => DefaultSpec
<1>1. Init => DefaultInit
  BY DEF Init
<1>. QED
  BY <1>1, DefaultStepwise, CompileInvHolds, PTL DEF Spec, DefaultSpec

\* Every compilation reports the default includes that would expand forever,
\* and no others.
THEOREM CompiledCyclesReported == Spec => []CyclesAreReported
  BY CompileWalksDefaults, DefaultCyclesReported

\* Every compilation asks for a fetcher exactly where the engine can need one.
THEOREM CompiledNeedsExact == Spec => []NeedsAreExact
  BY CompileWalksFetchers, FetchNeedsExact

-----------------------------------------------------------------------------
(* The graph of a compilation without a finding. *)

LEMMA GraphFacts ==
    ASSUME CompileInv, HasGraph
    PROVE  /\ EdgesBuilt /\ compiled = Nodes /\ NodesOK(b.nodes) /\ b.roots \in Seq(Nodes)
           /\ EnvelopeFaults(b.envelope) = {}
           /\ \A n \in Nodes : /\ NodeFaults(n, shapes[n]) = {} /\ EdgesClean(n)
                               /\ MissingFetchers(n) = {}
                               /\ defaults[n] = DefaultsOf(n)
                               /\ inputs[n] = CompiledInputs(b.nodes[n].inputs, shapes[n])
                               /\ loads[n] = Loads(n)
           /\ DOMAIN loads = Nodes /\ seeds = Range(b.roots)
           /\ FetchersDone
<1>1. /\ Clean /\ OpeningDone /\ IdentityDone /\ NodesDone /\ EdgesDone /\ NamesDone /\ PairsDone
      /\ CyclesDone /\ FetchersChecked
  BY DEF CompileInv, PassesInv, Later, HasGraph
<1>2. compiled = Nodes
  <2>1. ASSUME NEW n \in Nodes PROVE n \in CompiledNodes
    <3>1. IdentityFaults(n) = {}
      BY <1>1 DEF IdentityDone
    <3>. QED
      BY <3>1 DEF IdentityFaults
  <2>. QED
    BY <1>1, <2>1 DEF IdentityDone, CompiledNodes
<1>3. EdgesBuilt /\ NodesOK(b.nodes) /\ b.roots \in Seq(Nodes)
  BY Built DEF Later, HasGraph, CompileInv, DeclaredInv, Nodes
<1>. QED
  BY <1>1, <1>2, <1>3 DEF OpeningDone, NodesDone, EdgesDone, NamesDone, CyclesDone, FetchersChecked

LEMMA CleanEdge ==
    ASSUME CompileInv, HasGraph, NEW n \in Nodes, NEW e \in EdgesOf(n)
    PROVE  /\ e.kind \in EdgeKinds /\ e.key \in STRING /\ IsSettings(e.set)
           /\ e.kind # "computed" => e.target # None
           /\ e.target # None => e.target \in Nodes
           /\ PlaceFaults(n, e) = {} /\ KindFaults(e) = {} /\ OptionFaults(e.kind, e.set) = {}
           /\ CountFaults(e) = {} /\ MeaningFaults(e) = {} /\ EnvelopeFaults(e.set.envelope) = {}
           /\ PairClean(n, e)
<1>1. EdgesBuilt /\ compiled = Nodes /\ EdgesClean(n)
  BY GraphFacts
<1>2. ~Skipped(e) /\ BuiltFaults(n, e) = {}
  BY <1>1 DEF EdgesClean
<1>3. /\ PlaceFaults(n, e) = {} /\ KindFaults(e) = {} /\ OptionFaults(e.kind, e.set) = {}
      /\ CountFaults(e) = {} /\ MeaningFaults(e) = {} /\ EnvelopeFaults(e.set.envelope) = {}
  BY <1>2 DEF BuiltFaults
<1>4. e.kind # "computed" => e.target # None
  BY <1>3 DEF PlaceFaults
<1>5. PairClean(n, e)
  BY <1>2 DEF CompileInv, PassesInv, Later, HasGraph, PairsDone, BuiltEdges
<1>. QED
  BY <1>1, <1>2, <1>3, <1>4, <1>5, EdgeFacts DEF Skipped

LEMMA LoadedEdge ==
    ASSUME CompileInv, HasGraph, NEW n \in Nodes, NEW e \in LoadedEdges(n)
    PROVE  /\ e \in EdgesOf(n) /\ e.target \in Nodes
           /\ \E i \in LoadsOf(n) : /\ loads[n][i].target = e.target
                                    /\ loads[n][i].reverse = (e.kind = "reverse")
                                    /\ loads[n][i].served = (e.key \in edgeFetch[n])
<1>1. EdgesBuilt /\ loads[n] = Loads(n)
  BY GraphFacts
<1>2. e \in EdgesOf(n) /\ e.target # None
  BY <1>1, LoadedFacts DEF LoadedEdges
<1>3. e.target \in Nodes
  BY <1>2, CleanEdge
<1> DEFINE es == Loaded(n)
<1>4. PICK i \in DOMAIN es : es[i] = e
  BY DEF LoadedEdges, Range
<1>5. loads[n] = [j \in DOMAIN es |-> [target |-> es[j].target, reverse |-> es[j].kind = "reverse",
                                        served |-> es[j].key \in edgeFetch[n]]]
  BY <1>1 DEF Loads
<1> HIDE DEF es
<1>6. i \in LoadsOf(n)
  BY <1>4, <1>5 DEF LoadsOf
<1>7. loads[n][i] = [target |-> e.target, reverse |-> e.kind = "reverse", served |-> e.key \in edgeFetch[n]]
  BY <1>4, <1>5
<1>. QED
  BY <1>2, <1>3, <1>6, <1>7

LEMMA ReachableIsReached ==
    ASSUME CompileInv, HasGraph, NEW r \in Range(Roots), NEW n \in Reachable(r)
    PROVE  Reaches(n)
<1>1. /\ EdgesBuilt /\ NodesOK(b.nodes) /\ b.roots \in Seq(Nodes)
      /\ DOMAIN loads = Nodes /\ seeds = Range(b.roots)
  BY GraphFacts
<1>2. r \in seeds
  <2>1. Range(Roots) = Range(b.roots) \cap compiled
    BY <1>1, PickedFacts DEF Roots
  <2>. QED
    BY <1>1, <2>1
<1>. SUFFICES ASSUME NEW S \in SUBSET FetchNodes, seeds \subseteq S, Closed(S) PROVE n \in S
  BY DEF Reaches
<1> DEFINE next == [m \in Nodes |-> IncludableFrom(m)]
<1>3. ASSUME NEW m \in S PROVE next[m] \subseteq S
  <2>1. m \in Nodes
    BY <1>1 DEF FetchNodes
  <2>2. ASSUME NEW t \in IncludableFrom(m) PROVE t \in S
    <3>1. PICK e \in EdgesOf(m) : e.set.includable /\ e.target # None /\ t = e.target
      BY DEF IncludableFrom
    <3>2. e \in LoadedEdges(m)
      BY <1>1, <2>1, <3>1, LoadedFacts DEF LoadedEdges
    <3>3. PICK i \in LoadsOf(m) : loads[m][i].target = e.target
      BY <2>1, <3>2, LoadedEdge
    <3>. QED
      BY <3>1, <3>3 DEF Closed
  <2>. QED
    BY <2>1, <2>2
<1>4. Reachable(r) = Onward(next, r)
  BY DEF Reachable
<1> HIDE DEF next
<1>5. Reachable(r) \subseteq S
  BY <1>1, <1>2, <1>3, <1>4, OnwardStays
<1>. QED
  BY <1>5

\* The lookup the engine makes on an edge it may load finds its fetcher, and the
\* closures it calls are there.
LEMMA EdgeIsServed ==
    ASSUME CompileInv, NeedsAreExact, HasGraph, NEW n \in Nodes, Reaches(n),
           NEW e \in LoadedEdges(n)
    PROVE  HasFetcher(n, e) /\ HasClosures(e)
<1>1. e \in EdgesOf(n) /\ e.target \in Nodes
  BY LoadedEdge
<1>2. PICK i \in LoadsOf(n) : /\ loads[n][i].target = e.target
                              /\ loads[n][i].reverse = (e.kind = "reverse")
                              /\ loads[n][i].served = (e.key \in edgeFetch[n])
  BY LoadedEdge
<1>3. /\ compiled = Nodes /\ FetchersDone /\ n \in FetchNodes
      /\ MissingFetchers(e.target) = {}
  BY <1>1, GraphFacts DEF FetchNodes
<1>4. /\ <<n, e.target, i>> \in needIDs <=> AsksIDs(loads[n][i]) /\ Reaches(n)
      /\ <<n, e.target, i>> \in needParents <=> AsksParents(loads[n][i]) /\ Reaches(n)
  BY <1>2, <1>3 DEF NeedsAreExact
<1>5. CASE e.kind = "reverse"
  <2>1. ASSUME e.key \in edgeFetch[n] PROVE HasFetcher(n, e)
    BY <1>3, <1>5, <2>1 DEF HasFetcher, FetchByEdge
  <2>2. ASSUME e.key \notin edgeFetch[n] PROVE HasFetcher(n, e)
    <3>1. <<n, e.target, i>> \in needParents
      BY <1>2, <1>4, <1>5, <2>2 DEF AsksParents
    <3>2. \E d \in needParents : d[2] = e.target
      BY <3>1
    <3>3. b.nodes[e.target].fetchParents
      BY <1>3, <3>2 DEF MissingFetchers
    <3>. QED
      BY <1>1, <1>3, <1>5, <3>3 DEF HasFetcher, FetchByParents
  <2>. QED
    BY <1>5, <2>1, <2>2 DEF HasClosures
<1>6. CASE e.kind # "reverse"
  <2>1. <<n, e.target, i>> \in needIDs
    BY <1>2, <1>4, <1>6 DEF AsksIDs
  <2>2. \E d \in needIDs : d[2] = e.target
    BY <2>1
  <2>3. b.nodes[e.target].fetchIDs
    BY <1>3, <2>2 DEF MissingFetchers
  <2>4. KindFaults(e) = {}
    BY <1>1, CleanEdge
  <2>5. HasClosures(e)
    BY <2>4 DEF HasClosures, KindFaults
  <2>. QED
    BY <1>1, <1>3, <1>6, <2>3, <2>5 DEF HasFetcher, FetchByIDs
<1>. QED
  BY <1>5, <1>6

\* The target a required edge promises is a default no guard takes back.
LEMMA PromiseIsKept ==
    ASSUME CompileInv, HasGraph, NEW n \in Nodes, NEW e \in EdgesOf(n)
    PROVE  KeepsPromise(n, e)
<1>. SUFFICES ASSUME e.set.required
              PROVE  e \in LoadedEdges(n) /\ Contains(defaults[n], e.key) /\ e.set.guard = "unset"
  BY DEF KeepsPromise
<1>1. e.key \in STRING /\ MeaningFaults(e) = {}
  BY CleanEdge
<1>2. e.kind = "toOne" /\ e.set.guard = "unset"
  BY <1>1 DEF MeaningFaults
<1>3. e.target # None
  BY <1>2, CleanEdge
<1>4. EdgesBuilt /\ NodesOK(b.nodes) /\ defaults[n] = DefaultsOf(n)
  BY GraphFacts
<1> DEFINE declared == b.nodes[n].defaults
           S == {x \in BuiltEdges(n) : x.set.required /\ ~Contains(declared, x.key)}
           s == edges[n]
           t == Selected(s, S)
           keys == [j \in DOMAIN t |-> t[j].key]
<1>5. declared \in Seq(STRING)
  BY <1>4 DEF NodesOK, Nodes, IsNode
<1>6. s \in Seq(Range(s)) /\ \A x \in Range(s) : x.key \in STRING
  BY <1>4, EdgeFacts DEF IsSeq, EdgesOf
<1>7. defaults[n] = declared \o keys
  BY <1>4 DEF DefaultsOf, RequiredKeys
<1>8. e \in Range(s) /\ (e \in S <=> ~Contains(declared, e.key))
  BY <1>2 DEF EdgesOf, BuiltEdges, Skipped
<1> HIDE DEF declared, S, s
<1>9. t \in Seq(Range(s)) /\ Range(t) = Range(s) \cap S
  BY <1>6, SelectedFacts
<1> HIDE DEF t
<1>10. Len(t) \in Nat /\ DOMAIN t = 1..Len(t) /\ \A j \in DOMAIN t : t[j].key \in STRING
  BY <1>6, <1>9
<1>11. keys \in Seq(STRING) /\ DOMAIN keys = DOMAIN t /\ Len(keys) = Len(t)
       /\ \A j \in DOMAIN t : keys[j] = t[j].key
  BY <1>10
<1> HIDE DEF keys
<1>12. /\ Len(declared) \in Nat /\ Len(keys) \in Nat
       /\ Len(declared \o keys) = Len(declared) + Len(keys)
       /\ \A i \in 1..(Len(declared) + Len(keys)) :
             (declared \o keys)[i] = IF i <= Len(declared) THEN declared[i] ELSE keys[i - Len(declared)]
  <2>1. keys \in Seq(STRING)
    BY <1>11
  <2>2. Len(declared) \in Nat /\ Len(keys) \in Nat
    BY <1>5, <2>1, LenProperties
  <2>. QED
    BY <1>5, <2>1, <2>2, ConcatProperties
<1>13. Contains(defaults[n], e.key)
  <2>1. CASE Contains(declared, e.key)
    <3>1. PICK i \in 1..Len(declared) : declared[i] = e.key
      BY <2>1 DEF Contains
    <3>2. i \in 1..(Len(declared) + Len(keys)) /\ (declared \o keys)[i] = e.key
      BY <1>12, <3>1
    <3>. QED
      BY <1>7, <1>12, <3>2 DEF Contains
  <2>2. CASE ~Contains(declared, e.key)
    <3>1. e \in Range(t)
      BY <1>8, <1>9, <2>2
    <3>2. PICK j \in DOMAIN t : t[j] = e
      BY <3>1 DEF Range
    <3>3. keys[j] = e.key /\ j \in 1..Len(keys)
      BY <1>10, <1>11, <3>2
    <3>4. /\ j + Len(declared) \in 1..(Len(declared) + Len(keys))
          /\ ~(j + Len(declared) <= Len(declared)) /\ (j + Len(declared)) - Len(declared) = j
      BY <1>12, <3>3
    <3>5. (declared \o keys)[j + Len(declared)] = e.key
      BY <1>12, <3>3, <3>4
    <3>. QED
      BY <1>7, <1>12, <3>4, <3>5 DEF Contains
  <2>. QED
    BY <2>1, <2>2
<1>14. e \in LoadedEdges(n)
  BY <1>3, <1>4, <1>13, LoadedFacts DEF LoadedEdges
<1>. QED
  BY <1>2, <1>13, <1>14

\* Where rows multiply, they are counted.
LEMMA RowsAreCounted ==
    ASSUME CompileInv, HasGraph, NEW n \in Nodes, NEW e \in EdgesOf(n)
    PROVE  CountsRows(n, e)
<1>1. CountFaults(e) = {} /\ PairClean(n, e) /\ IsSettings(e.set)
  BY CleanEdge
<1>2. CASE Unbounded(e)
  <2>1. e.set.estimatedRows # None \/ n \notin ManyTargets
    BY <1>1, <1>2 DEF PairClean, NeedsEstimate
  <2>2. ASSUME NEW m \in Nodes, NEW d \in LoadedEdges(m), d.target = n, d.kind \in ManyEdgeKinds
        PROVE  n \in ManyTargets
    <3>1. d \in EdgesOf(m)
      BY LoadedEdge
    <3>. QED
      BY <2>2, <3>1 DEF ManyTargets
  <2>. QED
    BY <1>2, <2>1, <2>2 DEF CountsRows
<1>3. CASE ~Unbounded(e)
  <2>1. e.set.limit \in Int \cup {None}
    BY <1>1 DEF IsSettings, IsSetting, NoSettings
  <2>2. e.set.limit # None => e.set.limit >= 1
    BY <1>1, <2>1 DEF CountFaults
  <2>3. e.kind \in ManyEdgeKinds => e.kind \in {"hasMany", "reverse"} /\ ~e.set.bare
    BY <1>3 DEF Unbounded, ManyEdgeKinds
  <2>4. e.kind \in ManyEdgeKinds => LimitOf(e) >= 1
    BY <2>2, <2>3 DEF LimitOf, DefaultEdgeLimit
  <2>. QED
    BY <1>3, <2>4 DEF CountsRows
<1>. QED
  BY <1>2, <1>3

LEMMA FaultlessIsWrapped ==
    ASSUME NEW env, env # None, EnvelopeFaults(env) = {}
    PROVE  Wrapped(env)
<1>1. ~(env.Key = "" /\ env.Pagination # "") /\ ~(env.Key # "" /\ env.Key = env.Pagination)
  BY DEF EnvelopeFaults
<1>. QED
  BY <1>1 DEF Wrapped

LEMMA EnvelopesAreWrapped ==
    ASSUME CompileInv, HasGraph, NEW n \in Nodes, NEW e \in EdgesOf(n)
    PROVE  Wrapped(EnvelopeOf(e))
<1>1. EnvelopeFaults(e.set.envelope) = {} /\ (e.target # None => e.target \in Nodes)
  BY CleanEdge
<1>2. EnvelopeFaults(b.envelope) = {}
  BY GraphFacts
<1>3. e.target # None => EnvelopeFaults(b.nodes[e.target].envelope) = {}
  BY <1>1, GraphFacts DEF NodeFaults
<1>4. Wrapped(PlainEnvelope)
  BY DEF Wrapped, PlainEnvelope
<1>. QED
  BY <1>1, <1>2, <1>3, <1>4, FaultlessIsWrapped DEF EnvelopeOf

LEMMA FilterableLeads ==
    ASSUME CompileInv, HasGraph, NEW n \in Nodes, NEW e \in EdgesOf(n), e.set.filterable
    PROVE  LeadsToColumn(e.target)
<1>1. MeaningFaults(e) = {} /\ PairClean(n, e) /\ (e.kind # "computed" => e.target # None)
  BY CleanEdge
<1>2. e.kind \notin {"inArray", "computed"}
  BY <1>1 DEF MeaningFaults
<1>. QED
  BY <1>1, <1>2 DEF PairClean

LEMMA NodeIsServable ==
    ASSUME CompileInv, HasGraph, NEW n \in Nodes
    PROVE  n \in compiled /\ b.nodes[n].Wire = "fn" /\ b.nodes[n].PrimaryKey = "fn"
<1>1. compiled = Nodes /\ NodeFaults(n, shapes[n]) = {}
  BY GraphFacts
<1>2. ClosureFaults(n) = {}
  BY <1>1 DEF NodeFaults
<1>3. ClosureFaults(n) = {} => b.nodes[n]["Wire"] = "fn" /\ b.nodes[n]["PrimaryKey"] = "fn"
  BY DEF ClosureFaults
<1>. QED
  BY <1>1, <1>2, <1>3

\* The engine serves every plan a request can make of a graph that compiled,
\* whatever was declared (Compile).
THEOREM CompiledIsServable == Spec => []GraphIsServable
<1>1. CompileInv /\ NeedsAreExact => GraphIsServable
  <2>. SUFFICES ASSUME CompileInv, NeedsAreExact, HasGraph
                PROVE  /\ \A r \in Range(Roots) : \A n \in Reachable(r) : Reaches(n)
                       /\ \A n \in Nodes : Reaches(n) =>
                            /\ n \in compiled /\ b.nodes[n].Wire = "fn" /\ b.nodes[n].PrimaryKey = "fn"
                            /\ \A e \in LoadedEdges(n) : HasFetcher(n, e) /\ HasClosures(e)
                            /\ \A e \in EdgesOf(n) :
                                  /\ KeepsPromise(n, e)
                                  /\ CountsRows(n, e)
                                  /\ e.set.filterable => LeadsToColumn(e.target)
                                  /\ ~Contains(ShapeOf(n).fields, e.key)
                                  /\ Wrapped(EnvelopeOf(e))
    BY DEF GraphIsServable
  <2>1. ASSUME NEW n \in Nodes, NEW e \in EdgesOf(n) PROVE ~Contains(ShapeOf(n).fields, e.key)
    <3>1. PlaceFaults(n, e) = {}
      BY CleanEdge
    <3>. QED
      BY <3>1 DEF PlaceFaults
  <2>. QED
    BY <2>1, ReachableIsReached, NodeIsServable, EdgeIsServed, PromiseIsKept, RowsAreCounted,
       FilterableLeads, EnvelopesAreWrapped
<1>. QED
  BY <1>1, CompileInvHolds, CompiledNeedsExact, PTL

-----------------------------------------------------------------------------
(* Nothing declared is inert. *)

LEMMA EveryEdgeCounts ==
    ASSUME CompileInv, HasGraph, NEW n \in Nodes
    PROVE  {e.set : e \in EdgesOf(n)} = {d.set : d \in Range(b.nodes[n].edges)}
<1> DEFINE own == b.nodes[n].edges
<1>1. EdgesBuilt /\ compiled = Nodes /\ EdgesClean(n)
  BY GraphFacts
<1>2. FirstOfKey(own) = DOMAIN own
  BY <1>1 DEF EdgesClean, FirstOfKey
<1>3. edges[n] = EdgeTable(n)
  BY <1>1 DEF EdgesBuilt, EdgeTables
<1>4. EdgesOf(n) = {Resolved(own[i]) : i \in DOMAIN own}
  BY <1>1, <1>2, <1>3, TableFacts DEF EdgesBuilt, EdgesOf
<1>5. \A i \in DOMAIN own : Resolved(own[i]).set = own[i].set
  BY DEF Resolved
<1> HIDE DEF own
<1>6. {e.set : e \in EdgesOf(n)} = {own[i].set : i \in DOMAIN own}
  BY <1>4, <1>5
<1>7. {d.set : d \in Range(own)} = {own[i].set : i \in DOMAIN own}
  BY DEF Range
<1>. QED
  BY <1>6, <1>7 DEF own

\* An option that was declared is one the matrix has for the kind.
LEMMA OptionFits ==
    ASSUME NEW kind, NEW s, OptionFaults(kind, s) = {}, NEW o \in OptionsOf(s)
    PROVE  kind \in OptionKinds[o]
  BY DEF OptionFaults

LEMMA OptionsAreRead ==
    ASSUME CompileInv, HasGraph, NEW n \in Nodes, NEW e \in EdgesOf(n),
           NEW o \in DOMAIN NoSettings, e.set[o] # NoSettings[o]
    PROVE  o \in EngineReads(e)
<1> DEFINE s == e.set
<1>1. /\ e.kind \in EdgeKinds /\ IsSettings(s)
      /\ OptionFaults(e.kind, s) = {} /\ CountFaults(e) = {} /\ MeaningFaults(e) = {}
      /\ KindFaults(e) = {}
  BY CleanEdge
<1>2. \A p \in OptionsOf(s) : e.kind \in OptionKinds[p]
  BY <1>1, OptionFits
<1>3. /\ s.bare \in BOOLEAN /\ s.required \in BOOLEAN /\ s.filterable \in BOOLEAN
      /\ s.includable \in BOOLEAN
  BY <1>1 DEF IsSettings, IsSetting, NoSettings
<1>4. CASE o = "foreignKey"
  <2>1. s.foreignKey # "unset"
    BY <1>4 DEF NoSettings
  <2>2. "foreignKey" \in OptionsOf(s)
    BY <2>1 DEF OptionsOf
  <2>3. e.kind \in {"toOne"}
    BY <1>2, <2>2 DEF OptionKinds
  <2>. QED
    BY <1>4, <2>3 DEF EngineReads
<1>5. CASE o = "foreignKeys"
  <2>1. s.foreignKeys # "unset"
    BY <1>5 DEF NoSettings
  <2>2. "foreignKeys" \in OptionsOf(s)
    BY <2>1 DEF OptionsOf
  <2>3. e.kind \in {"hasMany", "inArray"}
    BY <1>2, <2>2 DEF OptionKinds
  <2>. QED
    BY <1>5, <2>3 DEF EngineReads
<1>6. CASE o = "guard"
  <2>1. s.guard # "unset"
    BY <1>6 DEF NoSettings
  <2>2. "guard" \in OptionsOf(s)
    BY <2>1 DEF OptionsOf
  <2>3. e.kind # "computed"
    BY <1>2, <2>2 DEF OptionKinds
  <2>. QED
    BY <1>6, <2>3 DEF EngineReads
<1>7. CASE o = "limit"
  <2>1. s.limit # None
    BY <1>7 DEF NoSettings
  <2>2. "limit" \in OptionsOf(s)
    BY <2>1 DEF OptionsOf
  <2>3. e.kind \in {"reverse", "hasMany"}
    BY <1>2, <2>2 DEF OptionKinds
  <2>. QED
    BY <1>7, <2>3 DEF EngineReads
<1>8. CASE o = "bare"
  <2>1. s.bare
    BY <1>3, <1>8 DEF NoSettings
  <2>2. "bare" \in OptionsOf(s)
    BY <2>1 DEF OptionsOf
  <2>3. e.kind \in {"reverse", "hasMany"}
    BY <1>2, <2>2 DEF OptionKinds
  <2>. QED
    BY <1>8, <2>3 DEF EngineReads
<1>9. CASE o = "estimatedRows"
  <2>1. s.estimatedRows # None
    BY <1>9 DEF NoSettings
  <2>2. Unbounded(e)
    BY <1>1, <2>1 DEF CountFaults
  <2>. QED
    BY <1>9, <2>2 DEF EngineReads
<1>10. CASE o = "sort"
  <2>1. s.sort # None
    BY <1>10 DEF NoSettings
  <2>2. "sort" \in OptionsOf(s)
    BY <2>1 DEF OptionsOf
  <2>3. e.kind = "reverse"
    BY <1>2, <2>2 DEF OptionKinds
  <2>4. e.target # None
    BY <2>3, CleanEdge
  <2>5. s.sort.key \in SortCols(ShapeOf(e.target))
    BY <1>1, <2>1, <2>4 DEF MeaningFaults
  <2>6. s.sort.key \in SortColsOf(e)
    BY <2>3, <2>4, <2>5 DEF SortColsOf
  <2>. QED
    BY <1>10, <2>1, <2>6 DEF EngineReads
<1>11. CASE o = "args"
  <2>1. s.args # {}
    BY <1>11 DEF NoSettings
  <2>2. "args" \in OptionsOf(s)
    BY <2>1 DEF OptionsOf
  <2>3. e.kind \in {"reverse", "computed"}
    BY <1>2, <2>2 DEF OptionKinds
  <2>. QED
    BY <1>11, <2>3 DEF EngineReads
<1>12. CASE o = "envelope"
  <2>1. s.envelope # None
    BY <1>12 DEF NoSettings
  <2>2. "envelope" \in OptionsOf(s)
    BY <2>1 DEF OptionsOf
  <2>3. e.kind # "computed"
    BY <1>2, <2>2 DEF OptionKinds
  <2>4. EnvelopeOf(e) = e.set.envelope
    BY <2>1, <2>3 DEF EnvelopeOf
  <2>. QED
    BY <1>12, <2>4 DEF EngineReads
<1>13. CASE o = "inverse"
  <2>1. s.inverse # ""
    BY <1>13 DEF NoSettings
  <2>2. e.kind # "computed"
    BY <1>1, <2>1 DEF KindFaults
  <2>. QED
    BY <1>13, <2>2 DEF EngineReads
<1>14. CASE o = "filterable"
  <2>1. s.filterable
    BY <1>3, <1>14 DEF NoSettings
  <2>2. e.kind \notin {"inArray", "computed"}
    BY <1>1, <2>1 DEF MeaningFaults
  <2>3. e.kind \in {"toOne", "hasMany", "reverse"}
    BY <1>1, <2>2 DEF EdgeKinds
  <2>. QED
    BY <1>14, <2>3 DEF EngineReads
<1>15. CASE o = "required"
  <2>1. s.required
    BY <1>3, <1>15 DEF NoSettings
  <2>2. e.kind = "toOne"
    BY <1>1, <2>1 DEF MeaningFaults
  <2>. QED
    BY <1>15, <2>2 DEF EngineReads
<1>16. CASE o \in {"policies", "includable"}
  BY <1>16 DEF EngineReads
<1>. QED
  BY <1>4, <1>5, <1>6, <1>7, <1>8, <1>9, <1>10, <1>11, <1>12, <1>13, <1>14, <1>15, <1>16
  DEF NoSettings

LEMMA PoliciesAreRead ==
    ASSUME CompileInv, HasGraph, NEW n \in Nodes, NEW e \in EdgesOf(n)
    PROVE  e.set.policies \subseteq PoliciesRead(e)
<1> DEFINE s == e.set
<1>1. /\ IsSettings(s) /\ OptionFaults(e.kind, s) = {}
  BY CleanEdge
<1>2. s.policies \subseteq {"excludeRequired", "missingRequired", "missingForeign"}
  BY <1>1 DEF IsSettings, IsSetting, NoSettings
<1>3. ASSUME "missingForeign" \in s.policies PROVE e.kind \in {"toOne", "hasMany", "inArray"}
  <2>1. "missingForeign" \in OptionsOf(s)
    BY <1>3 DEF OptionsOf
  <2>2. e.kind \in OptionKinds["missingForeign"]
    BY <1>1, <2>1, OptionFits
  <2>. QED
    BY <2>2 DEF OptionKinds
<1>4. ~s.required => s.policies \cap {"excludeRequired", "missingRequired"} = {}
  BY <1>1 DEF OptionFaults
<1>. QED
  BY <1>2, <1>3, <1>4 DEF PoliciesRead

\* Nothing declared in a graph that compiled is without effect, whatever was
\* declared (checkOptionMatrix and the edge checks of Compile).
THEOREM CompiledIsNotInert == Spec => []NothingIsInert
<1>1. CompileInv => NothingIsInert
  <2>. SUFFICES ASSUME CompileInv, HasGraph, NEW n \in Nodes
                PROVE  /\ {e.set : e \in EdgesOf(n)} = {d.set : d \in Range(b.nodes[n].edges)}
                       /\ \A e \in EdgesOf(n) :
                             /\ \A o \in DOMAIN NoSettings : e.set[o] # NoSettings[o] => o \in EngineReads(e)
                             /\ e.set.policies \subseteq PoliciesRead(e)
                             /\ e.set.bare => e.set.limit = None
    BY DEF NothingIsInert
  <2>1. ASSUME NEW e \in EdgesOf(n), e.set.bare PROVE e.set.limit = None
    <3>1. CountFaults(e) = {}
      BY CleanEdge
    <3>. QED
      BY <2>1, <3>1 DEF CountFaults
  <2>. QED
    BY <2>1, EveryEdgeCounts, OptionsAreRead, PoliciesAreRead
<1>. QED
  BY <1>1, CompileInvHolds, PTL

-----------------------------------------------------------------------------
(* The document lists what a request may ask. *)

LEMMA LeastOfTwo ==
    ASSUME NEW i \in Int, NEW j \in Int
    PROVE  Min({i, j}) \in {i, j} /\ Min({i, j}) <= i /\ Min({i, j}) <= j
<1>1. \E x \in {i, j} : \A y \in {i, j} : x <= y
  <2>1. CASE i <= j
    BY <2>1
  <2>2. CASE ~(i <= j)
    BY <2>2
  <2>. QED
    BY <2>1, <2>2
<1>2. Min({i, j}) \in {i, j} /\ \A y \in {i, j} : Min({i, j}) <= y
  BY <1>1 DEF Min
<1>. QED
  BY <1>2

\* The list inputs of a node that compiled, over its shape.
SettledListing(in, shape) ==
    /\ in.sort \in BOOLEAN /\ in.filter \in BOOLEAN
    /\ in.sort => DOMAIN in.keys = SortCols(shape)
    /\ in.sortDefault # None =>
          in.sort /\ in.sortDefault \in Sorts(STRING) /\ in.sortDefault.key \in DOMAIN in.keys
    /\ in.filter => in.fields = FilterCols(shape)
    /\ in.mode \in {"cursor", "offset"}
    /\ in.maxLimit \in Nat /\ in.maxLimit >= 1
    /\ in.defaultLimit \in 1..in.maxLimit

LEMMA CompiledListing ==
    ASSUME NEW d, IsListing(d), NEW shape, InputFaults(d, shape) = {}
    PROVE  SettledListing(CompiledInputs(d, shape), shape)
<1> DEFINE in == CompiledInputs(d, shape)
<1>1. CASE d = None
  BY <1>1 DEF CompiledInputs, DefaultInputs, DefaultPageLimit, DefaultMaxPageLimit, SettledListing
<1>2. CASE d # None
  <2>1. /\ d.sort \in BOOLEAN /\ d.filter \in BOOLEAN
        /\ d.sortDefault # None => d.sortDefault \in Sorts(STRING)
        /\ d.defaultLimit \in Int /\ d.maxLimit \in Int
    BY <1>2 DEF IsListing
  <2>2. /\ ~(d.sort /\ d.sortDefault # None /\ d.sortDefault.key \notin SortCols(shape))
        /\ ~(d.defaultLimit < 0 \/ d.maxLimit < 0)
        /\ ~(PageLimit(d, PageMax(d)) > PageMax(d))
    BY <1>2 DEF InputFaults
  <2>3. PageMax(d) \in Nat /\ PageMax(d) >= 1
    BY <2>1, <2>2 DEF PageMax, DefaultMaxPageLimit
  <2>4. PageLimit(d, PageMax(d)) \in Int /\ PageLimit(d, PageMax(d)) >= 1
    <3>1. /\ Min({DefaultPageLimit, PageMax(d)}) \in {DefaultPageLimit, PageMax(d)}
      BY <2>3, LeastOfTwo DEF DefaultPageLimit
    <3>2. Min({DefaultPageLimit, PageMax(d)}) \in Int /\ Min({DefaultPageLimit, PageMax(d)}) >= 1
      BY <2>3, <3>1 DEF DefaultPageLimit
    <3>. QED
      BY <2>1, <2>2, <3>2 DEF PageLimit
  <2>5. PageLimit(d, PageMax(d)) \in 1..PageMax(d)
    BY <2>2, <2>3, <2>4
  <2>6. /\ in.sort = d.sort /\ in.sortDefault = IF d.sort THEN d.sortDefault ELSE None
        /\ in.filter = d.filter /\ in.fields = IF d.filter THEN FilterCols(shape) ELSE {}
        /\ in.mode = IF d.mode = "cursor" THEN "cursor" ELSE "offset"
        /\ in.defaultLimit = PageLimit(d, PageMax(d)) /\ in.maxLimit = PageMax(d)
        /\ in.keys = IF d.sort THEN [k \in SortCols(shape) |-> shape.cols[k].col] ELSE <<>>
    BY <1>2 DEF CompiledInputs
  <2>7. in.sort => DOMAIN in.keys = SortCols(shape)
    BY <2>6
  <2> HIDE DEF in
  <2>8. SettledListing(in, shape)
    BY <2>1, <2>2, <2>3, <2>5, <2>6, <2>7 DEF SettledListing
  <2>. QED
    BY <2>8 DEF in
<1>. QED
  BY <1>1, <1>2

LEMMA InputFields ==
    ASSUME NEW d, NEW shape
    PROVE  DOMAIN CompiledInputs(d, shape) = DOMAIN DefaultInputs
<1>1. CASE d = None
  BY <1>1 DEF CompiledInputs
<1>2. CASE d # None
  BY <1>2 DEF CompiledInputs, DefaultInputs
<1>. QED
  BY <1>1, <1>2

\* The limits Compile settled are left as they are.
LEMMA SettledStays ==
    ASSUME NEW in, NEW shape, DOMAIN in = DOMAIN DefaultInputs, SettledListing(in, shape)
    PROVE  SettledListing(SettlePage(in), shape)
<1> DEFINE w == SettlePage(in)
<1>1. in.maxLimit > 0 /\ in.defaultLimit > 0
  BY DEF SettledListing
<1>2. {"sort", "sortDefault", "keys", "filter", "fields", "mode", "defaultLimit", "maxLimit"} \subseteq DOMAIN in
  BY DEF DefaultInputs
<1>3. /\ w.sort = in.sort /\ w.sortDefault = in.sortDefault /\ w.keys = in.keys
      /\ w.filter = in.filter /\ w.fields = in.fields /\ w.mode = in.mode
      /\ w.defaultLimit = in.defaultLimit /\ w.maxLimit = in.maxLimit
  BY <1>1, <1>2 DEF SettlePage, SettledListing
<1> HIDE DEF w
<1>4. SettledListing(w, shape)
  BY <1>3 DEF SettledListing
<1>. QED
  BY <1>4 DEF w

IsRaw(raw) ==
    /\ raw.sort \in Sorts(STRING) \cup {None}
    /\ raw.limit \in Int /\ raw.page \in Int

\* A request of a settled listing is accepted exactly when it is documented.
LEMMA AcceptedIsDocumented ==
    ASSUME NEW in, NEW shape, SettledListing(in, shape), NEW raw, IsRaw(raw)
    PROVE  LET doc == InputParams(in)
               q == ResolveInputs(in, shape.cols, raw)
           IN  /\ q.error = None <=> Documented(doc, raw)
               /\ q.error = None => q.limit \in 1..doc.maxLimit
               /\ doc.sortDefault # None => doc.sortDefault \in doc.sort
<1> DEFINE doc == InputParams(in)
           q == ResolveInputs(in, shape.cols, raw)
           D == DOMAIN in.keys
<1>1. /\ doc.sort = IF in.sort THEN Sorts(D) ELSE {}
      /\ doc.sortDefault = IF in.sort /\ in.keys # <<>> THEN in.sortDefault ELSE None
      /\ doc.paging = IF in.mode = "cursor" THEN "cursor" ELSE "page"
      /\ doc.maxLimit = in.maxLimit
      /\ doc.where = IF in.filter THEN in.fields ELSE {}
  BY DEF InputParams
<1> HIDE DEF doc
<1>2. \A x \in Sorts(STRING) : x \in Sorts(D) <=> x.key \in D
  BY DEF Sorts
<1>3. SortAccepted(in, raw) <=> (raw.sort # None => raw.sort \in doc.sort)
  <2>1. CASE raw.sort = None
    BY <2>1 DEF SortAccepted, SortAsked, SettledListing
  <2>2. CASE raw.sort # None
    <3>1. raw.sort \in Sorts(STRING) /\ SortAsked(in, raw) = raw.sort
      BY <2>2 DEF IsRaw, SortAsked
    <3>2. SortAccepted(in, raw) <=> in.sort /\ raw.sort.key \in D
      BY <2>2, <3>1 DEF SortAccepted
    <3>3. raw.sort \in doc.sort <=> in.sort /\ raw.sort.key \in D
      BY <1>1, <1>2, <3>1
    <3>. QED
      BY <2>2, <3>2, <3>3
  <2>. QED
    BY <2>1, <2>2
<1>4. LimitAccepted(in, raw) <=> (raw.limit # 0 => raw.limit \in 1..doc.maxLimit)
  BY <1>1 DEF LimitAccepted, SettledListing, IsRaw
<1>5. PageAccepted(in, raw) <=>
          /\ raw.page # 0 => doc.paging = "page" /\ raw.page >= 1
          /\ raw.cursor # None => doc.paging = "cursor"
  BY <1>1 DEF PageAccepted, SettledListing, IsRaw
<1>6. WhereAccepted(in, shape.cols, raw) <=> (raw.where # None => raw.where \in doc.where)
  BY <1>1 DEF WhereAccepted, SettledListing, FilterCols
<1>7. Documented(doc, raw) <=>
          /\ SortAccepted(in, raw) /\ LimitAccepted(in, raw) /\ PageAccepted(in, raw)
          /\ WhereAccepted(in, shape.cols, raw)
  BY <1>3, <1>4, <1>5, <1>6 DEF Documented
<1>8. q.error = None <=>
          /\ SortAccepted(in, raw) /\ LimitAccepted(in, raw) /\ PageAccepted(in, raw)
          /\ WhereAccepted(in, shape.cols, raw)
  <2> DEFINE S == SortAccepted(in, raw)
             P == LimitAccepted(in, raw) /\ PageAccepted(in, raw)
             W == WhereAccepted(in, shape.cols, raw)
  <2>5. "INVALID_SORT" # None /\ "INVALID_PAGINATION" # None /\ "INVALID_FILTER" # None
    BY NoneAssumption
  <2>1. CASE ~S
    <3>1. q.error = "INVALID_SORT"
      BY <2>1 DEF ResolveInputs, Refused
    <3>. QED
      BY <2>1, <2>5, <3>1
  <2>2. CASE S /\ ~P
    <3>1. q.error = "INVALID_PAGINATION"
      BY <2>2 DEF ResolveInputs, Refused
    <3>. QED
      BY <2>2, <2>5, <3>1
  <2>3. CASE S /\ P /\ ~W
    <3>1. q.error = "INVALID_FILTER"
      BY <2>3 DEF ResolveInputs, Refused
    <3>. QED
      BY <2>3, <2>5, <3>1
  <2>4. CASE S /\ P /\ W
    <3>1. q.error = None
      BY <2>4 DEF ResolveInputs
    <3>. QED
      BY <2>4, <3>1
  <2>. QED
    BY <2>1, <2>2, <2>3, <2>4
<1>9. q.error = None => q.limit = IF raw.limit = 0 THEN in.defaultLimit ELSE raw.limit
  BY <1>8 DEF ResolveInputs
<1>10. q.error = None => q.limit \in 1..doc.maxLimit
  <2> HIDE DEF q
  <2>. QED
    BY <1>1, <1>4, <1>8, <1>9 DEF SettledListing
<1>11. doc.sortDefault # None => doc.sortDefault \in doc.sort
  BY <1>1, <1>2 DEF SettledListing
<1>. QED
  BY <1>7, <1>8, <1>10, <1>11 DEF doc

\* A request for a list is accepted exactly when the document lists what it asks,
\* whatever was declared and requested (compileInputs, ResolveInputs, InputParams).
THEOREM CompiledListingsMatch == Spec => []ListingsMatchDocument
<1>1. CompileInv => ListingsMatchDocument
  <2>. SUFFICES ASSUME CompileInv, HasGraph, NEW n \in Range(Roots), NEW raw \in Raws
                PROVE  LET in == SettlePage(inputs[n])
                           doc == InputParams(in)
                           q == ResolveInputs(in, ShapeOf(n).cols, raw)
                       IN  /\ q.error = None <=> Documented(doc, raw)
                           /\ q.error = None => q.limit \in 1..doc.maxLimit
                           /\ doc.sortDefault # None => doc.sortDefault \in doc.sort
    BY DEF ListingsMatchDocument
  <2>1. n \in Nodes
    <3>1. b.roots \in Seq(Nodes)
      BY GraphFacts
    <3>2. Range(Roots) = Range(b.roots) \cap compiled
      BY <3>1, PickedFacts DEF Roots
    <3>. QED
      BY <3>2, GraphFacts
  <2> DEFINE d == b.nodes[n].inputs
             shape == ShapeOf(n)
  <2>2. /\ inputs[n] = CompiledInputs(d, shape) /\ NodeFaults(n, shape) = {} /\ IsNode(b.nodes[n])
    BY <2>1, GraphFacts DEF ShapeOf, NodesOK, Nodes
  <2>3. InputFaults(d, shape) = {} /\ IsListing(d)
    BY <2>2 DEF NodeFaults, IsNode
  <2> HIDE DEF d, shape
  <2>4. SettledListing(SettlePage(inputs[n]), shape)
    BY <2>2, <2>3, CompiledListing, InputFields, SettledStays
  <2>5. IsRaw(raw)
    BY RawsAssumption DEF IsRaw
  <2>. QED
    BY <2>4, <2>5, AcceptedIsDocumented DEF shape
<1>. QED
  BY <1>1, CompileInvHolds, PTL
=============================================================================
