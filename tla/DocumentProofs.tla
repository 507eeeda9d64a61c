--------------------------- MODULE DocumentProofs ---------------------------
(***************************************************************************)
(* Proofs about Document, for any worlds and any number of goroutines that  *)
(* look schemas up: whoever asks for a name is handed one schema, and it is *)
(* the one the component set holds; no $ref dangles that was not declared   *)
(* to; and inlining ends, with the full expansion.                          *)
(***************************************************************************)
EXTENDS Document, Induction

\* The shape of the goroutines' state.
CallShape ==
    /\ DOMAIN caller = Callers /\ DOMAIN got = Callers
    /\ \A g \in Callers : DOMAIN caller[g] = {"at", "name", "schema"}

\* A schema made for a name has the body the set holds for it.
Held(name, schema) == name \in DOMAIN entries /\ schema.body = entries[name]

\* Why the cache is never stale: what is under way is as good as what is in it.
PendingHeld ==
    \A g \in Callers :
        /\ caller[g].at # "idle" => caller[g].name \in DOMAIN entries
        /\ caller[g].at = "insert" => Held(caller[g].name, caller[g].schema)
CacheHeld == \A n \in DOMAIN converted : Held(n, converted[n])

ServingInv == CallShape /\ OneSchemaPerName /\ PendingHeld /\ CacheHeld

\* A set that only grows and a cache that only grows.
Grows(f, g) == \A x \in DOMAIN f : x \in DOMAIN g /\ g[x] = f[x]

-----------------------------------------------------------------------------
LEMMA OverKeepsLeft ==
    ASSUME NEW f, NEW g
    PROVE  /\ DOMAIN Over(f, g) = DOMAIN f \cup DOMAIN g
           /\ \A x \in DOMAIN f : Over(f, g)[x] = f[x]
           /\ \A x \in DOMAIN g \ DOMAIN f : Over(f, g)[x] = g[x]
  BY DEF Over

LEMMA GrowsOver == ASSUME NEW f, NEW g PROVE Grows(f, Over(f, g))
  BY OverKeepsLeft DEF Grows

\* A step that registers, or does nothing here, keeps the invariant: the set it
\* leaves extends the one it found.
LEMMA RegisteringKeeps ==
    ASSUME ServingInv, Grows(entries, entries'), UNCHANGED <<callVars, converted>>
    PROVE  ServingInv'
<1>1. CallShape' /\ OneSchemaPerName'
  BY DEF ServingInv, CallShape, OneSchemaPerName, callVars
<1>2. \A n, s : Held(n, s) => n \in DOMAIN entries' /\ s.body = entries'[n]
  BY DEF Held, Grows
<1>3. CacheHeld'
  BY <1>2 DEF ServingInv, CacheHeld, Held
<1>4. PendingHeld'
  BY <1>2 DEF ServingInv, PendingHeld, Held, Grows, callVars
<1>. QED
  BY <1>1, <1>3, <1>4 DEF ServingInv

LEMMA InitServes == Init => ServingInv
<1>. SUFFICES ASSUME Init PROVE ServingInv
  OBVIOUS
<1>1. /\ converted = Empty
      /\ caller = [g \in Callers |-> Idle] /\ got = [g \in Callers |-> Empty]
  BY DEF Init, BridgeInit
<1>2. DOMAIN Empty = {}
  BY DEF Empty
<1>3. \A g \in Callers : caller[g] = [at |-> "idle", name |-> None, schema |-> None]
  BY <1>1 DEF Idle
<1>4. CallShape
  BY <1>1, <1>3 DEF CallShape
<1>5. OneSchemaPerName /\ CacheHeld
  BY <1>1, <1>2 DEF OneSchemaPerName, CacheHeld
<1>6. PendingHeld
  BY <1>3 DEF PendingHeld
<1>. QED
  BY <1>4, <1>5, <1>6 DEF ServingInv

-----------------------------------------------------------------------------
\* The wiring: only RegisterOperation and New touch the set, and they add to it.
LEMMA NewKeeps == ServingInv /\ New => ServingInv'
<1>. SUFFICES ASSUME ServingInv, New PROVE ServingInv'
  OBVIOUS
<1>1. UNCHANGED <<callVars, converted>>
  BY DEF New, bridgeVars
<1>2. Grows(entries, entries')
  BY GrowsOver DEF New, RegisterReflected, componentVars, Grows
<1>. QED
  BY <1>1, <1>2, RegisteringKeeps

LEMMA RegisterOperationKeeps == ServingInv /\ RegisterOperation => ServingInv'
<1>. SUFFICES ASSUME ServingInv, RegisterOperation PROVE ServingInv'
  OBVIOUS
<1>1. UNCHANGED <<callVars, converted>>
  BY DEF RegisterOperation, Wired, Panics, bridgeVars
<1>2. Grows(entries, entries')
  BY GrowsOver DEF RegisterOperation, Panics, RegisterReflected, componentVars, Grows
<1>. QED
  BY <1>1, <1>2, RegisteringKeeps

\* A lookup while wiring adds one honest schema to the cache.
LEMMA StartupKeeps == ServingInv /\ SchemaFromRef => ServingInv'
<1>. SUFFICES ASSUME ServingInv, SchemaFromRef PROVE ServingInv'
  OBVIOUS
<1>1. PICK name : LookupAtStartup(name, Structs)
  BY DEF SchemaFromRef
<1>2. UNCHANGED callVars /\ entries' = entries
  BY DEF SchemaFromRef, Wired, componentVars
<1>3. name \in DOMAIN entries /\ Converted(Startup, name, Structs).body = entries[name]
  BY <1>1 DEF LookupAtStartup, Converted
<1>4. converted' = Over(converted, [n \in {name} |-> Converted(Startup, name, Structs)])
  BY <1>1 DEF LookupAtStartup
<1>5. Grows(converted, converted')
  BY <1>4, GrowsOver
<1>6. OneSchemaPerName'
  BY <1>2, <1>5 DEF ServingInv, OneSchemaPerName, Grows, callVars
<1>7. CacheHeld'
  <2> SUFFICES ASSUME NEW n \in DOMAIN converted' PROVE n \in DOMAIN entries' /\ converted'[n].body = entries'[n]
    BY DEF CacheHeld, Held
  <2>1. \/ n = name /\ converted'[n] = Converted(Startup, name, Structs)
        \/ n \in DOMAIN converted /\ converted'[n] = converted[n]
    BY <1>4 DEF Over
  <2>. QED
    BY <1>2, <1>3, <2>1 DEF ServingInv, CacheHeld, Held
<1>8. CallShape' /\ PendingHeld'
  BY <1>2 DEF ServingInv, CallShape, PendingHeld, Held, callVars
<1>. QED
  BY <1>6, <1>7, <1>8 DEF ServingInv

LEMMA AppCallKeeps == ServingInv /\ AppCall => ServingInv'
<1>. SUFFICES ASSUME ServingInv, AppCall PROVE ServingInv'
  OBVIOUS
<1>1. ASSUME Bind \/ RegisterTypeAlias \/ Whitelist \/ BuildInto PROVE ServingInv'
  <2>1. UNCHANGED <<callVars, converted, entries>>
    BY <1>1 DEF Bind, RegisterTypeAlias, Whitelist, BuildInto, RegisterNode, ExternalRefs,
                Wired, Panics, componentVars, bridgeVars
  <2>. QED
    BY <2>1, RegisteringKeeps DEF Grows
<1>. QED
  BY <1>1, StartupKeeps, RegisterOperationKeeps DEF AppCall

-----------------------------------------------------------------------------
\* The requests.
LEMMA LookupKeeps ==
    ASSUME ServingInv, NEW g \in Callers, NEW name, Lookup(g, name), entries' = entries
    PROVE  ServingInv'
<1>1. converted' = converted
  BY DEF Lookup, bridgeVars
<1>2. CacheHeld'
  BY <1>1 DEF ServingInv, CacheHeld, Held
<1>3. CASE name \in DOMAIN converted
  <2>1. caller' = caller
        /\ got' = [got EXCEPT ![g] = Over([n \in {name} |-> converted[name]], got[g])]
    BY <1>3 DEF Lookup
  <2>2. /\ DOMAIN got' = Callers
        /\ got'[g] = Over([n \in {name} |-> converted[name]], got[g])
        /\ \A h \in Callers \ {g} : got'[h] = got[h]
    BY <2>1 DEF ServingInv, CallShape
  <2>3. \A n \in DOMAIN got'[g] : n \in DOMAIN converted /\ got'[g][n] = converted[n]
    <3> SUFFICES ASSUME NEW n \in DOMAIN got'[g]
                 PROVE  n \in DOMAIN converted /\ got'[g][n] = converted[n]
      OBVIOUS
    <3>1. \/ n = name /\ got'[g][n] = converted[name]
          \/ n \in DOMAIN got[g] /\ got'[g][n] = got[g][n]
      BY <2>2 DEF Over
    <3>. QED
      BY <1>3, <3>1 DEF ServingInv, OneSchemaPerName
  <2>4. OneSchemaPerName'
    BY <1>1, <2>2, <2>3 DEF ServingInv, OneSchemaPerName
  <2>5. CallShape' /\ PendingHeld'
    BY <2>1, <2>2 DEF ServingInv, CallShape, PendingHeld, Held
  <2>. QED
    BY <1>2, <2>4, <2>5 DEF ServingInv
<1>4. CASE name \notin DOMAIN converted
  <2>1. /\ name \in DOMAIN entries /\ got' = got
        /\ caller' = [caller EXCEPT ![g] = [at |-> "convert", name |-> name, schema |-> None]]
    BY <1>4 DEF Lookup
  <2>3. /\ DOMAIN caller' = Callers
        /\ caller'[g] = [at |-> "convert", name |-> name, schema |-> None]
        /\ \A h \in Callers \ {g} : caller'[h] = caller[h]
    BY <2>1 DEF ServingInv, CallShape
  <2>4. CallShape'
    BY <2>1, <2>3 DEF ServingInv, CallShape
  <2>5. PendingHeld'
    BY <2>1, <2>3 DEF ServingInv, PendingHeld, Held
  <2>6. OneSchemaPerName'
    BY <1>1, <2>1 DEF ServingInv, OneSchemaPerName
  <2>. QED
    BY <1>2, <2>4, <2>5, <2>6 DEF ServingInv
<1>. QED
  BY <1>3, <1>4

LEMMA ConvertKeeps ==
    ASSUME ServingInv, NEW g \in Callers, Convert(g, Structs), entries' = entries
    PROVE  ServingInv'
<1> DEFINE made == Converted(g, caller[g].name, Structs)
<1>1. converted' = converted /\ got' = got /\ caller[g].at = "convert"
  BY DEF Convert, bridgeVars
<1>2. caller' = [caller EXCEPT ![g].at = "insert", ![g].schema = made]
  BY DEF Convert
<1>3. /\ DOMAIN caller' = Callers /\ DOMAIN caller'[g] = {"at", "name", "schema"}
      /\ caller'[g].at = "insert" /\ caller'[g].name = caller[g].name
      /\ caller'[g].schema = made
      /\ \A h \in Callers \ {g} : caller'[h] = caller[h]
  BY <1>2 DEF ServingInv, CallShape
<1>4. caller[g].name \in DOMAIN entries /\ made.body = entries[caller[g].name]
  BY <1>1 DEF ServingInv, PendingHeld, Converted
<1>5. CallShape'
  BY <1>1, <1>3 DEF ServingInv, CallShape
<1>6. PendingHeld'
  BY <1>3, <1>4 DEF ServingInv, PendingHeld, Held
<1>7. OneSchemaPerName' /\ CacheHeld'
  BY <1>1 DEF ServingInv, OneSchemaPerName, CacheHeld, Held
<1>. QED
  BY <1>5, <1>6, <1>7 DEF ServingInv

\* Who comes second is handed the first one's schema: the cache keeps it.
LEMMA InsertKeeps ==
    ASSUME ServingInv, NEW g \in Callers, Insert(g), entries' = entries
    PROVE  ServingInv'
<1> DEFINE name == caller[g].name
<1>1. /\ caller[g].at = "insert"
      /\ converted' = Over(converted, [n \in {name} |-> caller[g].schema])
      /\ got' = [got EXCEPT ![g] = Over([n \in {name} |-> converted'[name]], got[g])]
      /\ caller' = [caller EXCEPT ![g] = Idle]
  BY DEF Insert
<1>2. Held(name, caller[g].schema)
  BY <1>1 DEF ServingInv, PendingHeld
<1>3. Grows(converted, converted') /\ name \in DOMAIN converted'
  BY <1>1, GrowsOver, OverKeepsLeft
<1>4. /\ DOMAIN got' = Callers
      /\ got'[g] = Over([n \in {name} |-> converted'[name]], got[g])
      /\ \A h \in Callers \ {g} : got'[h] = got[h]
  BY <1>1 DEF ServingInv, CallShape
<1>5. \A n \in DOMAIN got'[g] : n \in DOMAIN converted' /\ got'[g][n] = converted'[n]
  <2> SUFFICES ASSUME NEW n \in DOMAIN got'[g]
               PROVE  n \in DOMAIN converted' /\ got'[g][n] = converted'[n]
    OBVIOUS
  <2>1. \/ n = name /\ got'[g][n] = converted'[name]
        \/ n \in DOMAIN got[g] /\ got'[g][n] = got[g][n]
    BY <1>4 DEF Over
  <2>. QED
    BY <1>3, <2>1 DEF ServingInv, OneSchemaPerName, Grows
<1>6. OneSchemaPerName'
  BY <1>3, <1>4, <1>5 DEF ServingInv, OneSchemaPerName, Grows
<1>7. CacheHeld'
  <2> SUFFICES ASSUME NEW n \in DOMAIN converted' PROVE n \in DOMAIN entries' /\ converted'[n].body = entries'[n]
    BY DEF CacheHeld, Held
  <2>1. \/ n = name /\ converted'[n] = caller[g].schema
        \/ n \in DOMAIN converted /\ converted'[n] = converted[n]
    BY <1>1 DEF Over
  <2>. QED
    BY <1>2, <2>1 DEF ServingInv, CacheHeld, Held
<1>8. /\ DOMAIN caller' = Callers /\ caller'[g] = [at |-> "idle", name |-> None, schema |-> None]
      /\ \A h \in Callers \ {g} : caller'[h] = caller[h]
  BY <1>1 DEF ServingInv, CallShape, Idle
<1>9. CallShape' /\ PendingHeld'
  BY <1>4, <1>8 DEF ServingInv, CallShape, PendingHeld, Held
<1>. QED
  BY <1>6, <1>7, <1>9 DEF ServingInv

LEMMA RequestKeeps == ASSUME ServingInv, NEW g \in Callers, Request(g) PROVE ServingInv'
<1>1. entries' = entries
  BY DEF Request, componentVars
<1>. QED
  BY <1>1, LookupKeeps, ConvertKeeps, InsertKeeps DEF Request

-----------------------------------------------------------------------------
LEMMA StepServes == ServingInv /\ [Next]_vars => ServingInv'
<1>. SUFFICES ASSUME ServingInv, [Next]_vars PROVE ServingInv'
  OBVIOUS
<1>1. CASE Emit \/ Serve \/ UNCHANGED vars
  <2>1. UNCHANGED <<callVars, converted, entries>>
    BY <1>1 DEF Emit, Serve, vars, componentVars, bridgeVars
  <2>. QED
    BY <2>1, RegisteringKeeps DEF Grows
<1>. QED
  BY <1>1, NewKeeps, AppCallKeeps, RequestKeeps DEF Next

LEMMA AlwaysServing == Spec => []ServingInv
  BY InitServes, StepServes, PTL DEF Spec

\* Whoever asks for a name, and when, is handed the same schema (schemaFor of
\* adapters/huma/registry.go), however many goroutines ask at once.
THEOREM OneSchemaServed == Spec => []OneSchemaPerName
<1>1. ServingInv => OneSchemaPerName
  BY DEF ServingInv
<1>. QED
  BY <1>1, AlwaysServing, PTL

\* A schema handed out has the body the component set holds for its name, then and
\* for good: the cache of schemaFor needs no invalidation.
THEOREM ServedIsHeld ==
    Spec => [](\A g \in Callers : \A n \in DOMAIN got[g] : Held(n, got[g][n]))
<1>1. ServingInv => \A g \in Callers : \A n \in DOMAIN got[g] : Held(n, got[g][n])
  BY DEF ServingInv, OneSchemaPerName, CacheHeld
<1>. QED
  BY <1>1, AlwaysServing, PTL

\* A component once registered keeps its schema, whatever is registered later
\* (RegisterReflected of apidoc/build.go refuses another in its place).
THEOREM ComponentsAreWriteOnce == Spec => [][Grows(entries, entries')]_vars
<1>1. ASSUME [Next]_vars PROVE Grows(entries, entries')
  <2>1. CASE New
    BY <2>1, GrowsOver DEF New, RegisterReflected, componentVars, Grows
  <2>2. CASE RegisterOperation
    BY <2>2, GrowsOver DEF RegisterOperation, Panics, RegisterReflected, componentVars, Grows
  <2>3. CASE ~New /\ ~RegisterOperation
    <3>1. CASE Emit \/ Serve \/ UNCHANGED vars \/ \E g \in Callers : Request(g)
      BY <3>1 DEF Emit, Serve, Request, vars, componentVars, Grows
    <3>2. CASE Bind \/ RegisterTypeAlias \/ Whitelist \/ SchemaFromRef \/ BuildInto
      BY <3>2 DEF Bind, RegisterTypeAlias, Whitelist, SchemaFromRef, BuildInto, RegisterNode,
                  ExternalRefs, Panics, componentVars, Grows
    <3>. QED
      BY <1>1, <2>3, <3>1, <3>2 DEF Next, AppCall
  <2>. QED
    BY <2>1, <2>2, <2>3
<1>. QED
  BY <1>1, PTL DEF Spec

-----------------------------------------------------------------------------

\* What ReachedAlong computes, round by round.
ReachSteps(g, edges, from) ==
    g = [i \in 0..Cardinality(DOMAIN edges) |->
            IF i = 0 THEN from ELSE g[i - 1] \cup UNION {edges[x] : x \in g[i - 1]}]

\* It holds where it starts and all that follows: a round that adds nothing is the
\* last, and there are as many rounds as things to add, one more than are needed.
LEMMA ReachedByRounds ==
    ASSUME NEW edges, IsFiniteSet(DOMAIN edges),
           \A x \in DOMAIN edges : edges[x] \subseteq DOMAIN edges,
           NEW from \in SUBSET DOMAIN edges
    PROVE  \E g :
              /\ g[0] = from
              /\ \A n \in 0..(Cardinality(DOMAIN edges) - 1) :
                    g[n + 1] = g[n] \cup UNION {edges[x] : x \in g[n]}
              /\ ReachedAlong(edges, from) = g[Cardinality(DOMAIN edges)]
              /\ from \subseteq ReachedAlong(edges, from)
              /\ ReachedAlong(edges, from) \subseteq DOMAIN edges
              /\ \A x \in ReachedAlong(edges, from) : edges[x] \subseteq ReachedAlong(edges, from)
              /\ Cardinality(DOMAIN edges) # 0 => ReachedAlong(edges, from) = g[Cardinality(DOMAIN edges) - 1]
<1> DEFINE D == DOMAIN edges
           V == SUBSET D
           L == Cardinality(D)
           More(s) == s \cup UNION {edges[x] : x \in s}
           step == [n \in 1..L |-> [s \in V |-> More(s)]]
<1>1. L \in Nat
  BY FS_CardinalityType
<1>2. step \in [1..L -> [V -> V]]
  OBVIOUS
<1>3. \E g \in [0..L -> V] : Stepwise(g, L, from, step)
  <2> HIDE DEF V, L, step
  <2>1. from \in V
    BY DEF V
  <2>. QED
    BY <1>1, <1>2, <2>1, StepwiseExists
<1>4. PICK g \in [0..L -> V] : Stepwise(g, L, from, step)
  BY <1>3
<1>5. \A n \in 0..L : g[n] = IF n = 0 THEN from ELSE More(g[n - 1])
  <2>1. ASSUME NEW n \in 0..L, n # 0 PROVE g[n] = More(g[n - 1])
    <3>1. n \in 1..L /\ n - 1 \in 0..L
      BY <1>1, <2>1
    <3>2. g[n] = step[n][g[n - 1]] /\ g[n - 1] \in V
      BY <1>4, <2>1, <3>1 DEF Stepwise
    <3>. QED
      BY <3>1, <3>2
  <2>2. g[0] = from
    BY <1>1, <1>4 DEF Stepwise
  <2>. QED
    BY <2>1, <2>2
<1>6. ReachSteps(g, edges, from)
  BY <1>4, <1>5 DEF ReachSteps
<1> DEFINE c == CHOOSE f : ReachSteps(f, edges, from)
<1>7. ReachSteps(c, edges, from) /\ ReachedAlong(edges, from) = c[L]
  BY <1>6 DEF ReachedAlong, ReachSteps
<1> HIDE DEF c
<1>8. /\ c[0] = from
      /\ \A n \in 0..(L - 1) : c[n + 1] = More(c[n])
  <2>1. c[0] = from
    BY <1>1, <1>7 DEF ReachSteps
  <2>2. ASSUME NEW n \in 0..(L - 1) PROVE c[n + 1] = More(c[n])
    <3>1. n + 1 \in 0..L /\ n + 1 # 0 /\ (n + 1) - 1 = n
      BY <1>1
    <3>. QED
      BY <1>7, <3>1 DEF ReachSteps
  <2>. QED
    BY <2>1, <2>2
<1> DEFINE Closed(s) == \A x \in s : edges[x] \subseteq s
           Right(n) == /\ c[n] \in V /\ from \subseteq c[n]
                       /\ Closed(c[n]) \/ Cardinality(c[n]) >= n + 1
           T == {n \in 0..L : Right(n)}
<1>9. 0 \in T
  <2>1. /\ IsFiniteSet(from) /\ Cardinality(from) \in Nat
        /\ Cardinality(from) = 0 <=> from = {}
    BY FS_Subset, FS_CardinalityType, FS_EmptySet
  <2>2. Closed(from) \/ Cardinality(from) >= 0 + 1
    BY <2>1
  <2>. QED
    BY <1>1, <1>8, <2>2
<1>10. ASSUME NEW n \in 0..(L - 1), n \in T PROVE n + 1 \in T
  <2>1. n + 1 \in 0..L /\ n \in Nat
    BY <1>1
  <2>2. Right(n) /\ c[n + 1] = More(c[n])
    BY <1>8, <1>10
  <2>3. c[n + 1] \in V /\ from \subseteq c[n + 1] /\ c[n] \subseteq c[n + 1]
    BY <2>2
  <2>4. CASE Closed(c[n])
    <3>1. c[n + 1] = c[n]
      BY <2>2, <2>4
    <3>. QED
      BY <2>1, <2>3, <2>4, <3>1
  <2>5. CASE ~Closed(c[n])
    <3>1. c[n] # c[n + 1]
      BY <2>2, <2>5
    <3>2. IsFiniteSet(c[n]) /\ IsFiniteSet(c[n + 1])
      BY <2>2, <2>3, FS_Subset
    <3>4. Cardinality(c[n]) \in Nat /\ Cardinality(c[n + 1]) \in Nat
      BY <3>2, FS_CardinalityType
    <3>3. Cardinality(c[n]) < Cardinality(c[n + 1])
      <4>1. /\ Cardinality(c[n]) <= Cardinality(c[n + 1])
            /\ Cardinality(c[n + 1]) = Cardinality(c[n]) => c[n + 1] = c[n]
        BY <2>3, <3>2, FS_Subset
      <4>. QED
        BY <3>1, <3>4, <4>1
    <3>5. Cardinality(c[n]) >= n + 1
      BY <2>2, <2>5
    <3>6. Cardinality(c[n + 1]) >= (n + 1) + 1
      BY <2>1, <3>3, <3>4, <3>5
    <3>. QED
      BY <2>1, <2>3, <3>6
  <2>. QED
    BY <2>4, <2>5
<1>11. \A n \in 0..L : Right(n)
  <2> HIDE DEF T
  <2>1. 0..L \subseteq T
    BY <1>1, <1>9, <1>10, IntervalByStep
  <2>. QED
    BY <2>1 DEF T
<1>12. ASSUME NEW n \in 0..L, n + 1 >= L PROVE Closed(c[n])
  <2>1. CASE Cardinality(c[n]) >= n + 1
    <3>1. c[n] \subseteq D
      BY <1>11
    <3>2. /\ IsFiniteSet(c[n]) /\ Cardinality(c[n]) <= L
          /\ L = Cardinality(c[n]) => D = c[n]
      BY <3>1, FS_Subset
    <3>3. Cardinality(c[n]) \in Nat
      BY <3>2, FS_CardinalityType
    <3>4. Cardinality(c[n]) = L
      <4> HIDE DEF L
      <4>. QED
        BY <1>1, <1>12, <2>1, <3>2, <3>3
    <3>. QED
      BY <3>2, <3>4
  <2>. QED
    BY <1>11, <2>1
<1>13. L \in 0..L /\ Closed(c[L]) /\ Right(L)
  <2>1. L \in 0..L /\ L + 1 >= L
    BY <1>1
  <2>. QED
    BY <1>11, <1>12, <2>1
<1>14. L # 0 => c[L] = c[L - 1]
  <2> SUFFICES ASSUME L # 0 PROVE c[L] = c[L - 1]
    OBVIOUS
  <2>1. L - 1 \in 0..L /\ (L - 1) + 1 >= L /\ L - 1 \in 0..(L - 1) /\ (L - 1) + 1 = L
    BY <1>1
  <2>2. Closed(c[L - 1])
    BY <1>12, <2>1
  <2>3. c[L] = More(c[L - 1])
    BY <1>8, <2>1
  <2>. QED
    BY <2>2, <2>3
<1>. QED
  BY <1>7, <1>8, <1>13, <1>14

LEMMA ReachedFacts ==
    ASSUME NEW edges, IsFiniteSet(DOMAIN edges),
           \A x \in DOMAIN edges : edges[x] \subseteq DOMAIN edges,
           NEW from \in SUBSET DOMAIN edges
    PROVE  /\ from \subseteq ReachedAlong(edges, from)
           /\ ReachedAlong(edges, from) \subseteq DOMAIN edges
           /\ \A x \in ReachedAlong(edges, from) : edges[x] \subseteq ReachedAlong(edges, from)
           /\ from = {} => ReachedAlong(edges, from) = {}
<1> DEFINE L == Cardinality(DOMAIN edges)
<1>1. PICK g :
              /\ g[0] = from
              /\ \A n \in 0..(L - 1) : g[n + 1] = g[n] \cup UNION {edges[x] : x \in g[n]}
              /\ ReachedAlong(edges, from) = g[L]
              /\ from \subseteq ReachedAlong(edges, from)
              /\ ReachedAlong(edges, from) \subseteq DOMAIN edges
              /\ \A x \in ReachedAlong(edges, from) : edges[x] \subseteq ReachedAlong(edges, from)
  BY ReachedByRounds
<1>2. L \in Nat
  BY FS_CardinalityType
<1>3. from = {} => g[L] = {}
  <2> SUFFICES ASSUME from = {} PROVE g[L] = {}
    OBVIOUS
  <2> DEFINE T == {n \in 0..L : g[n] = {}}
  <2>1. 0 \in T
    BY <1>1, <1>2
  <2>2. ASSUME NEW n \in 0..(L - 1), n \in T PROVE n + 1 \in T
    BY <1>1, <1>2, <2>2
  <2> HIDE DEF T
  <2>3. 0..L \subseteq T
    BY <1>2, <2>1, <2>2, IntervalByStep
  <2>. QED
    BY <1>2, <2>3 DEF T
<1>. QED
  BY <1>1, <1>3

\* Names the graph promises without a component: external nodes, and the schemas of
\* computed edges.
GraphDeclares ==
    {Name(n) : n \in {m \in Nodes : in.nodes[m].external}}
    \cup (UNION {{e.schema : e \in {x \in in.nodes[n].edges : x.computed}} : n \in Nodes})

IsBody(b) == DOMAIN b = {"kind", "parts", "refs"} /\ \A r \in b.refs : DOMAIN r = {"at", "to", "bare"}
Leads(b, names) == IsBody(b) /\ RefsOf(b) \subseteq names

\* Where the documented edges of a collected node lead: to what is collected, waits
\* for it, or is another document's.
EdgesLead(n, names) ==
    \A e \in DocumentedEdges(n) :
        ~e.computed => e.target \in Nodes /\ (in.nodes[e.target].external \/ e.target \in names)

EmitInv ==
    /\ in \in Worlds
    /\ seen \subseteq Nodes /\ stack \in Seq(Nodes)
    /\ phase = "collect" => \A n \in seen : EdgesLead(n, seen \cup Range(stack))
    /\ phase = "inline" => DOMAIN work = DOMAIN stitched
    /\ phase \in {"inline", "emitted"} =>
          /\ NodeNames \subseteq DOMAIN work
          /\ \A c \in DOMAIN work : Leads(work[c], DOMAIN work \cup GraphDeclares)

LEMMA WorldFacts ==
    ASSUME in \in Worlds
    PROVE  /\ DOMAIN in.types = Types /\ DOMAIN in.nodes = Nodes /\ in.roots \in Seq(Nodes)
           /\ IsFiniteSet(Types) /\ IsFiniteSet(Nodes) /\ None \notin Types /\ None \notin Nodes
           /\ \A t \in Types : \A f \in FieldsOf(t) : f.type \in Types
           /\ \A t \in Types : /\ GoType(t).elem \in Types \cup {None}
                               /\ GoType(t).extra \in Types \cup {None}
                               /\ GoType(t).page \in DOMAIN Library \cup {None}
           /\ \A c \in DOMAIN Library : Library[c] # None =>
                 Library[c] \in Types /\ GoType(Library[c]).name = c
           /\ \A n \in Nodes : /\ Wire(n) \in Types \cup {None}
                               /\ \A e \in in.nodes[n].edges : e.target \in Nodes \cup {None}
  BY WorldsAssumption DEF IsWorld, FieldsOf, GoType, Wire

\* The types a set of types reaches hold the types of their fields.
LEMMA ReachedTypes ==
    ASSUME in \in Worlds, NEW ts \in SUBSET Types
    PROVE  /\ ts \subseteq Reached(ts) /\ Reached(ts) \subseteq Types
           /\ \A t \in Reached(ts) : \A f \in FieldsOf(t) : f.type \in Reached(ts)
<1> DEFINE edges == [t \in Types |-> {f.type : f \in FieldsOf(t)}]
<1>1. DOMAIN edges = Types /\ \A x \in Types : edges[x] = {f.type : f \in FieldsOf(x)}
  OBVIOUS
<1>2. IsFiniteSet(DOMAIN edges) /\ \A x \in DOMAIN edges : edges[x] \subseteq DOMAIN edges
  BY <1>1, WorldFacts
<1>3. Reached(ts) = ReachedAlong(edges, ts)
  BY DEF Reached
<1> HIDE DEF edges
<1>4. /\ ts \subseteq ReachedAlong(edges, ts)
      /\ ReachedAlong(edges, ts) \subseteq DOMAIN edges
      /\ \A x \in ReachedAlong(edges, ts) : edges[x] \subseteq ReachedAlong(edges, ts)
  BY <1>1, <1>2, ReachedFacts
<1>. QED
  BY <1>1, <1>3, <1>4

\* A reflection refers to nothing but its own components.
LEMMA ReflectFacts ==
    ASSUME in \in Worlds, NEW ts \in SUBSET Types, NEW ov
    PROVE  /\ \A t \in Reached(ts) : DefName(t, ov) \in DOMAIN Reflect(ts, ov)
           /\ \A c \in DOMAIN Reflect(ts, ov) :
                 \E t \in Reached(ts) : DefName(t, ov) = c /\ Reflect(ts, ov)[c] = Reflection(t, ov)
           /\ \A c \in DOMAIN Reflect(ts, ov) : Leads(Reflect(ts, ov)[c], DOMAIN Reflect(ts, ov))
<1> DEFINE all == Reached(ts)
           out == Reflect(ts, ov)
<1>1. DOMAIN out = {DefName(t, ov) : t \in all}
  BY DEF Reflect
<1>2. ASSUME NEW c \in DOMAIN out
      PROVE  \E t \in all : DefName(t, ov) = c /\ out[c] = Reflection(t, ov)
  <2>1. \E t \in all : DefName(t, ov) = c
    BY <1>1
  <2>2. out[c] = Reflection(CHOOSE t \in all : DefName(t, ov) = c, ov)
    BY <1>1 DEF Reflect
  <2>. QED
    BY <2>1, <2>2
<1>3. ASSUME NEW t \in all PROVE Leads(Reflection(t, ov), DOMAIN out)
  <2>1. /\ DOMAIN Reflection(t, ov) = {"kind", "parts", "refs"}
        /\ Reflection(t, ov).refs = {Ref(<<f.key>>, DefName(f.type, ov), f.bare) : f \in FieldsOf(t)}
    BY DEF Reflection, Schema
  <2>2. \A f \in FieldsOf(t) : DefName(f.type, ov) \in DOMAIN out
    BY <1>1, ReachedTypes
  <2>. QED
    BY <2>1, <2>2 DEF Leads, IsBody, RefsOf, Ref
<1> HIDE DEF out
<1>. QED
  BY <1>1, <1>2, <1>3 DEF out

-----------------------------------------------------------------------------
LEMMA EmitInitLeads == Init => EmitInv
<1>. SUFFICES ASSUME Init PROVE EmitInv
  OBVIOUS
<1>1. in \in Worlds /\ phase = "collect" /\ stack = in.roots /\ seen = {}
  BY DEF Init, EmitInit
<1>. QED
  BY <1>1, WorldFacts DEF EmitInv

LEMMA CollectLeads == EmitInv /\ Collect => EmitInv'
<1>. SUFFICES ASSUME EmitInv, Collect PROVE EmitInv'
  OBVIOUS
<1> DEFINE n == Last(stack)
           edges == {e \in DocumentedEdges(n) : ~e.computed}
           targets == {e.target : e \in edges} \ {t \in Nodes : in.nodes[t].external}
<1>1. phase = "collect" /\ stack # <<>> /\ in' = in /\ work' = work /\ stitched' = stitched
  BY DEF Collect
<1>2. /\ in \in Worlds /\ seen \subseteq Nodes /\ stack \in Seq(Nodes)
      /\ \A m \in seen : EdgesLead(m, seen \cup Range(stack))
  BY <1>1 DEF EmitInv
<1>3. /\ n \in Nodes /\ Front(stack) \in Seq(Nodes)
      /\ Range(stack) = Range(Front(stack)) \cup {n}
  <2>1. n \in Nodes /\ Front(stack) \in Seq(Nodes) /\ stack = Append(Front(stack), n)
    BY <1>1, <1>2, FrontFacts
  <2>2. Range(Append(Front(stack), n)) = Range(Front(stack)) \cup {n}
    BY <2>1, AppendRange
  <2>. QED
    BY <2>1, <2>2
<1>4. \A m : DocumentedEdges(m)' = DocumentedEdges(m)
  BY <1>1 DEF DocumentedEdges
<1>5. CASE n \in seen /\ stack' = Front(stack) /\ seen' = seen /\ phase' = phase
  <2>1. (\A m \in seen : EdgesLead(m, seen \cup Range(stack)))'
    BY <1>1, <1>2, <1>3, <1>4, <1>5 DEF EdgesLead
  <2>. QED
    BY <1>1, <1>2, <1>3, <1>5, <2>1 DEF EmitInv
<1>6. CASE /\ None \notin targets /\ seen' = seen \cup {n}
           /\ \E order \in SetToSeqs(targets) : stack' = Front(stack) \o order
           /\ phase' = phase
  <2>1. PICK order \in SetToSeqs(targets) : stack' = Front(stack) \o order
    BY <1>6
  <2>2. \A e \in edges : e.target \in Nodes /\ (in.nodes[e.target].external \/ e.target \in targets)
    BY <1>2, <1>3, <1>6, WorldFacts DEF DocumentedEdges
  <2>3. targets \subseteq Nodes
    BY <2>2
  <2> HIDE DEF targets
  <2>4. order \in Seq(Nodes) /\ Range(order) = targets
    <3>1. IsFiniteSet(targets)
      BY <1>2, <2>3, WorldFacts, FS_Subset
    <3> DEFINE d == 1..Cardinality(targets)
    <3>2. Cardinality(targets) \in Nat /\ IsFiniteSet(d) /\ Cardinality(d) = Cardinality(targets)
      BY <3>1, FS_CardinalityType, FS_Interval
    <3>3. order \in [d -> targets] /\ \A i, j \in d : i # j => order[i] # order[j]
      BY DEF SetToSeqs
    <3> HIDE DEF d
    <3>4. order \in Injection(d, targets)
      BY <3>3 DEF Injection, IsInjective
    <3>5. order \in Surjection(d, targets)
      BY <3>1, <3>2, <3>4, FS_Injection
    <3>6. Range(order) = targets
      BY <3>5, <3>3 DEF Surjection, Range
    <3>. QED
      BY <2>3, <3>2, <3>3, <3>6 DEF d
  <2>5. stack' \in Seq(Nodes) /\ Range(stack') = Range(Front(stack)) \cup targets
    BY <1>3, <2>1, <2>4, RangeConcatenation, ConcatProperties
  <2>6. EdgesLead(n, seen' \cup Range(stack'))
    BY <2>2, <2>5 DEF EdgesLead
  <2>7. \A m \in seen : EdgesLead(m, seen' \cup Range(stack'))
    BY <1>2, <1>3, <1>6, <2>5 DEF EdgesLead
  <2>8. (\A m \in seen : EdgesLead(m, seen \cup Range(stack)))'
    BY <1>1, <1>4, <1>6, <2>6, <2>7 DEF EdgesLead
  <2>. QED
    BY <1>1, <1>2, <1>3, <1>6, <2>5, <2>8 DEF EmitInv
<1>7. CASE phase' = "failed" /\ stack' = stack /\ seen' = seen
  BY <1>1, <1>2, <1>7 DEF EmitInv
<1>. QED
  BY <1>5, <1>6, <1>7 DEF Collect

LEMMA StitchLeads == EmitInv /\ ReflectAndStitch => EmitInv'
<1>. SUFFICES ASSUME EmitInv, ReflectAndStitch PROVE EmitInv'
  OBVIOUS
<1> DEFINE tops == {Wire(n) : n \in seen}
           out == Reflect(tops, Overrides)
           node(c) == CHOOSE n \in seen : Name(n) = c
<1>1. phase = "collect" /\ stack = <<>> /\ UNCHANGED <<in, stack, seen>>
  BY DEF ReflectAndStitch
<1>2. /\ in \in Worlds /\ seen \subseteq Nodes /\ stack \in Seq(Nodes)
      /\ \A m \in seen : EdgesLead(m, seen)
  <2>1. Range(stack) = {}
    BY <1>1 DEF Range
  <2>. QED
    BY <1>1, <2>1 DEF EmitInv, EdgesLead
<1>3. CASE phase' = "failed"
  BY <1>1, <1>2, <1>3 DEF EmitInv
<1>4. CASE /\ Nameable
           /\ stitched' = [c \in DOMAIN out |-> IF c \in NodeNames THEN Stitch(out[c], node(c)) ELSE out[c]]
           /\ work' = stitched' /\ phase' = "inline"
  <2>1. tops \in SUBSET Types
    BY <1>2, <1>4, WorldFacts DEF Nameable
  <2> HIDE DEF tops
  <2>2. \A c \in DOMAIN out : Leads(out[c], DOMAIN out)
    BY <1>2, <2>1, ReflectFacts
  <2>3. \A t \in Reached(tops) : DefName(t, Overrides) \in DOMAIN out
    BY <1>2, <2>1, ReflectFacts
  <2>4. NodeNames \subseteq DOMAIN out
    <3> SUFFICES ASSUME NEW n \in seen PROVE Name(n) \in DOMAIN out
      BY DEF NodeNames
    <3>1. Wire(n) \in Reached(tops) /\ Wire(n) \in tops
      BY <1>2, <2>1, ReachedTypes DEF tops
    <3> DEFINE m == CHOOSE m \in seen : Wire(m) = Wire(n)
    <3>2. m \in seen /\ Wire(m) = Wire(n)
      OBVIOUS
    <3>3. DefName(Wire(n), Overrides) = Name(m)
      <4>1. DOMAIN Overrides = tops /\ Overrides[Wire(n)] = Name(m)
        BY <3>1 DEF Overrides, tops
      <4>. QED
        BY <3>1, <4>1 DEF DefName
    <3>4. Name(m) = Name(n)
      BY <1>4, <3>2 DEF Nameable
    <3>. QED
      BY <2>3, <3>1, <3>3, <3>4
  <2> HIDE DEF out
  <2>5. ASSUME NEW c \in DOMAIN out, c \in NodeNames
        PROVE  Leads(Stitch(out[c], node(c)), DOMAIN out \cup GraphDeclares)
    <3> DEFINE n == node(c)
               edges == DocumentedEdges(n)
               kept == {r \in out[c].refs : Head(r.at) \notin {e.key : e \in edges}}
               added == {EdgeValue(e) : e \in {x \in edges : x.computed => x.schema # None}}
               b == Stitch(out[c], n)
    <3>1. n \in seen /\ Name(n) = c
      BY <2>5 DEF NodeNames
    <3> HIDE DEF n
    <3>2. IsBody(out[c]) /\ RefsOf(out[c]) \subseteq DOMAIN out
      BY <2>2 DEF Leads
    <3>3. DOMAIN b = {"kind", "parts", "refs"} /\ b.refs = kept \cup added
      BY <3>2 DEF Stitch, IsBody
    <3>4. \A r \in kept : DOMAIN r = {"at", "to", "bare"} /\ r.to \in DOMAIN out
      BY <3>2 DEF IsBody, RefsOf
    <3>5. ASSUME NEW e \in edges
          PROVE  /\ DOMAIN EdgeValue(e) = {"at", "to", "bare"}
                 /\ EdgeValue(e).to \in DOMAIN out \cup GraphDeclares
      <4>1. e \in in.nodes[n].edges /\ n \in Nodes
        BY <1>2, <3>1 DEF DocumentedEdges
      <4>2. /\ DOMAIN EdgeValue(e) = {"at", "to", "bare"}
            /\ EdgeValue(e).to = IF e.computed THEN e.schema ELSE Name(e.target)
        BY DEF EdgeValue, Ref
      <4>3. CASE e.computed
        BY <4>1, <4>2, <4>3 DEF GraphDeclares
      <4>4. CASE ~e.computed
        <5>1. e.target \in Nodes /\ (in.nodes[e.target].external \/ e.target \in seen)
          BY <1>2, <3>1, <4>4 DEF EdgesLead
        <5>2. Name(e.target) \in GraphDeclares \cup NodeNames
          BY <5>1 DEF GraphDeclares, NodeNames
        <5>. QED
          BY <2>4, <4>2, <4>4, <5>2
      <4>. QED
        BY <4>3, <4>4
    <3> HIDE DEF b, edges, kept
    <3>6. Leads(b, DOMAIN out \cup GraphDeclares)
      BY <3>3, <3>4, <3>5 DEF Leads, IsBody, RefsOf
    <3>. QED
      BY <3>6 DEF b, n
  <2>6. /\ DOMAIN work' = DOMAIN out /\ DOMAIN stitched' = DOMAIN out
        /\ \A c \in DOMAIN out : work'[c] = IF c \in NodeNames THEN Stitch(out[c], node(c)) ELSE out[c]
    BY <1>4
  <2>7. \A c \in DOMAIN work' : Leads(work'[c], DOMAIN work' \cup GraphDeclares)
    <3>1. \A c \in DOMAIN out : Leads(out[c], DOMAIN out \cup GraphDeclares)
      BY <2>2 DEF Leads
    <3> HIDE DEF node
    <3>. QED
      BY <2>5, <2>6, <3>1
  <2>8. GraphDeclares' = GraphDeclares /\ NodeNames' = NodeNames
    BY <1>1 DEF GraphDeclares, NodeNames, Name
  <2>. QED
    BY <1>1, <1>2, <1>4, <2>4, <2>6, <2>7, <2>8 DEF EmitInv, Leads, IsBody, RefsOf
<1>. QED
  BY <1>3, <1>4 DEF ReflectAndStitch

LEMMA InlineLeads == EmitInv /\ InlineRound => EmitInv'
<1>. SUFFICES ASSUME EmitInv, InlineRound PROVE EmitInv'
  OBVIOUS
<1> DEFINE aux == Restrict(work, Sources)
           names == DOMAIN work \cup GraphDeclares
<1>1. /\ phase = "inline" /\ phase' \in {"inline", "failed"} /\ UNCHANGED <<in, stack, seen, stitched>>
      /\ work' = [c \in DOMAIN work |-> SubstituteAux(work[c], aux)]
  BY DEF InlineRound
<1>2. /\ in \in Worlds /\ seen \subseteq Nodes /\ stack \in Seq(Nodes)
      /\ DOMAIN work = DOMAIN stitched /\ NodeNames \subseteq DOMAIN work
      /\ \A c \in DOMAIN work : Leads(work[c], names)
  BY <1>1 DEF EmitInv
<1>3. DOMAIN aux = Sources /\ Sources \subseteq DOMAIN work /\ \A a \in Sources : aux[a] = work[a]
  BY <1>2 DEF Restrict, Sources, Auxiliaries
<1> HIDE DEF aux, names
<1>4. ASSUME NEW c \in DOMAIN work PROVE Leads(SubstituteAux(work[c], aux), names)
  <2> DEFINE body == work[c]
             inlined == Inlinable(body, aux)
             brought == UNION {{[s EXCEPT !.at = r.at \o s.at] : s \in aux[r.to].refs} : r \in inlined}
             b == SubstituteAux(body, aux)
  <2>1. IsBody(body) /\ RefsOf(body) \subseteq names
    BY <1>2 DEF Leads
  <2>2. DOMAIN b = {"kind", "parts", "refs"} /\ b.refs = (body.refs \ inlined) \cup brought
    BY <2>1 DEF SubstituteAux, IsBody
  <2>3. \A r \in body.refs \ inlined : DOMAIN r = {"at", "to", "bare"} /\ r.to \in names
    BY <2>1 DEF IsBody, RefsOf
  <2>4. ASSUME NEW x \in brought PROVE DOMAIN x = {"at", "to", "bare"} /\ x.to \in names
    <3>1. PICK r \in inlined : x \in {[s EXCEPT !.at = r.at \o s.at] : s \in aux[r.to].refs}
      BY <2>4
    <3>2. PICK s \in aux[r.to].refs : x = [s EXCEPT !.at = r.at \o s.at]
      BY <3>1
    <3>3. r.to \in DOMAIN aux
      BY DEF Inlinable
    <3>4. Leads(aux[r.to], names)
      BY <1>2, <1>3, <3>3
    <3>5. DOMAIN s = {"at", "to", "bare"} /\ s.to \in names
      BY <3>4 DEF Leads, IsBody, RefsOf
    <3>. QED
      BY <3>2, <3>5
  <2> HIDE DEF b, brought, inlined
  <2>5. Leads(b, names)
    BY <2>2, <2>3, <2>4 DEF Leads, IsBody, RefsOf
  <2>. QED
    BY <2>5 DEF b
<1>5. DOMAIN work' = DOMAIN work /\ \A c \in DOMAIN work' : Leads(work'[c], names)
  BY <1>1, <1>4
<1>6. GraphDeclares' = GraphDeclares /\ NodeNames' = NodeNames
  BY <1>1 DEF GraphDeclares, NodeNames, Name
<1>. QED
  BY <1>1, <1>2, <1>5, <1>6 DEF EmitInv, Leads, IsBody, RefsOf, names

LEMMA PruneLeads == EmitInv /\ Prune => EmitInv'
<1>. SUFFICES ASSUME EmitInv, Prune PROVE EmitInv'
  OBVIOUS
<1> DEFINE referenced == UNION {RefsOf(work[c]) : c \in DOMAIN work}
           kept == NodeNames \cup (Auxiliaries \cap referenced)
<1>1. /\ phase = "inline" /\ phase' = "emitted" /\ UNCHANGED <<in, stack, seen, stitched>>
      /\ work' = Restrict(work, kept)
  BY DEF Prune
<1>2. /\ in \in Worlds /\ seen \subseteq Nodes /\ stack \in Seq(Nodes)
      /\ DOMAIN work = DOMAIN stitched /\ NodeNames \subseteq DOMAIN work
      /\ \A c \in DOMAIN work : Leads(work[c], DOMAIN work \cup GraphDeclares)
  BY <1>1 DEF EmitInv
<1>3. kept \subseteq DOMAIN work /\ DOMAIN work' = kept /\ \A c \in kept : work'[c] = work[c]
  BY <1>1, <1>2 DEF Restrict, Auxiliaries
<1>4. ASSUME NEW c \in kept PROVE Leads(work'[c], kept \cup GraphDeclares)
  <2>1. c \in DOMAIN work /\ work'[c] = work[c] /\ Leads(work[c], DOMAIN work \cup GraphDeclares)
    BY <1>2, <1>3
  <2>2. RefsOf(work[c]) \subseteq referenced
    BY <2>1
  <2>3. RefsOf(work[c]) \subseteq kept \cup GraphDeclares
    BY <1>2, <2>1, <2>2 DEF Leads, Auxiliaries
  <2>. QED
    BY <2>1, <2>3 DEF Leads
<1>5. GraphDeclares' = GraphDeclares /\ NodeNames' = NodeNames
  BY <1>1 DEF GraphDeclares, NodeNames, Name
<1> HIDE DEF referenced
<1>6. NodeNames \subseteq kept
  OBVIOUS
<1> HIDE DEF kept
<1>. QED
  BY <1>1, <1>2, <1>3, <1>4, <1>5, <1>6 DEF EmitInv, Leads, IsBody, RefsOf

LEMMA EmittingLeads == EmitInv /\ [Next]_vars => EmitInv'
<1>. SUFFICES ASSUME EmitInv, [Next]_vars PROVE EmitInv'
  OBVIOUS
<1>1. CASE EmitStep
  BY <1>1, CollectLeads, StitchLeads, InlineLeads, PruneLeads DEF EmitStep
<1>2. ASSUME /\ UNCHANGED <<in, stack, seen, stitched, work>>
             /\ phase' = phase \/ phase' \in {"wiring", "serving", "failed"}
      PROVE  EmitInv'
  BY <1>2 DEF EmitInv, EdgesLead, DocumentedEdges, NodeNames, Name, GraphDeclares, Leads, IsBody, RefsOf
<1>3. CASE New \/ AppCall \/ Serve \/ UNCHANGED vars \/ \E g \in Callers : Request(g)
  BY <1>2, <1>3 DEF New, AppCall, Serve, Request, Bind, RegisterTypeAlias, Whitelist, SchemaFromRef,
                    RegisterOperation, BuildInto, Wired, Panics, Make, emitVars, vars
<1>. QED
  BY <1>1, <1>3 DEF Next, Emit

LEMMA AlwaysEmitting == Spec => []EmitInv
  BY EmitInitLeads, EmittingLeads, PTL DEF Spec

-----------------------------------------------------------------------------
\* A type goes by its Go name, or by its node's.
Claims(t, n) == n = GoType(t).name \/ \E m \in bound : Wire(m) = t /\ Name(m) = n

\* The directions of the type index agree, and what they name has a schema or is a
\* bound node.
IndexInv ==
    /\ in \in Worlds /\ pending \subseteq in.calls /\ bound \subseteq Nodes
    /\ \A t \in DOMAIN aliases : t \in Types /\ aliases[t] \in Types
    /\ phase \in {"collect", "inline", "emitted"} =>
          /\ DOMAIN entries = {} /\ DOMAIN byType = {} /\ DOMAIN byName = {}
          /\ DOMAIN types = {} /\ DOMAIN converted = {} /\ operations = {}
    /\ \A t \in DOMAIN byType : t \in Types /\ Claims(t, byType[t]) /\ byType[t] \in DOMAIN byName
    /\ \A n \in DOMAIN byName :
          /\ byName[n] \in DOMAIN byType /\ byType[byName[n]] = n
          /\ n \in DOMAIN entries \/ \E m \in bound : Name(m) = n
    /\ \A w \in DOMAIN wrappers : w \in Types /\ \E m \in bound : wrappers[w] = Name(m)
    /\ \A n \in DOMAIN types :
          types[n] \in DOMAIN byType /\ byType[types[n]] = n /\ n \in DOMAIN entries

\* Registrations of one name per type, the one it goes by already.
Agreeing(regs) ==
    /\ \A x \in regs : x.type \in DOMAIN byType => byType[x.type] = x.name
    /\ \A x, y \in regs : x.type = y.type /\ x.type # None => x.name = y.name
Typed(regs) == {x \in regs : x.type # None}

LEMMA RegisteredFacts ==
    ASSUME NEW regs, RegisterReflected(regs), Agreeing(regs)
    PROVE  /\ DOMAIN entries' = DOMAIN entries \cup {x.name : x \in regs}
           /\ Grows(entries, entries')
           /\ \A c \in DOMAIN entries' \ DOMAIN entries : \E x \in regs : x.name = c /\ entries'[c] = x.body
           /\ DOMAIN byType' = DOMAIN byType \cup {x.type : x \in Typed(regs)}
           /\ Grows(byType, byType')
           /\ \A x \in Typed(regs) : byType'[x.type] = x.name
           /\ DOMAIN byName' = DOMAIN byName \cup {x.name : x \in Typed(regs)}
           /\ Grows(byName, byName')
           /\ \A n \in DOMAIN byName' \ DOMAIN byName :
                 \E x \in Typed(regs) : x.name = n /\ byName'[n] = x.type
           /\ wrappers' = wrappers /\ external' = external
<1> DEFINE typed == {x \in regs : x.type # None}
           bodies == [n \in {x.name : x \in regs} |-> (CHOOSE x \in regs : x.name = n).body]
           names == [t \in {x.type : x \in typed} |-> (CHOOSE x \in typed : x.type = t).name]
           owners == [n \in {x.name : x \in typed} |-> TypeFor(typed, n)]
<1>1. /\ entries' = Over(entries, bodies) /\ byType' = Over(names, byType)
      /\ byName' = Over(byName, owners) /\ wrappers' = wrappers /\ external' = external
  BY DEF RegisterReflected
<1>2. typed = Typed(regs)
  BY DEF Typed
<1>3. /\ DOMAIN bodies = {x.name : x \in regs}
      /\ \A n \in DOMAIN bodies : \E x \in regs : x.name = n /\ bodies[n] = x.body
  <2> SUFFICES ASSUME NEW n \in DOMAIN bodies PROVE \E x \in regs : x.name = n /\ bodies[n] = x.body
    OBVIOUS
  <2> DEFINE x == CHOOSE x \in regs : x.name = n
  <2>1. x \in regs /\ x.name = n
    OBVIOUS
  <2>. QED
    BY <2>1
<1>4. /\ DOMAIN names = {x.type : x \in typed}
      /\ \A x \in typed : names[x.type] = x.name
  <2> SUFFICES ASSUME NEW x \in typed PROVE names[x.type] = x.name
    OBVIOUS
  <2> DEFINE y == CHOOSE y \in typed : y.type = x.type
  <2>1. y \in typed /\ y.type = x.type /\ names[x.type] = y.name
    OBVIOUS
  <2>. QED
    BY <2>1 DEF Agreeing
<1>5. /\ DOMAIN owners = {x.name : x \in typed}
      /\ \A n \in DOMAIN owners : \E x \in typed : x.name = n /\ owners[n] = x.type
  <2> SUFFICES ASSUME NEW n \in DOMAIN owners PROVE \E x \in typed : x.name = n /\ owners[n] = x.type
    OBVIOUS
  <2> DEFINE x == CHOOSE x \in typed : x.name = n
  <2>1. x \in typed /\ x.name = n /\ owners[n] = x.type
    BY DEF TypeFor
  <2>. QED
    BY <2>1
<1> HIDE DEF bodies, names, owners
<1>6. /\ DOMAIN entries' = DOMAIN entries \cup {x.name : x \in regs} /\ Grows(entries, entries')
      /\ \A c \in DOMAIN entries' \ DOMAIN entries : \E x \in regs : x.name = c /\ entries'[c] = x.body
  <2>1. /\ DOMAIN Over(entries, bodies) = DOMAIN entries \cup DOMAIN bodies
        /\ \A c \in DOMAIN bodies \ DOMAIN entries : Over(entries, bodies)[c] = bodies[c]
        /\ Grows(entries, Over(entries, bodies))
    BY OverKeepsLeft, GrowsOver
  <2>2. entries' = Over(entries, bodies)
    BY <1>1
  <2>. QED
    BY <1>3, <2>1, <2>2
<1>7. /\ DOMAIN byType' = DOMAIN byType \cup {x.type : x \in typed}
      /\ \A x \in typed : byType'[x.type] = x.name
      /\ \A t \in DOMAIN byType \ DOMAIN names : byType'[t] = byType[t]
  <2>1. /\ DOMAIN Over(names, byType) = DOMAIN names \cup DOMAIN byType
        /\ \A t \in DOMAIN names : Over(names, byType)[t] = names[t]
        /\ \A t \in DOMAIN byType \ DOMAIN names : Over(names, byType)[t] = byType[t]
    BY OverKeepsLeft
  <2>2. byType' = Over(names, byType)
    BY <1>1
  <2>. QED
    BY <1>4, <2>1, <2>2
<1>8. Grows(byType, byType')
  <2> SUFFICES ASSUME NEW t \in DOMAIN byType PROVE byType'[t] = byType[t]
    BY <1>7 DEF Grows
  <2>. QED
    BY <1>4, <1>7 DEF Agreeing
<1>9. /\ DOMAIN byName' = DOMAIN byName \cup {x.name : x \in typed} /\ Grows(byName, byName')
      /\ \A n \in DOMAIN byName' \ DOMAIN byName : \E x \in typed : x.name = n /\ byName'[n] = x.type
  <2>1. /\ DOMAIN Over(byName, owners) = DOMAIN byName \cup DOMAIN owners
        /\ \A n \in DOMAIN owners \ DOMAIN byName : Over(byName, owners)[n] = owners[n]
        /\ Grows(byName, Over(byName, owners))
    BY OverKeepsLeft, GrowsOver
  <2>2. byName' = Over(byName, owners)
    BY <1>1
  <2>. QED
    BY <1>5, <2>1, <2>2
<1>. QED
  BY <1>1, <1>2, <1>6, <1>7, <1>8, <1>9

\* Registering keeps the index, when the types registered go by names of theirs.
LEMMA RegisteringIndexes ==
    ASSUME IndexInv, NEW regs, RegisterReflected(regs), Agreeing(regs),
           \A x \in Typed(regs) : x.type \in Types /\ x.name = GoType(x.type).name,
           in' = in, bound' = bound, aliases' = aliases, pending' \subseteq pending,
           phase' = "wiring",
           \A n \in DOMAIN types' : \/ n \in DOMAIN types /\ types'[n] = types[n]
                                    \/ \E x \in Typed(regs) : x.name = n /\ types'[n] = x.type
    PROVE  IndexInv'
<1>1. /\ DOMAIN entries' = DOMAIN entries \cup {x.name : x \in regs}
      /\ DOMAIN byType' = DOMAIN byType \cup {x.type : x \in Typed(regs)}
      /\ \A t \in DOMAIN byType : byType'[t] = byType[t]
      /\ \A x \in Typed(regs) : byType'[x.type] = x.name
      /\ DOMAIN byName' = DOMAIN byName \cup {x.name : x \in Typed(regs)}
      /\ \A n \in DOMAIN byName : byName'[n] = byName[n]
      /\ \A n \in DOMAIN byName' \ DOMAIN byName :
            \E x \in Typed(regs) : x.name = n /\ byName'[n] = x.type
      /\ wrappers' = wrappers
  BY RegisteredFacts DEF Grows
<1>2. \A m : Name(m)' = Name(m) /\ Wire(m)' = Wire(m) /\ GoType(m)' = GoType(m)
  BY DEF Name, Wire, GoType
<1>3. Typed(regs) \subseteq regs
  BY DEF Typed
<1>4. ASSUME NEW t \in DOMAIN byType'
      PROVE  t \in Types /\ (Claims(t, byType[t]))' /\ byType'[t] \in DOMAIN byName'
  <2>1. CASE t \in DOMAIN byType
    BY <1>1, <1>2, <2>1 DEF IndexInv, Claims
  <2>2. CASE t \notin DOMAIN byType
    <3>1. PICK x \in Typed(regs) : x.type = t
      BY <1>1, <2>2
    <3>2. byType'[t] = x.name /\ t \in Types /\ x.name = GoType(t).name
      BY <1>1, <3>1
    <3>. QED
      BY <1>1, <1>2, <3>2 DEF Claims
  <2>. QED
    BY <2>1, <2>2
<1>5. ASSUME NEW n \in DOMAIN byName'
      PROVE  /\ byName'[n] \in DOMAIN byType' /\ byType'[byName'[n]] = n
             /\ n \in DOMAIN entries' \/ \E m \in bound : Name(m) = n
  <2>1. CASE n \in DOMAIN byName
    BY <1>1, <2>1 DEF IndexInv
  <2>2. CASE n \notin DOMAIN byName
    <3>1. PICK x \in Typed(regs) : x.name = n /\ byName'[n] = x.type
      BY <1>1, <2>2
    <3>. QED
      BY <1>1, <1>3, <3>1
  <2>. QED
    BY <2>1, <2>2
<1>6. ASSUME NEW n \in DOMAIN types'
      PROVE  types'[n] \in DOMAIN byType' /\ byType'[types'[n]] = n /\ n \in DOMAIN entries'
  <2>1. CASE n \in DOMAIN types /\ types'[n] = types[n]
    BY <1>1, <2>1 DEF IndexInv
  <2>2. CASE \E x \in Typed(regs) : x.name = n /\ types'[n] = x.type
    BY <1>1, <1>3, <2>2
  <2>. QED
    BY <2>1, <2>2
<1>7. \A w \in DOMAIN wrappers' : w \in Types /\ \E m \in bound' : wrappers'[w] = Name(m)'
  BY <1>1, <1>2 DEF IndexInv
<1>8. in' \in Worlds /\ pending' \subseteq in'.calls /\ bound' \subseteq Nodes
      /\ \A t \in DOMAIN aliases' : t \in Types /\ aliases'[t] \in Types
  BY DEF IndexInv
<1>9. \A n \in DOMAIN byName' : n \in DOMAIN entries' \/ \E m \in bound' : Name(m)' = n
  BY <1>2, <1>5
<1>. QED
  BY <1>4, <1>5, <1>6, <1>7, <1>8, <1>9 DEF IndexInv

\* The recursion Target is.
TargetNext(s) == IF s \in DOMAIN aliases THEN aliases[s]
                 ELSE IF GoType(s).elem # None THEN GoType(s).elem ELSE s
TargetSteps(g, t) ==
    g = [i \in 0..Cardinality(Types) |-> IF i = 0 THEN t ELSE TargetNext(g[i - 1])]

\* A request about a type is about a type.
LEMMA TargetIsType == ASSUME IndexInv, NEW t \in Types PROVE Target(t) \in Types
<1> DEFINE L == Cardinality(Types)
           step == [n \in 1..L |-> [s \in Types |-> TargetNext(s)]]
<1>1. L \in Nat
  BY WorldFacts, FS_CardinalityType DEF IndexInv
<1>2. \A s \in Types : TargetNext(s) \in Types
  BY WorldFacts DEF IndexInv, TargetNext
<1>3. step \in [1..L -> [Types -> Types]]
  BY <1>2
<1>4. \E g \in [0..L -> Types] : Stepwise(g, L, t, step)
  <2> HIDE DEF L, step
  <2>. QED
    BY <1>1, <1>3, StepwiseExists
<1>5. PICK g \in [0..L -> Types] : Stepwise(g, L, t, step)
  BY <1>4
<1>6. \A n \in 0..L : g[n] = IF n = 0 THEN t ELSE TargetNext(g[n - 1])
  <2>1. ASSUME NEW n \in 0..L, n # 0 PROVE g[n] = TargetNext(g[n - 1])
    <3>1. n \in 1..L /\ n - 1 \in 0..L
      BY <1>1, <2>1
    <3>2. g[n] = step[n][g[n - 1]] /\ g[n - 1] \in Types
      BY <1>5, <2>1, <3>1 DEF Stepwise
    <3>. QED
      BY <3>1, <3>2
  <2>2. g[0] = t
    BY <1>1, <1>5 DEF Stepwise
  <2>. QED
    BY <2>1, <2>2
<1>7. TargetSteps(g, t)
  BY <1>5, <1>6 DEF TargetSteps
<1> DEFINE c == CHOOSE f : TargetSteps(f, t)
<1>8. TargetSteps(c, t) /\ Target(t) = c[L]
  BY <1>7 DEF Target, TargetSteps, TargetNext
<1> HIDE DEF c
<1> DEFINE T == {n \in 0..L : c[n] \in Types}
<1>9. 0 \in T
  <2>1. 0 \in 0..L
    BY <1>1
  <2>. QED
    BY <1>8, <2>1 DEF TargetSteps
<1>10. ASSUME NEW n \in 0..(L - 1), n \in T PROVE n + 1 \in T
  <2>1. n + 1 \in 0..L /\ n + 1 # 0 /\ (n + 1) - 1 = n
    BY <1>1
  <2>2. c[n + 1] = TargetNext(c[n])
    BY <1>8, <2>1 DEF TargetSteps
  <2>. QED
    BY <1>2, <1>10, <2>1, <2>2
<1>11. 0..L \subseteq T
  <2> HIDE DEF T
  <2>. QED
    BY <1>1, <1>9, <1>10, IntervalByStep
<1>. QED
  BY <1>1, <1>8, <1>11

\* What the bridge reflects for a type is one type it does not know.
LEMMA ReflectsOne ==
    ASSUME IndexInv, NEW t \in Types
    PROVE  /\ \A s \in Reflects(t) : s \in Types /\ ~Known(s) /\ GoType(s).worthy /\ ~Known(t)
                                     /\ (s = t \/ IsEnvelope(t))
           /\ \A r, s \in Reflects(t) : r = s
<1>1. \A x \in {GoType(t).extra} \ {None} : x \in Types /\ Target(x) \in Types
  BY WorldFacts, TargetIsType DEF IndexInv
<1>. QED
  BY <1>1 DEF Reflects

\* The owners reflectAndRegister may find for a type.
OwnersFor(t) == IF Reflects(t) = {} THEN {Empty} ELSE Owners(CHOOSE s \in Reflects(t) : TRUE)
LEMMA OwnersOfReflected ==
    ASSUME IndexInv, NEW t \in Types, NEW own \in OwnersFor(t), NEW s \in Reflects(t)
    PROVE  own \in Owners(s)
<1>1. s = CHOOSE r \in Reflects(t) : TRUE
  BY ReflectsOne
<1>. QED
  BY <1>1 DEF OwnersFor

\* What reflecting a type registers: its own component, and those whose name the set
\* has not bound.
OwnerIn(s, own, n) == IF n = GoType(s).name THEN s ELSE IF n \in DOMAIN own THEN own[n] ELSE None
LEMMA ReflectedFacts ==
    ASSUME IndexInv, NEW s \in Types, ~Known(s), NEW own \in Owners(s)
    PROVE  /\ \A x \in Reflected(s, own) :
                 \E n \in DOMAIN Reflect({s}, Renamed(s)) :
                    /\ n = GoType(s).name \/ n \notin DOMAIN byName
                    /\ x = Registration(n, Reflect({s}, Renamed(s))[n], OwnerIn(s, own, n))
           /\ \A n \in DOMAIN Reflect({s}, Renamed(s)) :
                 n = GoType(s).name \/ n \notin DOMAIN byName =>
                    Registration(n, Reflect({s}, Renamed(s))[n], OwnerIn(s, own, n)) \in Reflected(s, own)
           /\ \A x \in Reflected(s, own) : x.type # None =>
                 /\ x.type \in Reached({s}) /\ x.type \in Types /\ GoType(x.type).name = x.name
                 /\ x.type = s \/ GoType(x.type).worthy
           /\ DefName(s, Renamed(s)) = GoType(s).name
           /\ GoType(s).name \in DOMAIN Reflect({s}, Renamed(s))
<1> DEFINE comps == Reflect({s}, Renamed(s))
           regs == Reflected(s, own)
<1>1. in \in Worlds /\ {s} \in SUBSET Types
  BY DEF IndexInv
<1>2. s \in Reached({s}) /\ Reached({s}) \subseteq Types
  BY <1>1, ReachedTypes
<1>3. DefName(s, Renamed(s)) = GoType(s).name
  BY DEF DefName, Renamed, Over, GoType
<1>4. GoType(s).name \in DOMAIN comps
  BY <1>1, <1>2, <1>3, ReflectFacts
<1>5. regs = {Registration(n, comps[n], OwnerIn(s, own, n)) :
                 n \in {m \in DOMAIN comps : m = GoType(s).name \/ m \notin DOMAIN byName}}
  BY DEF Reflected, OwnerIn
<1>6. \A n \in DOMAIN own : own[n] \in Reached({s}) /\ GoType(own[n]).worthy /\ GoType(own[n]).name = n
  BY DEF Owners
<1> HIDE DEF comps, regs
<1>7. ASSUME NEW x \in regs, x.type # None
      PROVE  /\ x.type \in Reached({s}) /\ GoType(x.type).name = x.name
             /\ x.type = s \/ GoType(x.type).worthy
  <2>1. PICK n : x = Registration(n, comps[n], OwnerIn(s, own, n))
    BY <1>5
  <2>2. x.type = OwnerIn(s, own, n) /\ x.name = n
    BY <2>1 DEF Registration
  <2>. QED
    BY <1>2, <1>6, <1>7, <2>2 DEF OwnerIn
<1>8. /\ \A x \in regs : \E n \in DOMAIN comps :
            /\ n = GoType(s).name \/ n \notin DOMAIN byName
            /\ x = Registration(n, comps[n], OwnerIn(s, own, n))
      /\ \A n \in DOMAIN comps : n = GoType(s).name \/ n \notin DOMAIN byName =>
            Registration(n, comps[n], OwnerIn(s, own, n)) \in regs
  BY <1>5
<1>. QED
  BY <1>2, <1>3, <1>4, <1>7, <1>8 DEF comps, regs

\* What answering for a type registers is named after the types that own it.
Registrable(t) == GoType(t).worthy \/ GoType(t).body # None \/ GoType(t).data # None
LEMMA AnsweringOwned ==
    ASSUME IndexInv, NEW t \in Types, NEW own \in OwnersFor(t)
    PROVE  \A x \in Typed(Answering(t, own)) :
              x.type \in Types /\ x.name = GoType(x.type).name /\ Registrable(x.type)
<1> SUFFICES ASSUME NEW x \in Answering(t, own), x.type # None
             PROVE  x.type \in Types /\ x.name = GoType(x.type).name /\ Registrable(x.type)
  BY DEF Typed
<1>1. CASE \E s \in Reflects(t) : x \in Reflected(s, own)
  <2>1. PICK s \in Reflects(t) : x \in Reflected(s, own)
    BY <1>1
  <2>2. s \in Types /\ ~Known(s) /\ GoType(s).worthy /\ own \in Owners(s)
    BY ReflectsOne, OwnersOfReflected
  <2>. QED
    BY <2>1, <2>2, ReflectedFacts DEF Registrable
<1>2. CASE ~Known(t) /\ IsEnvelope(t) /\ x = Registration(GoType(t).name, EnvelopeIR(t), t)
  <2>1. x.name = GoType(t).name /\ x.type = t
    BY <1>2 DEF Registration
  <2>2. GoType(t).body # None \/ GoType(t).data # None
    BY <1>2, WorldFacts DEF IsEnvelope, IndexInv
  <2>. QED
    BY <2>1, <2>2 DEF Registrable
<1>. QED
  BY <1>1, <1>2 DEF Answering

LEMMA AcceptedAgrees == ASSUME NEW regs, Accepted(regs) PROVE Agreeing(regs)
  BY DEF Accepted, Agreeing

\* A registered operation registers what answers for its type, or nothing.
LEMMA OperationFacts ==
    ASSUME IndexInv, RegisterOperation
    PROVE  \/ /\ Panics /\ phase = "wiring" /\ pending' \subseteq pending
           \/ \E t \in Types : \E own \in OwnersFor(t) :
                 /\ \A s \in Reflects(t) : Reflectable(s)
                 /\ Accepted(Answering(t, own)) /\ RegisterReflected(Answering(t, own))
                 /\ DOMAIN types' = DOMAIN types \cup {x.name : x \in Typed(Answering(t, own))}
                 /\ \A n \in DOMAIN types' :
                       IF n \in {x.name : x \in Typed(Answering(t, own))}
                       THEN \E x \in Typed(Answering(t, own)) : x.name = n /\ types'[n] = x.type
                       ELSE n \in DOMAIN types /\ types'[n] = types[n]
                 /\ operations' = operations \cup (IF HasName(t) THEN {NameOf(t)} ELSE {})
                 /\ phase = "wiring" /\ pending' \subseteq pending
                 /\ Wired /\ UNCHANGED <<aliases, converted, bound>>
<1>1. PICK c \in pending :
        /\ c.op \in {"Register", "RequestBody"} /\ Make(c)
        /\ LET t == Target(c.type)
           IN  \E own \in IF Reflects(t) = {} THEN {Empty}
                          ELSE Owners(CHOOSE s \in Reflects(t) : TRUE) :
               LET regs == Answering(t, own) IN
               IF /\ c.op = "Register" => CheckBound(c.type)
                  /\ \A s \in Reflects(t) : Reflectable(s)
                  /\ Accepted(regs)
               THEN /\ RegisterReflected(regs)
                    /\ types' = Over([n \in {x.name : x \in {y \in regs : y.type # None}} |->
                                          TypeFor(regs, n)], types)
                    /\ operations' = operations \cup (IF HasName(t) THEN {NameOf(t)} ELSE {})
                    /\ Wired /\ UNCHANGED <<aliases, converted, bound>>
               ELSE Panics
  BY DEF RegisterOperation
<1> DEFINE t == Target(c.type)
<1>2. phase = "wiring" /\ pending' \subseteq pending
  BY <1>1 DEF Make
<1>3. c.type \in Types
  BY <1>1, WorldsAssumption DEF IndexInv, IsWorld
<1>4. t \in Types
  BY <1>3, TargetIsType
<1> HIDE DEF t
<1>5. PICK own \in OwnersFor(t) :
        LET regs == Answering(t, own) IN
        IF /\ c.op = "Register" => CheckBound(c.type)
           /\ \A s \in Reflects(t) : Reflectable(s)
           /\ Accepted(regs)
        THEN /\ RegisterReflected(regs)
             /\ types' = Over([n \in {x.name : x \in {y \in regs : y.type # None}} |->
                                   TypeFor(regs, n)], types)
             /\ operations' = operations \cup (IF HasName(t) THEN {NameOf(t)} ELSE {})
             /\ Wired /\ UNCHANGED <<aliases, converted, bound>>
        ELSE Panics
  BY <1>1 DEF OwnersFor, t
<1> DEFINE regs == Answering(t, own)
           owners == [n \in {x.name : x \in {y \in regs : y.type # None}} |-> TypeFor(regs, n)]
<1> HIDE DEF regs
<1>6. CASE Panics
  BY <1>2, <1>6
<1>7. CASE /\ \A s \in Reflects(t) : Reflectable(s)
           /\ Accepted(regs) /\ RegisterReflected(regs)
           /\ types' = Over(owners, types)
           /\ operations' = operations \cup (IF HasName(t) THEN {NameOf(t)} ELSE {})
           /\ Wired /\ UNCHANGED <<aliases, converted, bound>>
  <2>1. DOMAIN owners = {x.name : x \in Typed(regs)}
    BY DEF Typed
  <2>2. ASSUME NEW x \in Typed(regs)
        PROVE  owners[x.name] = x.type
    <3>1. x \in regs /\ x.name \in DOMAIN owners
      BY <2>1 DEF Typed
    <3> DEFINE y == CHOOSE y \in regs : y.name = x.name
    <3>2. y \in regs /\ y.name = x.name
      BY <3>1
    <3>3. y = x
      BY <1>7, <3>1, <3>2 DEF Accepted
    <3>. QED
      BY <3>1, <3>3 DEF TypeFor
  <2> HIDE DEF owners
  <2>3. /\ DOMAIN Over(owners, types) = DOMAIN owners \cup DOMAIN types
        /\ \A n \in DOMAIN owners : Over(owners, types)[n] = owners[n]
        /\ \A n \in DOMAIN types \ DOMAIN owners : Over(owners, types)[n] = types[n]
    BY OverKeepsLeft
  <2>4. types' = Over(owners, types)
    BY <1>7
  <2>5. DOMAIN types' = DOMAIN types \cup {x.name : x \in Typed(regs)}
    BY <2>1, <2>3, <2>4
  <2>6. \A n \in DOMAIN types' :
           IF n \in {x.name : x \in Typed(regs)}
           THEN \E x \in Typed(regs) : x.name = n /\ types'[n] = x.type
           ELSE n \in DOMAIN types /\ types'[n] = types[n]
    BY <2>1, <2>2, <2>3, <2>4
  <2>. QED
    BY <1>2, <1>4, <1>7, <2>5, <2>6 DEF regs
<1>. QED
  BY <1>5, <1>6, <1>7 DEF regs

LEMMA IndexInit == Init => IndexInv
<1>. SUFFICES ASSUME Init PROVE IndexInv
  OBVIOUS
<1>1. /\ in \in Worlds /\ phase = "collect" /\ pending = in.calls /\ bound = {} /\ operations = {}
      /\ entries = Empty /\ byType = Empty /\ byName = Empty /\ wrappers = Empty
      /\ types = Empty /\ aliases = Empty /\ converted = Empty
  BY DEF Init, EmitInit, ComponentsInit, BridgeInit
<1>2. DOMAIN Empty = {}
  BY DEF Empty
<1>. QED
  BY <1>1, <1>2 DEF IndexInv

\* A step that leaves the component set, the bridge and what is bound alone.
LEMMA IndexStays ==
    ASSUME IndexInv, in' = in, pending' \subseteq pending,
           UNCHANGED <<entries, byType, byName, wrappers, types, aliases, bound>>,
           \/ /\ phase' \in {"collect", "inline", "emitted"} => phase \in {"collect", "inline", "emitted"}
              /\ UNCHANGED <<converted, operations>>
           \/ phase' \notin {"collect", "inline", "emitted"}
    PROVE  IndexInv'
<1>1. \A m : Name(m)' = Name(m) /\ Wire(m)' = Wire(m) /\ GoType(m)' = GoType(m)
  BY DEF Name, Wire, GoType
<1>2. \A t, n : (Claims(t, n))' = Claims(t, n)
  BY <1>1 DEF Claims
<1>. QED
  BY <1>1, <1>2 DEF IndexInv

LEMMA NewIndexes == IndexInv /\ New => IndexInv'
<1>. SUFFICES ASSUME IndexInv, New PROVE IndexInv'
  OBVIOUS
<1> DEFINE regs == {Registration(c, work[c], None) : c \in DOMAIN work}
                   \cup {Registration(c, Schema("object", c, {}), Library[c]) : c \in DOMAIN Library}
<1>1. phase = "emitted" /\ in' = in /\ UNCHANGED <<types, aliases, converted, pending, bound, operations>>
  BY DEF New, bridgeVars, wiringVars
<1>2. CASE phase' = "failed" /\ UNCHANGED componentVars
  BY <1>1, <1>2, IndexStays DEF componentVars
<1>3. CASE RegisterReflected(regs) /\ phase' = "wiring"
  <2>1. ASSUME NEW x \in regs, x.type # None
        PROVE  /\ x.type \in Types /\ x.name = GoType(x.type).name
    <3>1. CASE \E c \in DOMAIN work : x = Registration(c, work[c], None)
      BY <2>1, <3>1 DEF Registration
    <3>2. CASE \E c \in DOMAIN Library : x = Registration(c, Schema("object", c, {}), Library[c])
      <4>1. PICK c \in DOMAIN Library : x = Registration(c, Schema("object", c, {}), Library[c])
        BY <3>2
      <4>2. x.type = Library[c] /\ x.name = c
        BY <4>1 DEF Registration
      <4>3. in \in Worlds
        BY DEF IndexInv
      <4>. QED
        BY <2>1, <4>2, <4>3, WorldFacts
    <3>. QED
      BY <3>1, <3>2
  <2>2. Agreeing(regs)
    <3>1. DOMAIN byType = {}
      BY <1>1 DEF IndexInv
    <3> HIDE DEF regs
    <3>. QED
      BY <2>1, <3>1 DEF Agreeing
  <2> HIDE DEF regs
  <2>3. \A x \in Typed(regs) : x.type \in Types /\ x.name = GoType(x.type).name
    BY <2>1 DEF Typed
  <2>. QED
    BY <1>1, <1>3, <2>2, <2>3, RegisteringIndexes
<1>. QED
  BY <1>2, <1>3 DEF New

LEMMA OperationIndexes == IndexInv /\ RegisterOperation => IndexInv'
<1>. SUFFICES ASSUME IndexInv, RegisterOperation PROVE IndexInv'
  OBVIOUS
<1>1. CASE Panics /\ phase = "wiring" /\ pending' \subseteq pending
  BY <1>1, IndexStays DEF Panics, componentVars, bridgeVars
<1>2. ASSUME NEW t \in Types, NEW own \in OwnersFor(t),
             Accepted(Answering(t, own)), RegisterReflected(Answering(t, own)),
             \A n \in DOMAIN types' :
                IF n \in {x.name : x \in Typed(Answering(t, own))}
                THEN \E x \in Typed(Answering(t, own)) : x.name = n /\ types'[n] = x.type
                ELSE n \in DOMAIN types /\ types'[n] = types[n],
             phase = "wiring", pending' \subseteq pending, Wired, UNCHANGED <<aliases, bound>>
      PROVE  IndexInv'
  <2> DEFINE regs == Answering(t, own)
  <2>1. Agreeing(regs)
    BY <1>2, AcceptedAgrees
  <2>2. \A x \in Typed(regs) : x.type \in Types /\ x.name = GoType(x.type).name
    BY AnsweringOwned
  <2>3. in' = in /\ phase' = "wiring"
    BY <1>2 DEF Wired, emitVars
  <2>4. \A n \in DOMAIN types' : \/ n \in DOMAIN types /\ types'[n] = types[n]
                                 \/ \E x \in Typed(regs) : x.name = n /\ types'[n] = x.type
    BY <1>2
  <2>5. RegisterReflected(regs)
    BY <1>2
  <2> HIDE DEF regs
  <2>. QED
    BY <1>2, <2>1, <2>2, <2>3, <2>4, <2>5, RegisteringIndexes
<1>. QED
  BY <1>1, <1>2, OperationFacts

\* A bound node's wire type goes by the node's name from here on.
BoundBy(n) ==
    /\ n \in Nodes /\ Wire(n) # None /\ Bindable(Wire(n), WrappersOf(Wire(n)), Name(n))
    /\ RegisterNode(Wire(n), WrappersOf(Wire(n)), Name(n))
    /\ bound' = bound \cup {n} /\ phase = "wiring" /\ pending' \subseteq pending
    /\ Wired /\ UNCHANGED <<bridgeVars, operations>>

LEMMA BindFacts ==
    ASSUME IndexInv, Bind
    PROVE  (Panics /\ phase = "wiring" /\ pending' \subseteq pending) \/ \E n \in Nodes : BoundBy(n)
<1>1. PICK c \in pending :
        /\ c.op = "Bind" /\ Make(c)
        /\ LET n == c.node IN
           IF Wire(n) # None /\ Bindable(Wire(n), WrappersOf(Wire(n)), Name(n))
           THEN /\ RegisterNode(Wire(n), WrappersOf(Wire(n)), Name(n))
                /\ bound' = bound \cup {n}
                /\ Wired /\ UNCHANGED <<bridgeVars, operations>>
           ELSE Panics
  BY DEF Bind
<1>2. c.node \in Nodes
  BY <1>1, WorldsAssumption DEF IndexInv, IsWorld
<1>. QED
  BY <1>1, <1>2 DEF BoundBy, Make

LEMMA BoundFacts ==
    ASSUME IndexInv, NEW n \in Nodes, BoundBy(n)
    PROVE  /\ Wire(n) \in Types /\ in' = in /\ phase' = "wiring" /\ entries' = entries /\ external' = external
           /\ DOMAIN byType' = DOMAIN byType \cup {Wire(n)} /\ byType'[Wire(n)] = Name(n)
           /\ Grows(byType, byType')
           /\ DOMAIN byName' = DOMAIN byName \cup {Name(n)} /\ Grows(byName, byName')
           /\ Name(n) \notin DOMAIN byName => byName'[Name(n)] = Wire(n)
           /\ DOMAIN wrappers' = DOMAIN wrappers \cup WrappersOf(Wire(n))
           /\ \A w \in DOMAIN wrappers' : IF w \in WrappersOf(Wire(n)) THEN wrappers'[w] = Name(n)
                                          ELSE wrappers'[w] = wrappers[w]
           /\ UNCHANGED <<types, aliases, converted, operations>>
<1>1. Wire(n) \in Types
  BY WorldFacts DEF IndexInv, BoundBy
<1>2. in' = in /\ phase' = "wiring" /\ entries' = entries /\ external' = external
      /\ UNCHANGED <<types, aliases, converted, operations>>
  BY DEF BoundBy, Wired, emitVars, RegisterNode, bridgeVars
<1>3. /\ byType' = Over([x \in {Wire(n)} |-> Name(n)], byType)
      /\ byName' = Over(byName, [x \in {Name(n)} |-> Wire(n)])
      /\ wrappers' = Over([w \in WrappersOf(Wire(n)) |-> Name(n)], wrappers)
  BY DEF BoundBy, RegisterNode
<1>4. Wire(n) \in DOMAIN byType => byType[Wire(n)] = Name(n)
  BY DEF BoundBy, Bindable
<1>5. /\ DOMAIN byType' = DOMAIN byType \cup {Wire(n)} /\ byType'[Wire(n)] = Name(n)
      /\ Grows(byType, byType')
  BY <1>3, <1>4 DEF Over, Grows
<1>6. /\ DOMAIN byName' = DOMAIN byName \cup {Name(n)} /\ Grows(byName, byName')
      /\ Name(n) \notin DOMAIN byName => byName'[Name(n)] = Wire(n)
  BY <1>3 DEF Over, Grows
<1>7. /\ DOMAIN wrappers' = DOMAIN wrappers \cup WrappersOf(Wire(n))
      /\ \A w \in DOMAIN wrappers' : IF w \in WrappersOf(Wire(n)) THEN wrappers'[w] = Name(n)
                                     ELSE wrappers'[w] = wrappers[w]
  BY <1>3 DEF Over
<1>. QED
  BY <1>1, <1>2, <1>5, <1>6, <1>7

LEMMA BindIndexes == IndexInv /\ Bind => IndexInv'
<1>. SUFFICES ASSUME IndexInv, Bind PROVE IndexInv'
  OBVIOUS
<1>1. CASE Panics /\ phase = "wiring" /\ pending' \subseteq pending
  BY <1>1, IndexStays DEF Panics, componentVars, bridgeVars
<1>2. ASSUME NEW n \in Nodes, BoundBy(n) PROVE IndexInv'
  <2>1. bound' = bound \cup {n} /\ pending' \subseteq pending
    BY <1>2 DEF BoundBy
  <2>2. /\ Wire(n) \in Types /\ in' = in /\ phase' = "wiring" /\ entries' = entries
        /\ DOMAIN byType' = DOMAIN byType \cup {Wire(n)} /\ byType'[Wire(n)] = Name(n)
        /\ \A t \in DOMAIN byType : byType'[t] = byType[t]
        /\ DOMAIN byName' = DOMAIN byName \cup {Name(n)} /\ \A m \in DOMAIN byName : byName'[m] = byName[m]
        /\ Name(n) \notin DOMAIN byName => byName'[Name(n)] = Wire(n)
        /\ DOMAIN wrappers' = DOMAIN wrappers \cup WrappersOf(Wire(n))
        /\ \A w \in DOMAIN wrappers' : IF w \in WrappersOf(Wire(n)) THEN wrappers'[w] = Name(n)
                                       ELSE wrappers'[w] = wrappers[w]
        /\ UNCHANGED <<types, aliases, converted, operations>>
    BY <1>2, BoundFacts DEF Grows
  <2>3. \A m : Name(m)' = Name(m) /\ Wire(m)' = Wire(m) /\ GoType(m)' = GoType(m)
    BY <2>2 DEF Name, Wire, GoType
  <2>4. \A t, m : Claims(t, m) => (Claims(t, m))'
    BY <2>1, <2>3 DEF Claims
  <2>5. (Claims(Wire(n), Name(n)))'
    BY <2>1, <2>3 DEF Claims
  <2>6. \A t \in DOMAIN byType' : t \in Types /\ (Claims(t, byType[t]))' /\ byType'[t] \in DOMAIN byName'
    <3> SUFFICES ASSUME NEW t \in DOMAIN byType'
                 PROVE  t \in Types /\ (Claims(t, byType[t]))' /\ byType'[t] \in DOMAIN byName'
      OBVIOUS
    <3>1. CASE t \in DOMAIN byType
      <4>1. t \in Types /\ Claims(t, byType[t]) /\ byType[t] \in DOMAIN byName /\ byType'[t] = byType[t]
        BY <2>2, <3>1 DEF IndexInv
      <4>. QED
        BY <2>1, <2>2, <2>3, <4>1 DEF Claims
    <3>2. CASE t = Wire(n)
      BY <2>1, <2>2, <2>3, <3>2 DEF Claims
    <3>. QED
      BY <2>2, <3>1, <3>2
  <2>7. \A m \in DOMAIN byName' :
           /\ byName'[m] \in DOMAIN byType' /\ byType'[byName'[m]] = m
           /\ m \in DOMAIN entries' \/ \E k \in bound' : Name(k)' = m
    <3> SUFFICES ASSUME NEW m \in DOMAIN byName'
                 PROVE  /\ byName'[m] \in DOMAIN byType' /\ byType'[byName'[m]] = m
                        /\ m \in DOMAIN entries' \/ \E k \in bound' : Name(k)' = m
      OBVIOUS
    <3>1. CASE m \in DOMAIN byName
      BY <2>1, <2>2, <2>3, <3>1 DEF IndexInv
    <3>2. CASE m \notin DOMAIN byName
      BY <2>1, <2>2, <2>3, <3>2
    <3>. QED
      BY <3>1, <3>2
  <2>8. \A w \in DOMAIN wrappers' : w \in Types /\ \E m \in bound' : wrappers'[w] = Name(m)'
    BY <2>1, <2>2, <2>3 DEF IndexInv, WrappersOf
  <2>9. /\ in' \in Worlds /\ pending' \subseteq in'.calls /\ bound' \subseteq Nodes
        /\ \A t \in DOMAIN aliases' : t \in Types /\ aliases'[t] \in Types
    BY <2>1, <2>2 DEF IndexInv
  <2>10. \A m \in DOMAIN types' :
            types'[m] \in DOMAIN byType' /\ byType'[types'[m]] = m /\ m \in DOMAIN entries'
    BY <2>2 DEF IndexInv
  <2>. QED
    BY <2>2, <2>6, <2>7, <2>8, <2>9, <2>10 DEF IndexInv
<1>. QED
  BY <1>1, <1>2, BindFacts

LEMMA AliasIndexes == IndexInv /\ RegisterTypeAlias => IndexInv'
<1>. SUFFICES ASSUME IndexInv, RegisterTypeAlias PROVE IndexInv'
  OBVIOUS
<1>1. PICK c \in pending :
        /\ c.op = "Alias" /\ Make(c) /\ aliases' = Over([t \in {c.type} |-> c.alias], aliases)
        /\ Wired /\ UNCHANGED <<componentVars, types, converted, bound, operations>>
  BY DEF RegisterTypeAlias
<1>2. c.type \in Types /\ c.alias \in Types
  BY <1>1, WorldsAssumption DEF IndexInv, IsWorld
<1>3. \A t \in DOMAIN aliases' : t \in Types /\ aliases'[t] \in Types
  BY <1>1, <1>2 DEF Over, IndexInv
<1>4. /\ in' = in /\ phase' = phase /\ phase = "wiring" /\ pending' \subseteq pending
      /\ UNCHANGED <<entries, byType, byName, wrappers, types, bound>>
  BY <1>1 DEF Wired, Make, emitVars, componentVars
<1>5. \A m : Name(m)' = Name(m) /\ Wire(m)' = Wire(m) /\ GoType(m)' = GoType(m)
  BY <1>4 DEF Name, Wire, GoType
<1>6. \A t, n : (Claims(t, n))' = Claims(t, n)
  BY <1>4, <1>5 DEF Claims
<1>. QED
  BY <1>3, <1>4, <1>5, <1>6 DEF IndexInv

LEMMA StepIndexes == IndexInv /\ [Next]_vars => IndexInv'
<1>. SUFFICES ASSUME IndexInv, [Next]_vars PROVE IndexInv'
  OBVIOUS
<1>1. CASE Emit
  <2>1. EmitStep /\ UNCHANGED <<entries, byType, byName, wrappers, types, aliases, bound, converted,
                                operations, pending>>
    BY <1>1 DEF Emit, componentVars, bridgeVars, wiringVars
  <2>2. phase \in {"collect", "inline"} /\ in' = in
    BY <2>1 DEF EmitStep, Collect, ReflectAndStitch, InlineRound, Prune
  <2>. QED
    BY <2>1, <2>2, IndexStays
<1>2. CASE Serve \/ UNCHANGED vars \/ \E g \in Callers : Request(g)
  <2>1. /\ in' = in /\ pending' = pending
        /\ UNCHANGED <<entries, byType, byName, wrappers, types, aliases, bound, operations>>
        /\ phase' = "serving" \/ UNCHANGED <<phase, converted>>
    BY <1>2 DEF Serve, Request, vars, emitVars, componentVars, bridgeVars, wiringVars, Lookup, Convert,
                Insert
  <2>. QED
    BY <2>1, IndexStays
<1>3. CASE Whitelist \/ SchemaFromRef \/ BuildInto
  <2>1. /\ in' = in /\ pending' \subseteq pending /\ phase' \in {"wiring", "failed"}
        /\ UNCHANGED <<entries, byType, byName, wrappers, types, aliases, bound>>
    BY <1>3 DEF Whitelist, SchemaFromRef, BuildInto, ExternalRefs, LookupAtStartup, Make, Wired, Panics,
                emitVars, componentVars, bridgeVars
  <2>. QED
    BY <2>1, IndexStays
<1>. QED
  BY <1>1, <1>2, <1>3, NewIndexes, OperationIndexes, BindIndexes, AliasIndexes DEF Next, AppCall

LEMMA AlwaysIndexed == Spec => []IndexInv
  BY IndexInit, StepIndexes, PTL DEF Spec

\* Once the application wires: the nodes and the library's components have a schema,
\* and every reference is to a schema or declared.
Resolved(names) == names \subseteq DOMAIN entries \cup Declared
ResolvedInv ==
    phase \in {"wiring", "serving"} =>
        /\ NodeNames \subseteq DOMAIN entries /\ DOMAIN Library \subseteq DOMAIN entries
        /\ Resolved(AllRefs)

\* A bound node has a schema, or nothing leads to it.
LEMMA BoundResolves ==
    ASSUME IndexInv, NodeNames \subseteq DOMAIN entries
    PROVE  /\ \A m \in bound : Name(m) \in DOMAIN entries \cup Declared
           /\ DOMAIN byName \subseteq DOMAIN entries \cup Declared
           /\ \A t : Known(t) => NameOf(t) \in DOMAIN entries \cup Declared
<1>1. \A m \in bound : Name(m) \in DOMAIN entries \cup Declared
  BY DEF Declared, NodeNames
<1>2. DOMAIN byName \subseteq DOMAIN entries \cup Declared
  BY <1>1 DEF IndexInv
<1>3. ASSUME NEW t, Known(t) PROVE NameOf(t) \in DOMAIN entries \cup Declared
  <2>1. CASE t \in DOMAIN wrappers
    BY <1>1, <2>1 DEF IndexInv, NameOf
  <2>2. CASE t \notin DOMAIN wrappers
    BY <1>2, <1>3, <2>2 DEF IndexInv, NameOf, Known
  <2>. QED
    BY <2>1, <2>2
<1>. QED
  BY <1>1, <1>2, <1>3

\* Reflecting a type registers its own component.
LEMMA ReflectedRegisters ==
    ASSUME IndexInv, NEW s \in Types, ~Known(s), NEW own \in Owners(s)
    PROVE  \E x \in Reflected(s, own) : x.name = GoType(s).name
<1> DEFINE n == GoType(s).name
           x == Registration(n, Reflect({s}, Renamed(s))[n], OwnerIn(s, own, n))
<1>1. x \in Reflected(s, own)
  BY ReflectedFacts
<1>2. x.name = n
  BY DEF Registration
<1>. QED
  BY <1>1, <1>2

\* What answering for a type registers refers to what is there, is declared, or is
\* registered with it.
LEMMA AnsweringResolves ==
    ASSUME IndexInv, NodeNames \subseteq DOMAIN entries, DOMAIN Library \subseteq DOMAIN entries,
           NEW t \in Types, NEW own \in OwnersFor(t), NEW x \in Answering(t, own)
    PROVE  RefsOf(x.body) \subseteq
              (DOMAIN entries \cup Declared) \cup {y.name : y \in Answering(t, own)}
<1> DEFINE there == (DOMAIN entries \cup Declared) \cup {y.name : y \in Answering(t, own)}
<1>0. in \in Worlds
  BY DEF IndexInv
<1>1. CASE \E s \in Reflects(t) : x \in Reflected(s, own)
  <2>1. PICK s \in Reflects(t) : x \in Reflected(s, own)
    BY <1>1
  <2>2. s \in Types /\ ~Known(s) /\ own \in Owners(s)
    BY ReflectsOne, OwnersOfReflected
  <2> DEFINE comps == Reflect({s}, Renamed(s))
  <2>3. PICK n \in DOMAIN comps : x = Registration(n, comps[n], OwnerIn(s, own, n))
    BY <2>1, <2>2, ReflectedFacts
  <2>4. x.body = comps[n]
    BY <2>3 DEF Registration
  <2>5. {s} \in SUBSET Types
    BY <2>2
  <2>6. RefsOf(comps[n]) \subseteq DOMAIN comps
    BY <1>0, <2>3, <2>5, ReflectFacts DEF Leads
  <2>7. ASSUME NEW m \in DOMAIN comps PROVE m \in there
    <3>1. CASE m = GoType(s).name \/ m \notin DOMAIN byName
      <4>1. Registration(m, comps[m], OwnerIn(s, own, m)) \in Reflected(s, own)
        BY <2>2, <2>7, <3>1, ReflectedFacts
      <4>2. Registration(m, comps[m], OwnerIn(s, own, m)) \in Answering(t, own)
        BY <4>1 DEF Answering
      <4>3. Registration(m, comps[m], OwnerIn(s, own, m)).name = m
        BY DEF Registration
      <4>. QED
        BY <4>2, <4>3
    <3>2. CASE m \in DOMAIN byName
      BY <3>2, BoundResolves
    <3>. QED
      BY <3>1, <3>2
  <2>. QED
    BY <2>4, <2>6, <2>7
<1>2. CASE ~Known(t) /\ IsEnvelope(t) /\ x = Registration(GoType(t).name, EnvelopeIR(t), t)
  <2>1. x.body = EnvelopeIR(t)
    BY <1>2 DEF Registration
  <2>2. CASE GoType(t).body # None
    <3>1. RefsOf(EnvelopeIR(t)) = {r.to : r \in GoType(t).body}
      BY <2>2 DEF EnvelopeIR, Schema, RefsOf
    <3>2. {r.to : r \in GoType(t).body} \subseteq Declared
      BY <2>2 DEF Declared
    <3>. QED
      BY <2>1, <3>1, <3>2
  <2>3. CASE GoType(t).body = None
    <3> DEFINE further == {y \in {GoType(t).extra} \ {None} :
                              Known(Target(y)) \/ GoType(Target(y)).worthy}
    <3>1. EnvelopeIR(t).refs =
             ({Ref(<<"data">>, wrappers[GoType(t).data], TRUE)}
              \cup {Ref(<<"pagination">>, p, TRUE) : p \in {GoType(t).page} \ {None}})
             \cup {Ref(<<"extra">>, NameOf(Target(e)), TRUE) : e \in further}
      BY <2>3 DEF EnvelopeIR, Schema
    <3>2. wrappers[GoType(t).data] \in there
      <4>1. GoType(t).data \in DOMAIN wrappers
        BY <1>2, <2>3 DEF IsEnvelope
      <4>. QED
        BY <4>1, BoundResolves DEF IndexInv
    <3>3. \A p \in {GoType(t).page} \ {None} : p \in there
      BY <1>0, WorldFacts
    <3>4. ASSUME NEW e \in further PROVE NameOf(Target(e)) \in there
      <4>1. e \in Types /\ e = GoType(t).extra /\ e # None
        BY <1>0, WorldFacts
      <4>2. Target(e) \in Types
        BY <4>1, TargetIsType
      <4>3. CASE Known(Target(e))
        BY <4>3, BoundResolves
      <4>4. CASE ~Known(Target(e)) /\ GoType(Target(e)).worthy
        <5>1. Target(e) \in Reflects(t)
          BY <1>2, <4>1, <4>4 DEF Reflects
        <5>2. own \in Owners(Target(e))
          BY <5>1, OwnersOfReflected
        <5>3. PICK y \in Reflected(Target(e), own) : y.name = GoType(Target(e)).name
          BY <4>2, <4>4, <5>2, ReflectedRegisters
        <5>4. y \in Answering(t, own)
          BY <5>1, <5>3 DEF Answering
        <5>5. NameOf(Target(e)) = GoType(Target(e)).name
          BY <4>4 DEF NameOf, Known
        <5>. QED
          BY <5>3, <5>4, <5>5
      <4>. QED
        BY <3>4, <4>3, <4>4
    <3> HIDE DEF further
    <3>5. \A r \in EnvelopeIR(t).refs : r.to \in there
      BY <3>1, <3>2, <3>3, <3>4 DEF Ref
    <3>. QED
      BY <2>1, <3>5 DEF RefsOf
  <2>. QED
    BY <2>2, <2>3
<1>. QED
  BY <1>1, <1>2 DEF Answering

\* The name an operation refers to is there or registered with it.
LEMMA OperationNamed ==
    ASSUME IndexInv, NodeNames \subseteq DOMAIN entries, NEW t \in Types, NEW own \in OwnersFor(t), HasName(t)
    PROVE  NameOf(t) \in (DOMAIN entries \cup Declared) \cup {y.name : y \in Answering(t, own)}
<1>1. CASE Known(t)
  BY <1>1, BoundResolves
<1>2. CASE ~Known(t)
  <2>1. NameOf(t) = GoType(t).name
    BY <1>2 DEF NameOf, Known
  <2>2. CASE IsEnvelope(t)
    <3>1. Registration(GoType(t).name, EnvelopeIR(t), t) \in Answering(t, own)
      BY <1>2, <2>2 DEF Answering
    <3>2. Registration(GoType(t).name, EnvelopeIR(t), t).name = GoType(t).name
      BY DEF Registration
    <3>. QED
      BY <2>1, <3>1, <3>2
  <2>3. CASE ~IsEnvelope(t)
    <3>1. t \in Reflects(t)
      BY <1>2, <2>3 DEF Reflects, HasName
    <3>2. own \in Owners(t)
      BY <3>1, OwnersOfReflected
    <3>3. PICK y \in Reflected(t, own) : y.name = GoType(t).name
      BY <1>2, <3>2, ReflectedRegisters
    <3>4. y \in Answering(t, own)
      BY <3>1, <3>3 DEF Answering
    <3>. QED
      BY <2>1, <3>3, <3>4
  <2>. QED
    BY <2>2, <2>3
<1>. QED
  BY <1>1, <1>2

-----------------------------------------------------------------------------
\* A set that only grows resolves what it resolved.
LEMMA ResolvedStays ==
    ASSUME ResolvedInv, UNCHANGED <<in, seen>>, bound \subseteq bound', Grows(entries, entries'),
           phase \in {"wiring", "serving"},
           \A c \in DOMAIN entries' \ DOMAIN entries :
               RefsOf(entries'[c]) \subseteq DOMAIN entries' \cup Declared,
           operations' \subseteq operations \cup (DOMAIN entries' \cup Declared)
    PROVE  ResolvedInv'
<1>1. \A m : Name(m)' = Name(m) /\ GoType(m)' = GoType(m)
  BY DEF Name, GoType
<1>2. Declared \subseteq Declared' /\ NodeNames' = NodeNames
  BY <1>1 DEF Declared, NodeNames
<1>3. DOMAIN entries \subseteq DOMAIN entries' /\ \A c \in DOMAIN entries : entries'[c] = entries[c]
  BY DEF Grows
<1>4. Resolved(AllRefs) /\ NodeNames \subseteq DOMAIN entries /\ DOMAIN Library \subseteq DOMAIN entries
  BY DEF ResolvedInv
<1>5. operations \subseteq AllRefs /\ \A c \in DOMAIN entries : RefsOf(entries[c]) \subseteq AllRefs
  BY DEF AllRefs
<1>6. operations' \subseteq DOMAIN entries' \cup Declared'
  BY <1>2, <1>3, <1>4, <1>5 DEF Resolved
<1>7. \A c \in DOMAIN entries' : RefsOf(entries'[c]) \subseteq DOMAIN entries' \cup Declared'
  BY <1>2, <1>3, <1>4, <1>5 DEF Resolved
<1>8. (Resolved(AllRefs))'
  <2>1. AllRefs' = operations' \cup UNION {RefsOf(entries'[c]) : c \in DOMAIN entries'}
    BY DEF AllRefs, RefsOf
  <2>. QED
    BY <1>6, <1>7, <2>1 DEF Resolved
<1>. QED
  BY <1>2, <1>3, <1>4, <1>8 DEF ResolvedInv

LEMMA NewResolves == EmitInv /\ IndexInv /\ New => ResolvedInv'
<1>. SUFFICES ASSUME EmitInv, IndexInv, New PROVE ResolvedInv'
  OBVIOUS
<1> DEFINE regs == {Registration(c, work[c], None) : c \in DOMAIN work}
                   \cup {Registration(c, Schema("object", c, {}), Library[c]) : c \in DOMAIN Library}
<1>1. phase = "emitted" /\ UNCHANGED <<in, seen, bound, operations>>
  BY DEF New, wiringVars
<1>2. CASE phase' = "failed"
  BY <1>2 DEF ResolvedInv
<1>3. CASE RegisterReflected(regs) /\ phase' = "wiring"
  <2>1. DOMAIN entries = {} /\ operations = {}
    BY <1>1 DEF IndexInv
  <2>2. /\ \A c \in DOMAIN work : Leads(work[c], DOMAIN work \cup GraphDeclares)
        /\ NodeNames \subseteq DOMAIN work
    BY <1>1 DEF EmitInv
  <2>3. {x.name : x \in regs} = DOMAIN work \cup DOMAIN Library
    <3>1. \A n, b, t : Registration(n, b, t).name = n
      BY DEF Registration
    <3>2. \A x \in regs : x.name \in DOMAIN work \cup DOMAIN Library
      BY <3>1
    <3>3. ASSUME NEW c \in DOMAIN work PROVE c \in {x.name : x \in regs}
      <4>1. Registration(c, work[c], None) \in regs
        OBVIOUS
      <4>. QED
        BY <3>1, <4>1
    <3>4. ASSUME NEW c \in DOMAIN Library PROVE c \in {x.name : x \in regs}
      <4>1. Registration(c, Schema("object", c, {}), Library[c]) \in regs
        OBVIOUS
      <4>. QED
        BY <3>1, <4>1
    <3>. QED
      BY <3>2, <3>3, <3>4
  <2>4. ASSUME NEW x \in regs PROVE RefsOf(x.body) \subseteq DOMAIN work \cup GraphDeclares
    <3>1. CASE \E c \in DOMAIN work : x = Registration(c, work[c], None)
      <4>1. PICK c \in DOMAIN work : x = Registration(c, work[c], None)
        BY <3>1
      <4>2. x.body = work[c]
        BY <4>1 DEF Registration
      <4>. QED
        BY <2>2, <4>2 DEF Leads
    <3>2. CASE \E c \in DOMAIN Library : x = Registration(c, Schema("object", c, {}), Library[c])
      <4>1. x.body.refs = {}
        BY <3>2 DEF Registration, Schema
      <4>. QED
        BY <4>1 DEF RefsOf
    <3>. QED
      BY <3>1, <3>2
  <2> DEFINE bodies == [n \in {x.name : x \in regs} |-> (CHOOSE x \in regs : x.name = n).body]
  <2>5. entries' = Over(entries, bodies)
    BY <1>3 DEF RegisterReflected
  <2>6. \A n \in DOMAIN bodies : \E x \in regs : bodies[n] = x.body
    <3> SUFFICES ASSUME NEW n \in DOMAIN bodies PROVE \E x \in regs : bodies[n] = x.body
      OBVIOUS
    <3> DEFINE x == CHOOSE x \in regs : x.name = n
    <3>1. x \in regs
      OBVIOUS
    <3>. QED
      BY <3>1
  <2>7. DOMAIN bodies = DOMAIN work \cup DOMAIN Library
    BY <2>3
  <2> HIDE DEF regs, bodies
  <2>8. DOMAIN entries' = DOMAIN work \cup DOMAIN Library /\ \A n \in DOMAIN bodies : entries'[n] = bodies[n]
    BY <2>1, <2>5, <2>7 DEF Over
  <2>9. \A c \in DOMAIN entries' : RefsOf(entries'[c]) \subseteq DOMAIN work \cup GraphDeclares
    BY <2>4, <2>6, <2>7, <2>8
  <2>10. AllRefs' \subseteq DOMAIN work \cup GraphDeclares
    <3>1. AllRefs' = operations' \cup UNION {RefsOf(entries'[c]) : c \in DOMAIN entries'}
      BY DEF AllRefs, RefsOf
    <3>. QED
      BY <1>1, <2>1, <2>9, <3>1
  <2>11. GraphDeclares \subseteq Declared'
    <3>1. GraphDeclares' = GraphDeclares
      BY <1>1 DEF GraphDeclares, Name
    <3>2. GraphDeclares \subseteq Declared
      BY DEF GraphDeclares, Declared
    <3>3. Declared' = Declared
      BY <1>1 DEF Declared, Name, GoType
    <3>. QED
      BY <3>2, <3>3
  <2>12. NodeNames' = NodeNames
    BY <1>1 DEF NodeNames, Name
  <2>. QED
    BY <2>2, <2>8, <2>10, <2>11, <2>12 DEF ResolvedInv, Resolved
<1>. QED
  BY <1>2, <1>3 DEF New

LEMMA OperationResolves == IndexInv /\ ResolvedInv /\ RegisterOperation => ResolvedInv'
<1>. SUFFICES ASSUME IndexInv, ResolvedInv, RegisterOperation PROVE ResolvedInv'
  OBVIOUS
<1>1. CASE Panics
  BY <1>1 DEF Panics, ResolvedInv
<1>2. ASSUME NEW t \in Types, NEW own \in OwnersFor(t), phase = "wiring",
             Accepted(Answering(t, own)), RegisterReflected(Answering(t, own)),
             operations' = operations \cup (IF HasName(t) THEN {NameOf(t)} ELSE {}),
             Wired, UNCHANGED bound
      PROVE  ResolvedInv'
  <2> DEFINE regs == Answering(t, own)
  <2>1. NodeNames \subseteq DOMAIN entries /\ DOMAIN Library \subseteq DOMAIN entries
    BY <1>2 DEF ResolvedInv
  <2>2. Agreeing(regs) /\ RegisterReflected(regs)
    BY <1>2, AcceptedAgrees
  <2>3. \A x \in regs : RefsOf(x.body) \subseteq (DOMAIN entries \cup Declared) \cup {y.name : y \in regs}
    BY <2>1, AnsweringResolves
  <2>4. HasName(t) => NameOf(t) \in (DOMAIN entries \cup Declared) \cup {y.name : y \in regs}
    BY <2>1, OperationNamed
  <2> HIDE DEF regs
  <2>5. /\ DOMAIN entries' = DOMAIN entries \cup {x.name : x \in regs} /\ Grows(entries, entries')
        /\ \A c \in DOMAIN entries' \ DOMAIN entries : \E x \in regs : x.name = c /\ entries'[c] = x.body
    BY <2>2, RegisteredFacts
  <2>6. \A c \in DOMAIN entries' \ DOMAIN entries :
           RefsOf(entries'[c]) \subseteq DOMAIN entries' \cup Declared
    <3> SUFFICES ASSUME NEW c \in DOMAIN entries' \ DOMAIN entries
                 PROVE  RefsOf(entries'[c]) \subseteq DOMAIN entries' \cup Declared
      OBVIOUS
    <3>1. PICK x \in regs : entries'[c] = x.body
      BY <2>5
    <3>. QED
      BY <2>3, <2>5, <3>1
  <2>7. operations' \subseteq operations \cup (DOMAIN entries' \cup Declared)
    BY <1>2, <2>4, <2>5
  <2>8. UNCHANGED <<in, seen>>
    BY <1>2 DEF Wired, emitVars
  <2>. QED
    BY <1>2, <2>5, <2>6, <2>7, <2>8, ResolvedStays
<1>. QED
  BY <1>1, <1>2, OperationFacts

LEMMA StepResolves == EmitInv /\ IndexInv /\ ResolvedInv /\ [Next]_vars => ResolvedInv'
<1>. SUFFICES ASSUME EmitInv, IndexInv, ResolvedInv, [Next]_vars PROVE ResolvedInv'
  OBVIOUS
<1>1. CASE Emit
  <2>1. phase' \in {"collect", "inline", "emitted", "failed"}
    BY <1>1 DEF Emit, EmitStep, Collect, ReflectAndStitch, InlineRound, Prune
  <2>. QED
    BY <2>1 DEF ResolvedInv
<1>2. ASSUME UNCHANGED <<in, seen, entries, operations>>, bound \subseteq bound',
             phase \in {"wiring", "serving"}
      PROVE  ResolvedInv'
  BY <1>2, ResolvedStays DEF Grows
<1>3. ASSUME Panics PROVE ResolvedInv'
  BY <1>3 DEF Panics, ResolvedInv
<1>4. CASE Bind
  BY <1>2, <1>3, <1>4 DEF Bind, Make, Wired, RegisterNode, emitVars, wiringVars
<1>5. CASE RegisterTypeAlias \/ Whitelist \/ SchemaFromRef \/ BuildInto
  BY <1>2, <1>3, <1>5 DEF RegisterTypeAlias, Whitelist, SchemaFromRef, BuildInto, ExternalRefs, Make, Wired,
                          emitVars, componentVars
<1>6. CASE Serve \/ \E g \in Callers : Request(g)
  BY <1>2, <1>6 DEF Serve, Request, emitVars, componentVars, wiringVars
<1>7. CASE UNCHANGED vars
  <2>1. UNCHANGED <<in, seen, phase, entries, operations, bound>>
    BY <1>7 DEF vars, emitVars, componentVars, wiringVars
  <2>2. CASE phase \in {"wiring", "serving"}
    BY <1>2, <2>1, <2>2
  <2>. QED
    BY <2>1, <2>2 DEF ResolvedInv
<1>. QED
  BY <1>1, <1>4, <1>5, <1>6, <1>7, NewResolves, OperationResolves DEF Next, AppCall

\* A $ref of the document or of an operation that leads nowhere was declared to,
\* whatever is bound and registered in whatever order (EmitComponents,
\* reflectAndRegister).
THEOREM DanglingIsDeclared == Spec => []DanglingOnlyByDeclaration
<1>1. Init => ResolvedInv
  BY DEF Init, EmitInit, ResolvedInv
<1>2. ResolvedInv => DanglingOnlyByDeclaration
  BY DEF ResolvedInv, Resolved, DanglingOnlyByDeclaration, Unresolved
<1>. QED
  BY <1>1, <1>2, StepResolves, AlwaysEmitting, AlwaysIndexed, PTL DEF Spec

\* A node's wire type is worth a component, and neither another type nor another
\* node has its Go name.
WiresOwnTheirNames ==
    \A m \in Nodes : Wire(m) # None =>
        /\ GoType(Wire(m)).worthy
        /\ \A t \in Types : GoType(t).name = GoType(Wire(m)).name => t = Wire(m)
        /\ \A k \in Nodes : Name(k) = GoType(Wire(m)).name => Wire(k) = Wire(m)

\* What a component calls a field's type: the name it is bound to; or its Go name,
\* and then no node will ever bind it.
NamedAs(s, n) == IF s \in DOMAIN byType THEN n = byType[s]
                 ELSE n = GoType(s).name /\ \A m \in Nodes : Wire(m) # s
FieldsNamed(t, body) ==
    \A f \in FieldsOf(t) : \E r \in body.refs : r.at = <<f.key>> /\ NamedAs(f.type, r.to)
FieldsInv == \A c \in DOMAIN types : ~IsEnvelope(types[c]) => FieldsNamed(types[c], entries[c])

\* The owner a reflection finds for a name is the type the name stands for.
LEMMA OwnerIsDefined ==
    ASSUME IndexInv, WiresOwnTheirNames, NEW s \in Types, ~Known(s), Reflectable(s), NEW own \in Owners(s),
           NEW n \in DOMAIN Reflect({s}, Renamed(s)), n = GoType(s).name \/ n \notin DOMAIN byName,
           OwnerIn(s, own, n) # None
    PROVE  Reflect({s}, Renamed(s))[n] = Reflection(OwnerIn(s, own, n), Renamed(s))
<1> DEFINE t == OwnerIn(s, own, n)
           ov == Renamed(s)
<1>0. in \in Worlds /\ {s} \in SUBSET Types
  BY DEF IndexInv
<1>1. s \in Reached({s}) /\ Reached({s}) \subseteq Types
  BY <1>0, ReachedTypes
<1>2. PICK q \in Reached({s}) : DefName(q, ov) = n /\ Reflect({s}, ov)[n] = Reflection(q, ov)
  BY <1>0, ReflectFacts
<1>3. ~ClaimedTwice({s}, ov)
  BY DEF Reflectable
<1>4. t \in Reached({s}) /\ GoType(t).name = n
  BY <1>1 DEF OwnerIn, Owners
<1>5. CASE DefName(t, ov) = n
  <2>1. q = t
    BY <1>2, <1>3, <1>4, <1>5 DEF ClaimedTwice
  <2>. QED
    BY <1>2, <2>1
<1>6. CASE DefName(t, ov) # n
  <2>1. \A u \in Types : DefName(u, ov) = IF u = s THEN GoType(s).name
                                          ELSE IF u \in DOMAIN byType THEN byType[u] ELSE GoType(u).name
    BY DEF DefName, Renamed, Over, GoType
  <2>2. t # s /\ t \in Types
    BY <1>1, <1>4, <1>6, <2>1
  <2>3. t \in DOMAIN byType /\ byType[t] # n
    BY <1>4, <1>6, <2>1, <2>2
  <2>4. PICK m \in bound : Wire(m) = t /\ Name(m) = byType[t]
    BY <1>4, <2>3 DEF IndexInv, Claims
  <2>5. m \in Nodes /\ Wire(m) # None
    BY <1>0, <2>2, <2>4, WorldFacts DEF IndexInv
  <2>6. q # t /\ q \in Types /\ GoType(q).name # n
    BY <1>1, <1>2, <1>4, <1>6, <2>4, <2>5 DEF WiresOwnTheirNames
  <2>7. q # s
    <3>1. n # GoType(s).name
      BY <1>4, <2>2, <2>4, <2>5 DEF WiresOwnTheirNames
    <3>. QED
      BY <1>2, <2>1, <2>6, <3>1
  <2>8. q \in DOMAIN byType /\ byType[q] = n
    BY <1>2, <2>1, <2>6, <2>7
  <2>9. n \in DOMAIN byName
    BY <2>8 DEF IndexInv
  <2>10. n = GoType(s).name
    BY <2>9
  <2>. QED
    BY <1>4, <2>2, <2>4, <2>5, <2>10 DEF WiresOwnTheirNames
<1>. QED
  BY <1>5, <1>6

\* A reflected component names its fields as the set does once it is registered.
LEMMA ReflectedNamesFields ==
    ASSUME IndexInv, WiresOwnTheirNames, NEW s \in Types, ~Known(s), Reflectable(s), NEW own \in Owners(s),
           NEW regs, RegisterReflected(regs), Agreeing(regs), Reflected(s, own) \subseteq regs, in' = in,
           \A x \in Typed(regs) : x.name = GoType(x.type).name,
           NEW x \in Reflected(s, own), x.type # None
    PROVE  (FieldsNamed(x.type, x.body))'
<1> DEFINE ov == Renamed(s)
           comps == Reflect({s}, ov)
           t == x.type
<1>0. in \in Worlds /\ {s} \in SUBSET Types
  BY DEF IndexInv
<1>1. s \in Reached({s}) /\ Reached({s}) \subseteq Types
      /\ \A u \in Reached({s}) : \A f \in FieldsOf(u) : f.type \in Reached({s})
  BY <1>0, ReachedTypes
<1>2. PICK n \in DOMAIN comps :
          /\ n = GoType(s).name \/ n \notin DOMAIN byName
          /\ x = Registration(n, comps[n], OwnerIn(s, own, n))
  BY ReflectedFacts
<1>3. x.type = OwnerIn(s, own, n) /\ x.body = comps[n]
  BY <1>2 DEF Registration
<1>4. x.body = Reflection(t, ov) /\ t \in Reached({s})
  BY <1>2, <1>3, OwnerIsDefined, ReflectedFacts
<1>5. \A u \in Types : DefName(u, ov) = IF u = s THEN GoType(s).name
                                        ELSE IF u \in DOMAIN byType THEN byType[u] ELSE GoType(u).name
  BY DEF DefName, Renamed, Over, GoType
<1>6. /\ DOMAIN byType' = DOMAIN byType \cup {y.type : y \in Typed(regs)}
      /\ \A u \in DOMAIN byType : byType'[u] = byType[u]
      /\ \A y \in Typed(regs) : byType'[y.type] = y.name
  BY RegisteredFacts DEF Grows
<1>7. ASSUME NEW u \in Reached({s}), NEW d, d = DefName(u, ov) PROVE (NamedAs(u, d))'
  <2>0. u \in Types /\ d \in DOMAIN comps
    BY <1>0, <1>1, <1>7, ReflectFacts
  <2>1. \A k : Wire(k)' = Wire(k) /\ Name(k)' = Name(k) /\ GoType(k)' = GoType(k)
    BY DEF Wire, Name, GoType
  <2>2. u \in DOMAIN byType' => d = byType'[u]
    <3>1. CASE u \in DOMAIN byType /\ u # s
      BY <1>5, <1>6, <1>7, <2>0, <3>1
    <3>2. CASE u \notin DOMAIN byType \/ u = s
      <4>1. d = GoType(u).name
        BY <1>5, <1>7, <2>0, <3>2
      <4>2. u \notin DOMAIN byType
        BY <3>2 DEF Known
      <4>. QED
        BY <1>6, <4>1, <4>2
    <3>. QED
      BY <3>1, <3>2
  <2>3. ASSUME u \notin DOMAIN byType'
        PROVE  d = GoType(u).name /\ \A m \in Nodes : Wire(m) # u
    <3>1. u \notin DOMAIN byType
      BY <1>6, <2>3
    <3>2. d = GoType(u).name
      BY <1>5, <1>7, <2>0, <3>1
    <3>3. ASSUME NEW m \in Nodes, Wire(m) = u PROVE FALSE
      <4>1. /\ GoType(u).worthy
            /\ \A v \in Types : GoType(v).name = GoType(u).name => v = u
            /\ \A k \in Nodes : Name(k) = GoType(u).name => Wire(k) = u
        <5>1. Wire(m) # None
          BY <1>0, <2>0, <3>3, WorldFacts
        <5>. QED
          BY <3>3, <5>1 DEF WiresOwnTheirNames
      <4>2. d \notin DOMAIN byName
        <5>1. ASSUME d \in DOMAIN byName PROVE FALSE
          <6>1. PICK v \in DOMAIN byType : byType[v] = d
            BY <5>1 DEF IndexInv
          <6>2. v \in Types /\ Claims(v, d)
            BY <6>1 DEF IndexInv
          <6>3. v = u
            BY <3>2, <4>1, <6>2 DEF IndexInv, Claims
          <6>. QED
            BY <3>1, <6>3
        <5>. QED
          BY <5>1
      <4>3. OwnerIn(s, own, d) = u
        <5>1. CASE d = GoType(s).name
          BY <3>2, <4>1, <5>1 DEF OwnerIn
        <5>2. CASE d # GoType(s).name
          <6>1. d \in DOMAIN own
            BY <3>2, <4>1 DEF Owners
          <6>2. own[d] \in Types /\ GoType(own[d]).name = d
            BY <1>1, <6>1 DEF Owners
          <6>. QED
            BY <3>2, <4>1, <5>2, <6>1, <6>2 DEF OwnerIn
        <5>. QED
          BY <5>1, <5>2
      <4> DEFINE y == Registration(d, comps[d], OwnerIn(s, own, d))
      <4>4. y \in Reflected(s, own)
        BY <2>0, <4>2, ReflectedFacts
      <4>5. y.type = u
        BY <4>3 DEF Registration
      <4>6. y \in Typed(regs)
        <5>1. u # None
          BY <1>0, <2>0, WorldFacts
        <5> HIDE DEF y
        <5>. QED
          BY <4>4, <4>5, <5>1 DEF Typed
      <4> HIDE DEF y
      <4>. QED
        BY <1>6, <2>3, <4>5, <4>6
    <3>. QED
      BY <3>2, <3>3
  <2>. QED
    BY <2>1, <2>2, <2>3 DEF NamedAs
<1>8. t \in Types /\ FieldsOf(t)' = FieldsOf(t)
  BY <1>1, <1>4 DEF FieldsOf
<1>9. ASSUME NEW f \in FieldsOf(t)
      PROVE  \E r \in x.body.refs : r.at = <<f.key>> /\ (NamedAs(f.type, r.to))'
  <2>1. PICK d : d = DefName(f.type, ov)
    OBVIOUS
  <2>2. f.type \in Reached({s})
    BY <1>1, <1>4
  <2>3. (NamedAs(f.type, d))'
    BY <1>7, <2>1, <2>2
  <2>4. PICK r \in x.body.refs : r = Ref(<<f.key>>, d, f.bare)
    BY <1>4, <2>1 DEF Reflection, Schema
  <2>5. r.at = <<f.key>> /\ r.to = d
    BY <2>4 DEF Ref
  <2>. QED
    BY <2>3, <2>5
<1>. QED
  BY <1>8, <1>9 DEF FieldsNamed

LEMMA FieldsStay ==
    ASSUME FieldsInv, in' = in, types' = types, entries' = entries,
           DOMAIN wrappers \subseteq DOMAIN wrappers', Grows(byType, byType'),
           \A t \in DOMAIN byType' \ DOMAIN byType : \E m \in Nodes : Wire(m) = t
    PROVE  FieldsInv'
<1> SUFFICES ASSUME NEW c \in DOMAIN types', ~(IsEnvelope(types[c]))'
             PROVE  (FieldsNamed(types[c], entries[c]))'
  BY DEF FieldsInv
<1>1. \A m : Wire(m)' = Wire(m) /\ GoType(m)' = GoType(m) /\ FieldsOf(m)' = FieldsOf(m)
  BY DEF Wire, GoType, FieldsOf
<1>2. FieldsNamed(types[c], entries[c])
  BY <1>1 DEF FieldsInv, IsEnvelope
<1>3. \A s, n : NamedAs(s, n) => (NamedAs(s, n))'
  BY <1>1 DEF NamedAs, Grows
<1>. QED
  BY <1>1, <1>2, <1>3 DEF FieldsNamed

LEMMA OperationNamesFields ==
    IndexInv /\ WiresOwnTheirNames /\ FieldsInv /\ RegisterOperation => FieldsInv'
<1>. SUFFICES ASSUME IndexInv, WiresOwnTheirNames, FieldsInv, RegisterOperation PROVE FieldsInv'
  OBVIOUS
<1>1. CASE Panics
  BY <1>1, FieldsStay DEF Panics, componentVars, bridgeVars, Grows
<1>2. ASSUME NEW t \in Types, NEW own \in OwnersFor(t),
             \A s \in Reflects(t) : Reflectable(s),
             Accepted(Answering(t, own)), RegisterReflected(Answering(t, own)),
             \A n \in DOMAIN types' :
                IF n \in {x.name : x \in Typed(Answering(t, own))}
                THEN \E x \in Typed(Answering(t, own)) : x.name = n /\ types'[n] = x.type
                ELSE n \in DOMAIN types /\ types'[n] = types[n],
             Wired
      PROVE  FieldsInv'
  <2> DEFINE regs == Answering(t, own)
  <2>1. Agreeing(regs) /\ RegisterReflected(regs) /\ in' = in
    BY <1>2, AcceptedAgrees DEF Wired, emitVars
  <2>2. \A x \in Typed(regs) : x.type \in Types /\ x.name = GoType(x.type).name
    BY AnsweringOwned
  <2>3. /\ DOMAIN entries' = DOMAIN entries \cup {x.name : x \in regs} /\ Grows(entries, entries')
        /\ \A c \in DOMAIN entries' \ DOMAIN entries : \E x \in regs : x.name = c /\ entries'[c] = x.body
        /\ DOMAIN byType' = DOMAIN byType \cup {x.type : x \in Typed(regs)} /\ Grows(byType, byType')
        /\ \A x \in Typed(regs) : byType'[x.type] = x.name
        /\ wrappers' = wrappers
    <3> HIDE DEF regs
    <3>. QED
      BY <2>1, RegisteredFacts
  <2>4. ASSUME NEW x \in regs PROVE entries'[x.name] = x.body
    <3>1. CASE x.name \in DOMAIN entries
      BY <1>2, <2>3, <2>4, <3>1 DEF Accepted, Grows
    <3>2. CASE x.name \notin DOMAIN entries
      <4>1. PICK y \in regs : y.name = x.name /\ entries'[x.name] = y.body
        BY <2>3, <2>4, <3>2
      <4>2. y = x
        BY <1>2, <2>4, <4>1 DEF Accepted
      <4>. QED
        BY <4>1, <4>2
    <3>. QED
      BY <3>1, <3>2
  <2>5. \A m : Wire(m)' = Wire(m) /\ GoType(m)' = GoType(m) /\ FieldsOf(m)' = FieldsOf(m)
    BY <2>1 DEF Wire, GoType, FieldsOf
  <2> SUFFICES ASSUME NEW c \in DOMAIN types', ~(IsEnvelope(types[c]))'
               PROVE  (FieldsNamed(types[c], entries[c]))'
    BY DEF FieldsInv
  <2>6. CASE \E x \in Typed(regs) : x.name = c /\ types'[c] = x.type
    <3>1. PICK x \in Typed(regs) : x.name = c /\ types'[c] = x.type
      BY <2>6
    <3>2. x \in regs /\ x.type # None
      BY DEF Typed
    <3>3. entries'[c] = x.body
      BY <2>4, <3>1, <3>2
    <3>4. CASE \E s \in Reflects(t) : x \in Reflected(s, own)
      <4>1. PICK s \in Reflects(t) : x \in Reflected(s, own)
        BY <3>4
      <4>2. s \in Types /\ ~Known(s) /\ own \in Owners(s) /\ Reflectable(s)
        BY <1>2, ReflectsOne, OwnersOfReflected
      <4>3. Reflected(s, own) \subseteq regs
        BY DEF Answering
      <4> HIDE DEF regs
      <4>4. (FieldsNamed(x.type, x.body))'
        BY <2>1, <2>2, <3>2, <4>1, <4>2, <4>3, ReflectedNamesFields
      <4>. QED
        BY <3>1, <3>3, <4>4 DEF FieldsNamed
    <3>5. CASE IsEnvelope(t) /\ x = Registration(GoType(t).name, EnvelopeIR(t), t)
      <4>1. x.type = t
        BY <3>5 DEF Registration
      <4>2. (IsEnvelope(types[c]))'
        BY <2>3, <2>5, <3>1, <3>5, <4>1 DEF IsEnvelope
      <4>. QED
        BY <4>2
    <3>. QED
      BY <3>2, <3>4, <3>5 DEF Answering
  <2>7. CASE c \in DOMAIN types /\ types'[c] = types[c]
    <3>1. ~IsEnvelope(types[c])
      BY <2>3, <2>5, <2>7 DEF IsEnvelope
    <3>2. FieldsNamed(types[c], entries[c])
      BY <2>7, <3>1 DEF FieldsInv
    <3>3. entries'[c] = entries[c]
      BY <2>3, <2>7 DEF IndexInv, Grows
    <3>4. \A s, n : NamedAs(s, n) => (NamedAs(s, n))'
      <4> SUFFICES ASSUME NEW s, NEW n, NamedAs(s, n) PROVE (NamedAs(s, n))'
        OBVIOUS
      <4>1. CASE s \in DOMAIN byType
        BY <2>3, <4>1 DEF NamedAs, Grows
      <4>2. CASE s \notin DOMAIN byType /\ s \in DOMAIN byType'
        <5>1. PICK x \in Typed(regs) : x.type = s
          BY <2>3, <4>2
        <5>. QED
          BY <2>2, <2>3, <4>2, <5>1 DEF NamedAs
      <4>3. CASE s \notin DOMAIN byType'
        BY <2>3, <2>5, <4>3 DEF NamedAs
      <4>. QED
        BY <4>1, <4>2, <4>3
    <3>. QED
      BY <2>5, <2>7, <3>2, <3>3, <3>4 DEF FieldsNamed
  <2>. QED
    BY <1>2, <2>6, <2>7
<1>. QED
  BY <1>1, <1>2, OperationFacts

LEMMA StepNamesFields ==
    IndexInv /\ WiresOwnTheirNames /\ FieldsInv /\ [Next]_vars => FieldsInv'
<1>. SUFFICES ASSUME IndexInv, WiresOwnTheirNames, FieldsInv, [Next]_vars PROVE FieldsInv'
  OBVIOUS
<1>1. ASSUME in' = in, UNCHANGED <<types, entries, byType, wrappers>> PROVE FieldsInv'
  BY <1>1, FieldsStay DEF Grows
<1>2. CASE Emit \/ Serve \/ UNCHANGED vars \/ \E g \in Callers : Request(g)
  BY <1>1, <1>2 DEF Emit, EmitStep, Collect, ReflectAndStitch, InlineRound, Prune, Serve, Request, Lookup,
                    Convert, Insert, vars, emitVars, componentVars, bridgeVars
<1>3. CASE New
  <2>1. DOMAIN types' = {}
    BY <1>3 DEF New, bridgeVars, IndexInv
  <2>. QED
    BY <2>1 DEF FieldsInv
<1>4. CASE Bind
  <2>1. ASSUME Panics PROVE FieldsInv'
    BY <1>1, <2>1 DEF Panics, componentVars, bridgeVars
  <2>2. ASSUME NEW n \in Nodes, BoundBy(n) PROVE FieldsInv'
    <3>1. /\ in' = in /\ types' = types /\ entries' = entries /\ Grows(byType, byType')
          /\ DOMAIN byType' = DOMAIN byType \cup {Wire(n)}
          /\ DOMAIN wrappers' = DOMAIN wrappers \cup WrappersOf(Wire(n))
      BY <2>2, BoundFacts
    <3>. QED
      BY <3>1, FieldsStay
  <2>. QED
    BY <1>4, <2>1, <2>2, BindFacts
<1>5. CASE RegisterTypeAlias \/ Whitelist \/ SchemaFromRef \/ BuildInto
  BY <1>1, <1>5 DEF RegisterTypeAlias, Whitelist, SchemaFromRef, BuildInto, ExternalRefs, LookupAtStartup,
                    Wired, Panics, emitVars, componentVars, bridgeVars
<1>. QED
  BY <1>2, <1>3, <1>4, <1>5, OperationNamesFields DEF Next, AppCall

\* A field whose type a node is of documents that node, whichever was registered
\* first (nodeOverrides of apidoc/emit.go, reflectAndRegister), where no other type or
\* node has a wire type's Go name.
THEOREM FieldsDocumentNodes == Spec => [](WiresOwnTheirNames => FieldsFollowBindings)
<1> DEFINE Inv == WiresOwnTheirNames => FieldsInv
<1>1. Init => Inv
  BY DEF Init, BridgeInit, Empty, FieldsInv
<1>2. Inv /\ IndexInv /\ [Next]_vars => Inv'
  <2> SUFFICES ASSUME Inv, IndexInv, [Next]_vars, WiresOwnTheirNames' PROVE FieldsInv'
    OBVIOUS
  <2>1. in' = in
    BY DEF Next, Emit, EmitStep, Collect, ReflectAndStitch, InlineRound, Prune, New, AppCall, Bind,
           RegisterTypeAlias, Whitelist, SchemaFromRef, RegisterOperation, BuildInto, Wired, Panics,
           Serve, Request, vars, emitVars
  <2>2. WiresOwnTheirNames
    BY <2>1 DEF WiresOwnTheirNames, Wire, Name, GoType
  <2>. QED
    BY <2>2, StepNamesFields
<1>3. Inv => (WiresOwnTheirNames => FieldsFollowBindings)
  BY DEF FieldsInv, FieldsNamed, NamedAs, FieldsFollowBindings
<1>. QED
  <2> HIDE DEF Inv
  <2>. QED
    BY <1>1, <1>2, <1>3, AlwaysIndexed, PTL DEF Spec

-----------------------------------------------------------------------------
\* Of the types and nodes of one name, a type that gets a component of its own is a
\* struct if any of them is.
NamesakesAlike ==
    \A t \in Types : Registrable(t) =>
        \A s \in Structs :
            (\/ GoType(s).name = GoType(t).name
             \/ \E m \in Nodes : Wire(m) = s /\ Name(m) = GoType(t).name)
            => t \in Structs

\* What is served typed, or is about to be, stands for a struct.
TypedInv ==
    /\ \A n \in DOMAIN converted : converted[n].typed => TypeFromRef(n) \in Structs
    /\ \A g \in Callers : caller[g].at = "insert" =>
          (caller[g].schema.typed => TypeFromRef(caller[g].name) \in Structs)

\* A name that stands for a struct goes on doing so.
StructsStay == \A n : TypeFromRef(n) \in Structs => (TypeFromRef(n))' \in Structs'

LEMMA TypedByIndex ==
    ASSUME IndexInv, NEW n, TypeFromRef(n) \in Structs
    PROVE  /\ n \in DOMAIN types \/ n \in DOMAIN byName
           /\ Claims(TypeFromRef(n), n)
<1>1. None \notin Structs
  BY WorldFacts DEF IndexInv, Structs
<1>2. n \in DOMAIN types \/ n \in DOMAIN byName
  BY <1>1 DEF TypeFromRef
<1>. QED
  BY <1>2 DEF TypeFromRef, IndexInv

LEMMA OperationKeepsStructs ==
    ASSUME IndexInv, NamesakesAlike, RegisterOperation PROVE StructsStay
<1>1. CASE Panics
  BY <1>1 DEF Panics, componentVars, bridgeVars, StructsStay, TypeFromRef, Structs, GoType
<1>2. ASSUME NEW t \in Types, NEW own \in OwnersFor(t),
             Accepted(Answering(t, own)), RegisterReflected(Answering(t, own)),
             DOMAIN types' = DOMAIN types \cup {x.name : x \in Typed(Answering(t, own))},
             \A n \in DOMAIN types' :
                IF n \in {x.name : x \in Typed(Answering(t, own))}
                THEN \E x \in Typed(Answering(t, own)) : x.name = n /\ types'[n] = x.type
                ELSE n \in DOMAIN types /\ types'[n] = types[n],
             Wired
      PROVE  StructsStay
  <2> DEFINE regs == Answering(t, own)
  <2>1. Agreeing(regs) /\ RegisterReflected(regs) /\ in' = in
    BY <1>2, AcceptedAgrees DEF Wired, emitVars
  <2>2. \A x \in Typed(regs) : x.type \in Types /\ x.name = GoType(x.type).name /\ Registrable(x.type)
    BY AnsweringOwned
  <2>3. Grows(byName, byName')
    <3> HIDE DEF regs
    <3>. QED
      BY <2>1, RegisteredFacts
  <2>4. Structs' = Structs
    BY <2>1 DEF Structs, GoType
  <2> SUFFICES ASSUME NEW n, TypeFromRef(n) \in Structs PROVE (TypeFromRef(n))' \in Structs
    BY <2>4 DEF StructsStay
  <2>5. (n \in DOMAIN types \/ n \in DOMAIN byName) /\ Claims(TypeFromRef(n), n)
    BY TypedByIndex
  <2>6. CASE n \in {x.name : x \in Typed(regs)}
    <3>1. PICK x \in Typed(regs) : x.name = n /\ types'[n] = x.type
      BY <1>2, <2>6
    <3>2. x.type \in Structs
      BY <2>2, <2>5, <3>1 DEF NamesakesAlike, Claims, IndexInv
    <3>. QED
      BY <1>2, <2>6, <3>1, <3>2 DEF TypeFromRef
  <2>7. CASE n \notin {x.name : x \in Typed(regs)}
    <3>1. CASE n \in DOMAIN types
      BY <1>2, <2>7, <3>1 DEF TypeFromRef
    <3>2. CASE n \notin DOMAIN types
      BY <1>2, <2>3, <2>5, <2>7, <3>2 DEF TypeFromRef, Grows
    <3>. QED
      BY <3>1, <3>2
  <2>. QED
    BY <2>6, <2>7
<1>. QED
  BY <1>1, <1>2, OperationFacts

LEMMA StepKeepsStructs == ASSUME IndexInv, NamesakesAlike, [Next]_vars PROVE StructsStay
<1>1. ASSUME in' = in, types' = types, Grows(byName, byName') PROVE StructsStay
  <2>1. Structs' = Structs
    BY <1>1 DEF Structs, GoType
  <2> SUFFICES ASSUME NEW n, TypeFromRef(n) \in Structs PROVE (TypeFromRef(n))' \in Structs
    BY <2>1 DEF StructsStay
  <2>2. n \in DOMAIN types \/ n \in DOMAIN byName
    BY TypedByIndex
  <2>. QED
    BY <1>1, <2>2 DEF TypeFromRef, Grows
<1>2. CASE Emit \/ Serve \/ UNCHANGED vars \/ \E g \in Callers : Request(g)
  BY <1>1, <1>2 DEF Emit, EmitStep, Collect, ReflectAndStitch, InlineRound, Prune, Serve, Request, Lookup,
                    Convert, Insert, vars, emitVars, componentVars, bridgeVars, Grows
<1>3. CASE New
  <2>1. DOMAIN byName = {} /\ types' = types /\ in' = in
    BY <1>3 DEF New, bridgeVars, IndexInv
  <2>. QED
    BY <1>1, <2>1 DEF Grows
<1>4. CASE Bind
  <2>1. ASSUME Panics PROVE StructsStay
    BY <1>1, <2>1 DEF Panics, componentVars, bridgeVars, Grows
  <2>2. ASSUME NEW n \in Nodes, BoundBy(n) PROVE StructsStay
    BY <1>1, <2>2, BoundFacts
  <2>. QED
    BY <1>4, <2>1, <2>2, BindFacts
<1>5. CASE RegisterTypeAlias \/ Whitelist \/ SchemaFromRef \/ BuildInto
  BY <1>1, <1>5 DEF RegisterTypeAlias, Whitelist, SchemaFromRef, BuildInto, ExternalRefs, LookupAtStartup,
                    Wired, Panics, emitVars, componentVars, bridgeVars, Grows
<1>. QED
  BY <1>2, <1>3, <1>4, <1>5, OperationKeepsStructs DEF Next, AppCall

\* A conversion is typed by what its name stands for then.
LEMMA ConvertedTyped ==
    ASSUME NEW g, NEW n, Converted(g, n, Structs).typed
    PROVE  TypeFromRef(n) \in Structs
  BY DEF Converted

LEMMA StepTypes ==
    ServingInv /\ IndexInv /\ NamesakesAlike /\ TypedInv /\ [Next]_vars => TypedInv'
<1>. SUFFICES ASSUME ServingInv, IndexInv, NamesakesAlike, TypedInv, [Next]_vars PROVE TypedInv'
  OBVIOUS
<1>0. StructsStay
  BY StepKeepsStructs
<1>1. ASSUME UNCHANGED <<converted, caller>> PROVE TypedInv'
  <2>1. \A n \in DOMAIN converted' : converted'[n].typed => (TypeFromRef(n))' \in Structs'
    BY <1>0, <1>1 DEF TypedInv, StructsStay
  <2>2. ASSUME NEW g \in Callers, caller'[g].at = "insert", caller'[g].schema.typed
        PROVE  (TypeFromRef(caller[g].name))' \in Structs'
    <3>1. PICK n : n = caller[g].name
      OBVIOUS
    <3>2. TypeFromRef(n) \in Structs
      BY <1>1, <2>2, <3>1 DEF TypedInv
    <3>3. (TypeFromRef(n))' \in Structs'
      BY <1>0, <3>2 DEF StructsStay
    <3>. QED
      BY <1>1, <3>1, <3>3 DEF TypeFromRef
  <2>. QED
    BY <2>1, <2>2 DEF TypedInv
<1>2. CASE Emit \/ New \/ Serve \/ UNCHANGED vars \/ Bind \/ RegisterTypeAlias \/ Whitelist
           \/ RegisterOperation \/ BuildInto
  BY <1>1, <1>2 DEF Emit, New, Serve, Bind, RegisterTypeAlias, Whitelist, RegisterOperation, BuildInto,
                    Wired, Panics, vars, bridgeVars, callVars
<1>3. CASE SchemaFromRef
  <2>1. PICK name : LookupAtStartup(name, Structs)
    BY <1>3 DEF SchemaFromRef
  <2>2. /\ converted' = Over(converted, [n \in {name} |-> Converted(Startup, name, Structs)])
        /\ UNCHANGED <<in, types, byName, caller>>
    BY <1>3, <2>1 DEF SchemaFromRef, LookupAtStartup, Wired, emitVars, callVars, componentVars
  <2>3. Structs' = Structs /\ \A n : (TypeFromRef(n))' = TypeFromRef(n)
    BY <2>2 DEF Structs, GoType, TypeFromRef
  <2>4. \A n \in DOMAIN converted' : converted'[n].typed => TypeFromRef(n) \in Structs
    <3> SUFFICES ASSUME NEW n \in DOMAIN converted', converted'[n].typed PROVE TypeFromRef(n) \in Structs
      OBVIOUS
    <3>1. \/ n = name /\ converted'[n] = Converted(Startup, name, Structs)
          \/ n \in DOMAIN converted /\ converted'[n] = converted[n]
      BY <2>2 DEF Over
    <3>. QED
      BY <3>1, ConvertedTyped DEF TypedInv
  <2>5. \A g \in Callers : caller'[g].at = "insert" =>
           (caller'[g].schema.typed => (TypeFromRef(caller[g].name))' \in Structs')
    BY <2>2, <2>3 DEF TypedInv, TypeFromRef
  <2>. QED
    BY <2>3, <2>4, <2>5 DEF TypedInv
<1>4. CASE \E g \in Callers : Request(g)
  <2>1. PICK g \in Callers : Request(g)
    BY <1>4
  <2>2. UNCHANGED <<in, types, byName>>
    BY <2>1 DEF Request, emitVars, componentVars, Lookup, Convert, Insert, bridgeVars
  <2>3. Structs' = Structs
    BY <2>2 DEF Structs, GoType
  <2>4. DOMAIN caller = Callers /\ DOMAIN caller[g] = {"at", "name", "schema"}
    BY DEF ServingInv, CallShape
  <2>5. ASSUME \A n \in DOMAIN converted' : converted'[n].typed => TypeFromRef(n) \in Structs,
               \A h \in Callers : caller'[h].at = "insert" =>
                   (caller'[h].schema.typed =>
                       (IF caller'[h].name \in DOMAIN types THEN types[caller'[h].name]
                        ELSE IF caller'[h].name \in DOMAIN byName THEN byName[caller'[h].name]
                        ELSE None) \in Structs)
        PROVE  TypedInv'
    BY <2>2, <2>3, <2>5 DEF TypedInv, TypeFromRef
  <2>6. ASSUME NEW name, Lookup(g, name) PROVE TypedInv'
    <3>1. CASE name \in DOMAIN converted
      BY <1>1, <2>6, <3>1 DEF Lookup, bridgeVars
    <3>2. CASE name \notin DOMAIN converted
      <4>1. /\ converted' = converted
            /\ caller' = [caller EXCEPT ![g] = [at |-> "convert", name |-> name, schema |-> None]]
        BY <2>6, <3>2 DEF Lookup, bridgeVars
      <4>2. /\ caller'[g].at = "convert" /\ \A h \in Callers \ {g} : caller'[h] = caller[h]
        BY <2>4, <4>1
      <4>. QED
        BY <2>5, <4>1, <4>2 DEF TypedInv, TypeFromRef
    <3>. QED
      BY <3>1, <3>2
  <2>7. ASSUME Convert(g, Structs) PROVE TypedInv'
    <3>1. /\ converted' = converted
          /\ caller' = [caller EXCEPT ![g].at = "insert",
                                      ![g].schema = Converted(g, caller[g].name, Structs)]
      BY <2>7 DEF Convert, bridgeVars
    <3>2. /\ caller'[g].name = caller[g].name
          /\ caller'[g].schema = Converted(g, caller[g].name, Structs)
          /\ \A h \in Callers \ {g} : caller'[h] = caller[h]
      BY <2>4, <3>1
    <3>3. caller'[g].schema.typed => TypeFromRef(caller[g].name) \in Structs
      BY <3>2, ConvertedTyped
    <3>. QED
      BY <2>5, <3>1, <3>2, <3>3 DEF TypedInv, TypeFromRef
  <2>8. ASSUME Insert(g) PROVE TypedInv'
    <3>1. /\ caller[g].at = "insert"
          /\ converted' = Over(converted, [n \in {caller[g].name} |-> caller[g].schema])
          /\ caller' = [caller EXCEPT ![g] = Idle]
      BY <2>8 DEF Insert
    <3>2. caller'[g].at = "idle" /\ \A h \in Callers \ {g} : caller'[h] = caller[h]
      BY <2>4, <3>1 DEF Idle
    <3>3. \A n \in DOMAIN converted' : converted'[n].typed => TypeFromRef(n) \in Structs
      <4> SUFFICES ASSUME NEW n \in DOMAIN converted', converted'[n].typed PROVE TypeFromRef(n) \in Structs
        OBVIOUS
      <4>1. \/ n = caller[g].name /\ converted'[n] = caller[g].schema
            \/ n \in DOMAIN converted /\ converted'[n] = converted[n]
        BY <3>1 DEF Over
      <4>. QED
        BY <3>1, <4>1 DEF TypedInv
    <3>. QED
      BY <2>5, <3>2, <3>3 DEF TypedInv, TypeFromRef
  <2>. QED
    BY <2>1, <2>6, <2>7, <2>8 DEF Request
<1>. QED
  BY <1>2, <1>3, <1>4 DEF Next, AppCall

\* What the cache serves is what the set holds, and what it serves typed stands for a
\* struct, whatever is registered after it was converted (schemaFor, TypeFromRef),
\* where no type that is none takes a struct's name.
THEOREM ServedStaysTyped == Spec => [](NamesakesAlike => ServedIsRegistered)
<1> DEFINE Inv == NamesakesAlike => TypedInv
<1>1. Init => Inv
  <2> SUFFICES ASSUME Init PROVE TypedInv
    OBVIOUS
  <2>1. converted = Empty /\ \A g \in Callers : caller[g].at = "idle"
    BY DEF Init, BridgeInit, Idle
  <2>. QED
    BY <2>1 DEF TypedInv, Empty
<1>2. Inv /\ IndexInv /\ ServingInv /\ [Next]_vars => Inv'
  <2> SUFFICES ASSUME Inv, IndexInv, ServingInv, [Next]_vars, NamesakesAlike' PROVE TypedInv'
    OBVIOUS
  <2>1. in' = in
    BY DEF Next, Emit, EmitStep, Collect, ReflectAndStitch, InlineRound, Prune, New, AppCall, Bind,
           RegisterTypeAlias, Whitelist, SchemaFromRef, RegisterOperation, BuildInto, Wired, Panics,
           Serve, Request, vars, emitVars
  <2>2. NamesakesAlike
    BY <2>1 DEF NamesakesAlike, Registrable, Structs, Wire, Name, GoType
  <2>. QED
    BY <2>2, StepTypes
<1>3. Inv /\ ServingInv => (NamesakesAlike => ServedIsRegistered)
  BY DEF TypedInv, ServingInv, CacheHeld, Held, ServedIsRegistered
<1>. QED
  <2> HIDE DEF Inv
  <2>. QED
    BY <1>1, <1>2, <1>3, AlwaysIndexed, AlwaysServing, PTL DEF Spec

-----------------------------------------------------------------------------
\* A schema whose $refs stand below keys of its own, each below one.
KeyedRefs(b) ==
    /\ \A r \in b.refs : r = Ref(r.at, r.to, r.bare) /\ \E k : r.at = <<k>>
    /\ \A r, s \in b.refs : r.at = s.at => r = s
Keyed(b) == IsBody(b) /\ KeyedRefs(b) /\ \A s \in b.parts : s = << <<>>, s[2]>>

StitchedKeyed ==
    /\ IsFiniteSet(DOMAIN stitched) /\ None \notin DOMAIN stitched
    /\ NodeNames \subseteq DOMAIN stitched
    /\ \A c \in DOMAIN stitched : Keyed(stitched[c])

-----------------------------------------------------------------------------
\* What LandsAt computes, key by key.
OneOn(d, k) == IF d # None /\ Follows(d, k) THEN Step(d, k) ELSE None
Landing(g, c, path) ==
    g = [i \in 0..Len(path) |->
            IF i = 0 THEN c
            ELSE LET d == g[i - 1] IN
                 IF d # None /\ Follows(d, path[i]) THEN Step(d, path[i]) ELSE None]

LEMMA KeyGiven ==
    ASSUME StitchedKeyed, NEW d \in DOMAIN stitched, NEW r \in stitched[d].refs
    PROVE  /\ Head(r.at) \in Keys /\ r.at = <<Head(r.at)>> /\ Step(d, Head(r.at)) = r.to
           /\ \A x \in stitched[d].refs : x.at = r.at => x = r
           /\ Follows(d, Head(r.at)) <=>
                 /\ stitched[d].kind # "opaque" /\ r.bare
                 /\ r.to \in Auxiliaries /\ stitched[r.to].kind # "opaque"
<1>1. KeyedRefs(stitched[d])
  BY DEF StitchedKeyed, Keyed
<1>2. PICK k : r.at = <<k>>
  BY <1>1 DEF KeyedRefs
<1>3. Head(r.at) = k
  BY <1>2
<1>4. Head(r.at) \in Keys
  BY DEF Keys
<1>5. \A x \in stitched[d].refs : x.at = r.at => x = r
  BY <1>1 DEF KeyedRefs
<1>6. {x \in stitched[d].refs : x.at = <<k>>} = {r}
  BY <1>2, <1>5
<1>7. Step(d, k) = r.to
  BY <1>6 DEF Step
<1>. QED
  BY <1>2, <1>3, <1>4, <1>5, <1>7 DEF Follows

LEMMA KeyPath ==
    ASSUME StitchedKeyed, NEW d \in DOMAIN stitched, NEW r \in stitched[d].refs
    PROVE  r.at \in Seq(Keys) /\ Len(r.at) = 1 /\ r.at # <<>> /\ r = Ref(r.at, r.to, r.bare)
<1>1. PICK k \in Keys : r.at = <<k>>
  BY KeyGiven
<1>2. r = Ref(r.at, r.to, r.bare)
  BY DEF StitchedKeyed, Keyed, KeyedRefs
<1>3. <<k>> \in Seq(Keys) /\ Len(<<k>>) = 1 /\ <<k>> # <<>>
  BY <1>1
<1>. QED
  BY <1>1, <1>2, <1>3

\* A hop follows a $ref.
LEMMA HopFacts ==
    ASSUME StitchedKeyed, NEW d \in DOMAIN stitched, NEW k, Follows(d, k)
    PROVE  /\ Step(d, k) \in Auxiliaries /\ Step(d, k) \in DOMAIN stitched /\ k \in Keys
           /\ \E r \in stitched[d].refs : r.at = <<k>> /\ r.to = Step(d, k) /\ Head(r.at) = k
<1>1. PICK r \in stitched[d].refs : r.at = <<k>> /\ r.to \in Auxiliaries
  BY DEF Follows
<1>2. Head(r.at) = k
  BY <1>1
<1>3. Step(d, k) = r.to /\ k \in Keys
  BY <1>2, KeyGiven
<1>. QED
  BY <1>1, <1>2, <1>3 DEF Auxiliaries

LEMMA LandingExists ==
    ASSUME StitchedKeyed, NEW c \in DOMAIN stitched, NEW p \in Seq(Keys)
    PROVE  \E g \in [0..Len(p) -> DOMAIN stitched \cup {None}] :
              Landing(g, c, p) /\ LandsAt(c, p) = g[Len(p)]
<1> DEFINE L == Len(p)
           V == DOMAIN stitched \cup {None}
           step == [n \in 1..L |-> [s \in V |-> OneOn(s, p[n])]]
<1>1. L \in Nat
  BY LenProperties
<1>2. step \in [1..L -> [V -> V]]
  <2>1. ASSUME NEW s \in V, NEW k PROVE OneOn(s, k) \in V
    BY HopFacts DEF OneOn
  <2>. QED
    BY <2>1
<1>3. \E g \in [0..L -> V] : Stepwise(g, L, c, step)
  <2>1. c \in V
    OBVIOUS
  <2> HIDE DEF V, L, step
  <2>. QED
    BY <1>1, <1>2, <2>1, StepwiseExists
<1>4. PICK g \in [0..L -> V] : Stepwise(g, L, c, step)
  BY <1>3
<1>5. \A n \in 0..L : g[n] = IF n = 0 THEN c ELSE OneOn(g[n - 1], p[n])
  <2>1. ASSUME NEW n \in 0..L, n # 0 PROVE g[n] = OneOn(g[n - 1], p[n])
    <3>1. n \in 1..L /\ n - 1 \in 0..L
      BY <1>1, <2>1
    <3>2. g[n] = step[n][g[n - 1]] /\ g[n - 1] \in V
      BY <1>4, <2>1, <3>1 DEF Stepwise
    <3>. QED
      BY <3>1, <3>2
  <2>2. g[0] = c
    BY <1>1, <1>4 DEF Stepwise
  <2>. QED
    BY <2>1, <2>2
<1>6. Landing(g, c, p)
  BY <1>4, <1>5 DEF Landing, OneOn
<1> DEFINE f == CHOOSE f : Landing(f, c, p)
<1>7. Landing(f, c, p) /\ LandsAt(c, p) = f[L]
  BY <1>6 DEF LandsAt, Landing
<1> HIDE DEF f
<1>8. \A n \in 0..L : f[n] = g[n]
  <2> DEFINE T == {n \in 0..L : f[n] = g[n]}
  <2>1. \A n \in 0..L : f[n] = IF n = 0 THEN c ELSE OneOn(f[n - 1], p[n])
    BY <1>7 DEF Landing, OneOn
  <2>2. 0 \in T
    BY <1>1, <1>5, <2>1
  <2>3. ASSUME NEW n \in 0..(L - 1), n \in T PROVE n + 1 \in T
    <3>1. n + 1 \in 0..L /\ n + 1 # 0 /\ (n + 1) - 1 = n
      BY <1>1
    <3>. QED
      BY <1>5, <2>1, <2>3, <3>1
  <2> HIDE DEF T
  <2>4. 0..L \subseteq T
    BY <1>1, <2>2, <2>3, IntervalByStep
  <2>. QED
    BY <2>4 DEF T
<1>. QED
  BY <1>1, <1>6, <1>7, <1>8

\* A path of one key more leads one hop further.
LEMMA LandsFacts ==
    ASSUME StitchedKeyed, NEW c \in DOMAIN stitched
    PROVE  /\ LandsAt(c, <<>>) = c
           /\ \A p \in Seq(Keys) :
                 /\ LandsAt(c, p) \in DOMAIN stitched \cup {None}
                 /\ \A k \in Keys : LandsAt(c, Append(p, k)) = OneOn(LandsAt(c, p), k)
<1>1. LandsAt(c, <<>>) = c
  <2>1. PICK e : e = <<>>
    OBVIOUS
  <2>2. e \in Seq(Keys) /\ Len(e) = 0
    BY <2>1
  <2>3. PICK g \in [0..Len(e) -> DOMAIN stitched \cup {None}] : Landing(g, c, e) /\ LandsAt(c, e) = g[Len(e)]
    BY <2>2, LandingExists
  <2>4. g[0] = c
    BY <2>2, <2>3 DEF Landing
  <2>. QED
    BY <2>1, <2>2, <2>3, <2>4
<1>2. ASSUME NEW p \in Seq(Keys) PROVE LandsAt(c, p) \in DOMAIN stitched \cup {None}
  <2>1. Len(p) \in 0..Len(p)
    BY LenProperties
  <2>. QED
    BY <2>1, LandingExists
<1>3. ASSUME NEW p \in Seq(Keys), NEW k \in Keys PROVE LandsAt(c, Append(p, k)) = OneOn(LandsAt(c, p), k)
  <2> DEFINE L == Len(p)
             q == Append(p, k)
  <2>1. q \in Seq(Keys) /\ Len(q) = L + 1 /\ L \in Nat /\ q[L + 1] = k /\ \A i \in 1..L : q[i] = p[i]
    BY AppendProperties, LenProperties
  <2> HIDE DEF q, L
  <2>2. PICK g \in [0..L -> DOMAIN stitched \cup {None}] : Landing(g, c, p) /\ LandsAt(c, p) = g[L]
    BY LandingExists DEF L
  <2>3. PICK h \in [0..Len(q) -> DOMAIN stitched \cup {None}] : Landing(h, c, q) /\ LandsAt(c, q) = h[Len(q)]
    BY <2>1, LandingExists
  <2>4. \A i \in 0..L : g[i] = IF i = 0 THEN c ELSE OneOn(g[i - 1], p[i])
    BY <2>2 DEF Landing, OneOn, L
  <2>5. \A i \in 0..(L + 1) : h[i] = IF i = 0 THEN c ELSE OneOn(h[i - 1], q[i])
    BY <2>1, <2>3 DEF Landing, OneOn
  <2> DEFINE T == {i \in 0..L : h[i] = g[i]}
  <2>6. 0 \in T
    <3>1. 0 \in 0..L /\ 0 \in 0..(L + 1)
      BY <2>1
    <3>2. g[0] = c /\ h[0] = c
      BY <2>4, <2>5, <3>1
    <3>. QED
      BY <3>1, <3>2
  <2>7. ASSUME NEW i \in 0..(L - 1), i \in T PROVE i + 1 \in T
    <3>1. i + 1 \in 0..L /\ i + 1 \in 0..(L + 1) /\ i + 1 # 0 /\ (i + 1) - 1 = i /\ i + 1 \in 1..L
      BY <2>1
    <3>2. q[i + 1] = p[i + 1]
      BY <2>1, <3>1
    <3>3. h[i + 1] = OneOn(h[i], q[i + 1]) /\ g[i + 1] = OneOn(g[i], p[i + 1])
      BY <2>4, <2>5, <3>1
    <3>. QED
      BY <2>7, <3>1, <3>2, <3>3
  <2> HIDE DEF T
  <2>8. 0..L \subseteq T
    BY <2>1, <2>6, <2>7, IntervalByStep
  <2>9. h[L] = g[L]
    BY <2>1, <2>8 DEF T
  <2>10. L + 1 \in 0..(L + 1) /\ L + 1 # 0 /\ (L + 1) - 1 = L
    BY <2>1
  <2>11. h[L + 1] = OneOn(h[L], q[L + 1])
    BY <2>5, <2>10
  <2>. QED
    BY <2>1, <2>2, <2>3, <2>9, <2>11 DEF q
<1>. QED
  BY <1>1, <1>2, <1>3

\* Inlining goes where the path before it goes and one hop further, off every cycle.
Goes(d, k) == Follows(d, k) /\ ~IsCyclic(Step(d, k))

LEMMA InlinedFacts ==
    ASSUME StitchedKeyed, NEW c \in DOMAIN stitched
    PROVE  /\ InlinedAt(c, <<>>)
           /\ \A p \in Seq(Keys), k \in Keys :
                 /\ InlinedAt(c, Append(p, k)) <=> InlinedAt(c, p) /\ Goes(LandsAt(c, p), k)
                 /\ InlinedAt(c, Append(p, k)) => LandsAt(c, Append(p, k)) = Step(LandsAt(c, p), k)
           /\ \A p \in Seq(Keys) : InlinedAt(c, p) => LandsAt(c, p) \in DOMAIN stitched
<1>1. InlinedAt(c, <<>>)
  <2>1. LandsAt(c, <<>>) # None
    BY LandsFacts DEF StitchedKeyed
  <2>2. 1..Len(<<>>) = {}
    OBVIOUS
  <2>. QED
    BY <2>1, <2>2 DEF InlinedAt
<1>2. ASSUME NEW p \in Seq(Keys), NEW k \in Keys
      PROVE  /\ InlinedAt(c, Append(p, k)) <=> InlinedAt(c, p) /\ Goes(LandsAt(c, p), k)
             /\ InlinedAt(c, Append(p, k)) => LandsAt(c, Append(p, k)) = Step(LandsAt(c, p), k)
  <2> DEFINE q == Append(p, k)
             L == Len(p)
             d == LandsAt(c, p)
  <2>1. /\ Len(q) = L + 1 /\ L \in Nat
        /\ \A n \in 0..L : SubSeq(q, 1, n) = SubSeq(p, 1, n)
        /\ SubSeq(q, 1, L + 1) = q
    BY AppendFacts
  <2>2. LandsAt(c, q) = OneOn(d, k) /\ d \in DOMAIN stitched \cup {None}
    BY LandsFacts
  <2>3. d \in DOMAIN stitched /\ Follows(d, k) => Step(d, k) # None
    BY HopFacts DEF StitchedKeyed
  <2> HIDE DEF q, L, d
  <2>4. LandsAt(c, q) # None <=> d # None /\ Follows(d, k)
    BY <2>2, <2>3 DEF OneOn
  <2>5. LandsAt(c, q) # None => LandsAt(c, q) = Step(d, k)
    BY <2>2 DEF OneOn
  <2>6. 1..Len(q) = (1..L) \cup {L + 1} /\ \A i \in 1..L : i \in 0..L
    BY <2>1
  <2>7. InlinedAt(c, q) <=> /\ LandsAt(c, q) # None
                            /\ \A i \in 1..L : ~IsCyclic(LandsAt(c, SubSeq(p, 1, i)))
                            /\ ~IsCyclic(LandsAt(c, q))
    BY <2>1, <2>6 DEF InlinedAt
  <2>8. InlinedAt(c, p) <=> d # None /\ \A i \in 1..L : ~IsCyclic(LandsAt(c, SubSeq(p, 1, i)))
    BY DEF InlinedAt, d, L
  <2>9. (InlinedAt(c, q) <=> InlinedAt(c, p) /\ Goes(d, k)) /\ (InlinedAt(c, q) => LandsAt(c, q) = Step(d, k))
    BY <2>4, <2>5, <2>7, <2>8 DEF Goes
  <2>. QED
    BY <2>9 DEF q, d
<1>3. ASSUME NEW p \in Seq(Keys), InlinedAt(c, p) PROVE LandsAt(c, p) \in DOMAIN stitched
  BY <1>3, LandsFacts DEF InlinedAt
<1>. QED
  BY <1>1, <1>2, <1>3

\* A path is inlined if its beginning is and the rest is from where that leads.
LEMMA InlinedConcat ==
    ASSUME StitchedKeyed, NEW c \in DOMAIN stitched, NEW p \in Seq(Keys), InlinedAt(c, p), NEW q \in Seq(Keys)
    PROVE  /\ p \o q \in Seq(Keys)
           /\ InlinedAt(c, p \o q) <=> InlinedAt(LandsAt(c, p), q)
           /\ InlinedAt(c, p \o q) => LandsAt(c, p \o q) = LandsAt(LandsAt(c, p), q)
<1> DEFINE d == LandsAt(c, p)
           Right(y) == /\ InlinedAt(c, p \o y) <=> InlinedAt(d, y)
                       /\ InlinedAt(c, p \o y) => LandsAt(c, p \o y) = LandsAt(d, y)
           T == {n \in Nat : \A y \in Seq(Keys) : Len(y) = n => Right(y)}
<1>1. d \in DOMAIN stitched
  BY InlinedFacts
<1>2. 0 \in T
  <2> SUFFICES ASSUME NEW y \in Seq(Keys), Len(y) = 0 PROVE Right(y)
    OBVIOUS
  <2>1. y = <<>>
    BY EmptySeq
  <2>2. p \o y = p
    BY <2>1, ConcatEmptySeq
  <2>3. InlinedAt(d, y) /\ LandsAt(d, y) = d
    BY <1>1, <2>1, InlinedFacts, LandsFacts
  <2>. QED
    BY <2>2, <2>3
<1>3. ASSUME NEW n \in Nat, n \in T PROVE n + 1 \in T
  <2> SUFFICES ASSUME NEW y \in Seq(Keys), Len(y) = n + 1 PROVE Right(y)
    OBVIOUS
  <2> DEFINE x == Front(y)
             k == Last(y)
  <2>1. y # <<>>
    OBVIOUS
  <2>2. x \in Seq(Keys) /\ k \in Keys /\ y = Append(x, k) /\ Len(x) = n
    BY <2>1, FrontFacts
  <2> HIDE DEF x, k, d
  <2>3. Right(x)
    BY <1>3, <2>2
  <2>4. p \o x \in Seq(Keys) /\ p \o y = Append(p \o x, k)
    BY <2>2, ConcatProperties, AppendIsConcat, ConcatAssociative
  <2>5. /\ InlinedAt(c, p \o y) <=> InlinedAt(c, p \o x) /\ Goes(LandsAt(c, p \o x), k)
        /\ InlinedAt(c, p \o y) => LandsAt(c, p \o y) = Step(LandsAt(c, p \o x), k)
    <3>1. /\ InlinedAt(c, Append(p \o x, k)) <=> InlinedAt(c, p \o x) /\ Goes(LandsAt(c, p \o x), k)
          /\ InlinedAt(c, Append(p \o x, k)) => LandsAt(c, Append(p \o x, k)) = Step(LandsAt(c, p \o x), k)
      BY <2>2, <2>4, InlinedFacts
    <3>. QED
      BY <2>4, <3>1
  <2>6. /\ InlinedAt(d, y) <=> InlinedAt(d, x) /\ Goes(LandsAt(d, x), k)
        /\ InlinedAt(d, y) => LandsAt(d, y) = Step(LandsAt(d, x), k)
    BY <1>1, <2>2, InlinedFacts
  <2>. QED
    BY <2>3, <2>5, <2>6
<1>4. Nat \subseteq T
  <2> HIDE DEF T
  <2>. QED
    BY <1>2, <1>3, NaturalsByStep
<1>5. Len(q) \in Nat
  BY LenProperties
<1>6. Right(q)
  BY <1>4, <1>5
<1>. QED
  BY <1>6, ConcatProperties

\* The beginnings of an inlined path are inlined, and the rest from there.
Beginning(w, n) == SubSeq(w, 1, n)
Rest(w, n) == SubSeq(w, n + 1, Len(w))

LEMMA InlinedPrefix ==
    ASSUME StitchedKeyed, NEW c \in DOMAIN stitched, NEW w \in Seq(Keys), InlinedAt(c, w), NEW n \in 0..Len(w)
    PROVE  /\ Beginning(w, n) \in Seq(Keys) /\ Len(Beginning(w, n)) = n
           /\ Rest(w, n) \in Seq(Keys) /\ Len(Rest(w, n)) = Len(w) - n
           /\ w = Beginning(w, n) \o Rest(w, n)
           /\ InlinedAt(c, Beginning(w, n)) /\ InlinedAt(LandsAt(c, Beginning(w, n)), Rest(w, n))
<1> DEFINE T == {m \in Nat : \A p, q \in Seq(Keys) : Len(q) = m /\ InlinedAt(c, p \o q) => InlinedAt(c, p)}
<1>1. 0 \in T
  <2> SUFFICES ASSUME NEW p \in Seq(Keys), NEW q \in Seq(Keys), Len(q) = 0, InlinedAt(c, p \o q)
               PROVE  InlinedAt(c, p)
    OBVIOUS
  <2>1. p \o q = p
    BY EmptySeq, ConcatEmptySeq
  <2>. QED
    BY <2>1
<1>2. ASSUME NEW m \in Nat, m \in T PROVE m + 1 \in T
  <2> SUFFICES ASSUME NEW p \in Seq(Keys), NEW q \in Seq(Keys), Len(q) = m + 1, InlinedAt(c, p \o q)
               PROVE  InlinedAt(c, p)
    OBVIOUS
  <2> DEFINE x == Front(q)
             k == Last(q)
  <2>1. q # <<>>
    OBVIOUS
  <2>2. x \in Seq(Keys) /\ k \in Keys /\ q = Append(x, k) /\ Len(x) = m
    BY <2>1, FrontFacts
  <2> HIDE DEF x, k
  <2>3. p \o x \in Seq(Keys) /\ p \o q = Append(p \o x, k)
    BY <2>2, ConcatProperties, AppendIsConcat, ConcatAssociative
  <2>4. InlinedAt(c, p \o x)
    BY <2>2, <2>3, InlinedFacts
  <2>. QED
    BY <1>2, <2>2, <2>4
<1>3. Nat \subseteq T
  <2> HIDE DEF T
  <2>. QED
    BY <1>1, <1>2, NaturalsByStep
<1> DEFINE p == SubSeq(w, 1, n)
           q == SubSeq(w, n + 1, Len(w))
<1>4. Len(w) \in Nat /\ n \in Nat
  BY LenProperties
<1>5. p \in Seq(Keys) /\ q \in Seq(Keys) /\ Len(p) = n /\ Len(q) = Len(w) - n /\ w = p \o q
  <2>1. \A i \in 1..Len(w) : w[i] \in Keys
    BY ElementOfSeq
  <2>2. p \in Seq(Keys) /\ Len(p) = n
    BY <1>4, <2>1, SubSeqProperties
  <2>3. q \in Seq(Keys) /\ Len(q) = Len(w) - n
    <3>1. \A i \in (n + 1)..Len(w) : w[i] \in Keys
      BY <1>4, <2>1
    <3>2. n + 1 \in Int /\ Len(w) \in Int
      BY <1>4
    <3>3. q \in Seq(Keys) /\ Len(q) = IF n + 1 <= Len(w) THEN Len(w) - (n + 1) + 1 ELSE 0
      BY <3>1, <3>2, SubSeqProperties
    <3>. QED
      BY <1>4, <3>3
  <2>4. w = p \o q
    <3>1. 1 \in 1..(Len(w) + 1) /\ n \in 1 - 1 .. Len(w) /\ Len(w) \in n..Len(w)
      BY <1>4
    <3>2. p \o q = SubSeq(w, 1, Len(w))
      BY <3>1, ConcatAdjacentSubSeq
    <3>. QED
      BY <3>2, SubSeqFull
  <2>. QED
    BY <2>2, <2>3, <2>4
<1> HIDE DEF p, q
<1>6. Len(q) \in Nat
  BY <1>5, LenProperties
<1>7. InlinedAt(c, p)
  BY <1>3, <1>5, <1>6
<1>8. InlinedAt(LandsAt(c, p), q)
  BY <1>5, <1>7, InlinedConcat
<1>. QED
  BY <1>5, <1>7, <1>8 DEF p, q, Beginning, Rest

\* A beginning of a beginning.
LEMMA BeginningTwice ==
    ASSUME NEW T, NEW w \in Seq(T), NEW j \in 0..Len(w), NEW i \in 0..j
    PROVE  Beginning(Beginning(w, j), i) = Beginning(w, i)
<1>1. Len(w) \in Nat /\ j \in Nat /\ i \in Nat /\ i <= j
  BY LenProperties
<1>2. \A n \in 1..j : w[n] \in T
  BY <1>1, ElementOfSeq
<1>3. Len(Beginning(w, j)) = j /\ \A n \in 1..j : Beginning(w, j)[n] = w[n]
  BY <1>1, <1>2, SubSeqProperties DEF Beginning
<1> DEFINE u == Beginning(w, j)
<1> HIDE DEF u
<1>4. \A n \in 1..i : u[n] = w[n] /\ w[n] \in T
  BY <1>1, <1>2, <1>3 DEF u
<1>5. /\ SubSeq(u, 1, i) \in Seq(T) /\ SubSeq(w, 1, i) \in Seq(T)
      /\ Len(SubSeq(u, 1, i)) = i /\ Len(SubSeq(w, 1, i)) = i
      /\ \A n \in 1..i : SubSeq(u, 1, i)[n] = u[n] /\ SubSeq(w, 1, i)[n] = w[n]
  BY <1>1, <1>4, SubSeqProperties
<1>6. \A n \in 1..i : SubSeq(u, 1, i)[n] = SubSeq(w, 1, i)[n]
  BY <1>4, <1>5
<1>7. SubSeq(u, 1, i) = SubSeq(w, 1, i)
  BY <1>5, <1>6, SeqEqual
<1>. QED
  BY <1>7 DEF Beginning, u

-----------------------------------------------------------------------------
\* The $refs auxInCycle follows are the hops of LandsAt.
Onward == [a \in Auxiliaries |-> {r.to : r \in Inlinable(stitched[a], Restrict(stitched, Auxiliaries))}]

LEMMA OnwardFacts ==
    ASSUME StitchedKeyed
    PROVE  /\ DOMAIN Onward = Auxiliaries /\ IsFiniteSet(Auxiliaries) /\ Auxiliaries \subseteq DOMAIN stitched
           /\ \A a \in Auxiliaries :
                 /\ Onward[a] \subseteq Auxiliaries
                 /\ \A k : Follows(a, k) => Step(a, k) \in Onward[a]
                 /\ \A x \in Onward[a] : \E k \in Keys : Follows(a, k) /\ Step(a, k) = x
           /\ AuxInCycle(Restrict(stitched, Auxiliaries))
                 = {a \in Auxiliaries : a \in ReachedAlong(Onward, Onward[a])}
<1> DEFINE aux == Restrict(stitched, Auxiliaries)
<1>1. Auxiliaries \subseteq DOMAIN stitched
  BY DEF Auxiliaries
<1>2. DOMAIN aux = Auxiliaries /\ \A a \in Auxiliaries : aux[a] = stitched[a]
  BY DEF Restrict
<1>3. IsFiniteSet(Auxiliaries)
  BY <1>1, FS_Subset DEF StitchedKeyed
<1> HIDE DEF aux
<1>4. ASSUME NEW a \in Auxiliaries
      PROVE  Inlinable(stitched[a], aux) =
                {r \in stitched[a].refs : /\ stitched[a].kind # "opaque" /\ r.bare
                                          /\ r.to \in Auxiliaries /\ stitched[r.to].kind # "opaque"}
  BY <1>2 DEF Inlinable
<1>5. DOMAIN Onward = Auxiliaries /\ \A a \in Auxiliaries : Onward[a] = {r.to : r \in Inlinable(stitched[a], aux)}
  BY DEF Onward, aux
<1>6. ASSUME NEW a \in Auxiliaries PROVE Onward[a] \subseteq Auxiliaries
  BY <1>4, <1>5
<1>7. ASSUME NEW a \in Auxiliaries, NEW k, Follows(a, k) PROVE Step(a, k) \in Onward[a]
  <2>1. PICK r \in stitched[a].refs : /\ r.at = <<k>> /\ r.bare
                                      /\ r.to \in Auxiliaries /\ stitched[r.to].kind # "opaque"
    BY <1>7 DEF Follows
  <2>2. r \in Inlinable(stitched[a], aux)
    BY <1>4, <1>7, <2>1 DEF Follows
  <2>3. Head(r.at) = k
    BY <2>1
  <2>4. Step(a, k) = r.to
    BY <1>1, <2>3, KeyGiven
  <2>. QED
    BY <1>5, <2>2, <2>4
<1>8. ASSUME NEW a \in Auxiliaries, NEW x \in Onward[a] PROVE \E k \in Keys : Follows(a, k) /\ Step(a, k) = x
  <2>1. PICK r \in Inlinable(stitched[a], aux) : x = r.to
    BY <1>5
  <2>2. /\ r \in stitched[a].refs /\ stitched[a].kind # "opaque" /\ r.bare
        /\ r.to \in Auxiliaries /\ stitched[r.to].kind # "opaque"
    BY <1>4, <2>1
  <2>3. Head(r.at) \in Keys /\ Follows(a, Head(r.at)) /\ Step(a, Head(r.at)) = r.to
    BY <1>1, <2>2, KeyGiven
  <2>. QED
    BY <2>1, <2>3
<1>9. AuxInCycle(aux) = {a \in Auxiliaries : a \in ReachedAlong(Onward, Onward[a])}
  <2> DEFINE edges == [a \in DOMAIN aux |-> {r.to : r \in Inlinable(aux[a], aux)}]
  <2>1. edges = Onward
    BY <1>2 DEF Onward, aux
  <2>2. AuxInCycle(aux) = {a \in DOMAIN aux : a \in ReachedAlong(edges, edges[a])}
    BY DEF AuxInCycle
  <2>. QED
    BY <1>2, <2>1, <2>2
<1>. QED
  BY <1>1, <1>3, <1>5, <1>6, <1>7, <1>8, <1>9 DEF aux

\* Where a path leads is where its component leads along such $refs.
LEMMA LandingReached ==
    ASSUME StitchedKeyed, NEW d \in Auxiliaries, NEW p \in Seq(Keys), p # <<>>, LandsAt(d, p) # None
    PROVE  LandsAt(d, p) \in ReachedAlong(Onward, Onward[d])
<1> DEFINE R == ReachedAlong(Onward, Onward[d])
           T == {n \in Nat : \A y \in Seq(Keys) :
                    Len(y) = n /\ LandsAt(d, y) # None => IF n = 0 THEN LandsAt(d, y) = d ELSE LandsAt(d, y) \in R}
<1>1. /\ Onward[d] \subseteq R /\ R \subseteq Auxiliaries
      /\ \A x \in R : Onward[x] \subseteq R
  <2>1. /\ IsFiniteSet(DOMAIN Onward) /\ \A x \in DOMAIN Onward : Onward[x] \subseteq DOMAIN Onward
        /\ Onward[d] \in SUBSET DOMAIN Onward /\ DOMAIN Onward = Auxiliaries
    BY OnwardFacts
  <2>2. /\ Onward[d] \subseteq ReachedAlong(Onward, Onward[d])
        /\ ReachedAlong(Onward, Onward[d]) \subseteq DOMAIN Onward
        /\ \A x \in ReachedAlong(Onward, Onward[d]) : Onward[x] \subseteq ReachedAlong(Onward, Onward[d])
    BY <2>1, ReachedFacts
  <2>. QED
    BY <2>1, <2>2
<1>2. d \in DOMAIN stitched
  BY DEF Auxiliaries
<1> HIDE DEF R
<1>3. 0 \in T
  BY <1>2, EmptySeq, LandsFacts
<1>4. ASSUME NEW n \in Nat, n \in T PROVE n + 1 \in T
  <2> SUFFICES ASSUME NEW y \in Seq(Keys), Len(y) = n + 1, LandsAt(d, y) # None PROVE LandsAt(d, y) \in R
    OBVIOUS
  <2> DEFINE x == Front(y)
             k == Last(y)
             e == LandsAt(d, x)
  <2>1. y # <<>>
    OBVIOUS
  <2>2. x \in Seq(Keys) /\ k \in Keys /\ y = Append(x, k) /\ Len(x) = n
    BY <2>1, FrontFacts
  <2> HIDE DEF x, k
  <2>3. LandsAt(d, y) = OneOn(e, k)
    BY <1>2, <2>2, LandsFacts
  <2>4. e # None /\ Follows(e, k) /\ LandsAt(d, y) = Step(e, k)
    BY <2>3 DEF OneOn
  <2>5. e = d \/ e \in R
    BY <1>4, <2>2, <2>4
  <2> HIDE DEF e
  <2>6. e \in Auxiliaries /\ Onward[e] \subseteq R
    BY <1>1, <2>5
  <2>7. Step(e, k) \in Onward[e]
    BY <2>4, <2>6, OnwardFacts
  <2>. QED
    BY <2>4, <2>6, <2>7
<1>5. Nat \subseteq T
  <2> HIDE DEF T
  <2>. QED
    BY <1>3, <1>4, NaturalsByStep
<1>6. Len(p) \in Nat \ {0}
  BY EmptySeq
<1>. QED
  BY <1>5, <1>6 DEF R

\* And where it leads along them, some path that is short enough leads.
LEMMA ReachedLanding ==
    ASSUME StitchedKeyed, NEW d \in Auxiliaries, NEW x \in ReachedAlong(Onward, Onward[d])
    PROVE  \E p \in Seq(Keys) : p # <<>> /\ Len(p) <= Cardinality(Auxiliaries) /\ LandsAt(d, p) = x
<1> DEFINE L == Cardinality(Auxiliaries)
<1>1. /\ IsFiniteSet(DOMAIN Onward) /\ \A y \in DOMAIN Onward : Onward[y] \subseteq DOMAIN Onward
      /\ Onward[d] \in SUBSET DOMAIN Onward /\ DOMAIN Onward = Auxiliaries
      /\ IsFiniteSet(Auxiliaries)
  BY OnwardFacts
<1>2. PICK g : /\ g[0] = Onward[d]
               /\ \A n \in 0..(L - 1) : g[n + 1] = g[n] \cup UNION {Onward[y] : y \in g[n]}
               /\ Cardinality(DOMAIN Onward) # 0 => ReachedAlong(Onward, Onward[d]) = g[L - 1]
  BY <1>1, ReachedByRounds
<1>3. L \in Nat \ {0}
  BY <1>1, FS_CardinalityType, FS_EmptySet
<1>4. x \in g[L - 1] /\ d \in DOMAIN stitched /\ L - 1 \in Nat
  BY <1>1, <1>2, <1>3 DEF Auxiliaries
<1> HIDE DEF L
<1> DEFINE Near(n, y) == \E p \in Seq(Keys) : p # <<>> /\ Len(p) <= n + 1 /\ LandsAt(d, p) = y
           T == {n \in 0..(L - 1) : \A y \in g[n] : y \in Auxiliaries /\ Near(n, y)}
<1>5. 0 \in T
  <2> SUFFICES ASSUME NEW y \in Onward[d] PROVE y \in Auxiliaries /\ Near(0, y)
    BY <1>2, <1>3
  <2>1. PICK k \in Keys : Follows(d, k) /\ Step(d, k) = y
    BY OnwardFacts
  <2>2. PICK e : e = <<>>
    OBVIOUS
  <2>3. e \in Seq(Keys) /\ Len(e) = 0 /\ LandsAt(d, e) = d
    BY <1>4, <2>2, LandsFacts
  <2>4. LandsAt(d, Append(e, k)) = OneOn(d, k)
    BY <1>4, <2>3, LandsFacts
  <2>5. d # None
    BY <1>4 DEF StitchedKeyed
  <2>6. LandsAt(d, Append(e, k)) = y
    BY <2>1, <2>4, <2>5 DEF OneOn
  <2>7. PICK p : p = Append(e, k)
    OBVIOUS
  <2>8. p \in Seq(Keys) /\ p # <<>> /\ Len(p) = Len(e) + 1
    BY <2>3, <2>7, AppendFacts
  <2>9. Len(p) <= 0 + 1
    BY <2>3, <2>8
  <2>10. Near(0, y)
    BY <2>6, <2>7, <2>8, <2>9
  <2>. QED
    BY <1>1, <2>10
<1>6. ASSUME NEW n \in 0..((L - 1) - 1), n \in T PROVE n + 1 \in T
  <2> SUFFICES ASSUME NEW y \in g[n + 1] PROVE y \in Auxiliaries /\ Near(n + 1, y)
    BY <1>3
  <2>1. n \in 0..(L - 1) /\ n \in Nat
    BY <1>3
  <2>2. y \in g[n] \/ \E z \in g[n] : y \in Onward[z]
    BY <1>2, <2>1
  <2>3. CASE y \in g[n]
    <3>1. y \in Auxiliaries /\ Near(n, y)
      BY <1>6, <2>3
    <3>2. PICK p \in Seq(Keys) : p # <<>> /\ Len(p) <= n + 1 /\ LandsAt(d, p) = y
      BY <3>1
    <3>3. Len(p) \in Nat /\ Len(p) <= (n + 1) + 1
      BY <2>1, <3>2, LenProperties
    <3>. QED
      BY <3>1, <3>2, <3>3
  <2>4. ASSUME NEW z \in g[n], y \in Onward[z] PROVE y \in Auxiliaries /\ Near(n + 1, y)
    <3>1. z \in Auxiliaries /\ Near(n, z)
      BY <1>6
    <3>2. PICK p \in Seq(Keys) : p # <<>> /\ Len(p) <= n + 1 /\ LandsAt(d, p) = z
      BY <3>1
    <3>3. PICK k \in Keys : Follows(z, k) /\ Step(z, k) = y
      BY <2>4, <3>1, OnwardFacts
    <3>4. LandsAt(d, Append(p, k)) = OneOn(z, k)
      BY <1>4, <3>2, LandsFacts
    <3>5. z # None
      BY <3>1 DEF StitchedKeyed, Auxiliaries
    <3>6. LandsAt(d, Append(p, k)) = y
      BY <3>3, <3>4, <3>5 DEF OneOn
    <3>7. /\ Append(p, k) \in Seq(Keys) /\ Append(p, k) # <<>>
          /\ Len(Append(p, k)) = Len(p) + 1 /\ Len(p) \in Nat
      BY AppendFacts
    <3>8. Len(Append(p, k)) <= (n + 1) + 1
      BY <2>1, <3>2, <3>7
    <3>9. y \in Auxiliaries
      BY <1>1, <2>4, <3>1
    <3>. QED
      BY <3>6, <3>7, <3>8, <3>9
  <2>. QED
    BY <2>2, <2>3, <2>4
<1>7. L - 1 \in T
  <2> HIDE DEF T
  <2>1. 0..(L - 1) \subseteq T
    BY <1>4, <1>5, <1>6, IntervalByStep
  <2>. QED
    BY <1>4, <2>1
<1>8. Near(L - 1, x)
  BY <1>4, <1>7
<1>9. PICK p \in Seq(Keys) : p # <<>> /\ Len(p) <= (L - 1) + 1 /\ LandsAt(d, p) = x
  BY <1>8
<1>10. Len(p) <= L
  BY <1>3, <1>9
<1>. QED
  BY <1>9, <1>10 DEF L

\* The paths considered are long enough to tell who is on a cycle.
LEMMA SourcesAcyclic ==
    ASSUME StitchedKeyed, NEW d \in Auxiliaries
    PROVE  IsCyclic(d) <=> d \notin Sources
<1>1. d \notin Sources <=> d \in ReachedAlong(Onward, Onward[d])
  BY OnwardFacts DEF Sources
<1>2. d # None
  BY DEF Auxiliaries, StitchedKeyed
<1>3. ASSUME IsCyclic(d) PROVE d \in ReachedAlong(Onward, Onward[d])
  <2>1. PICK p \in Paths : p # <<>> /\ LandsAt(d, p) = d
    BY <1>3 DEF IsCyclic
  <2>2. p \in Seq(Keys)
    <3>1. Cardinality(Auxiliaries) \in Nat
      BY OnwardFacts, FS_CardinalityType
    <3>2. PICK n \in 0..Cardinality(Auxiliaries) : p \in [1..n -> Keys]
      BY DEF Paths
    <3>. QED
      BY <3>1, <3>2
  <2>. QED
    BY <1>2, <2>1, <2>2, LandingReached
<1>4. ASSUME d \in ReachedAlong(Onward, Onward[d]) PROVE IsCyclic(d)
  <2>1. PICK p \in Seq(Keys) : p # <<>> /\ Len(p) <= Cardinality(Auxiliaries) /\ LandsAt(d, p) = d
    BY <1>4, ReachedLanding
  <2>2. p \in Paths
    <3>1. Cardinality(Auxiliaries) \in Nat
      BY OnwardFacts, FS_CardinalityType
    <3>2. Len(p) \in Nat /\ p \in [1..Len(p) -> Keys]
      BY LenProperties
    <3>3. Len(p) \in 0..Cardinality(Auxiliaries)
      BY <2>1, <3>1, <3>2
    <3>. QED
      BY <3>2, <3>3 DEF Paths
  <2>. QED
    BY <2>1, <2>2 DEF IsCyclic
<1>. QED
  BY <1>1, <1>3, <1>4

-----------------------------------------------------------------------------
\* What is inlined, by $refs: from the schema a path leads to, the $refs to sources
\* are.
Inlines(d, r) == /\ stitched[d].kind # "opaque" /\ r.bare
                 /\ r.to \in Sources /\ stitched[r.to].kind # "opaque"

LEMMA InlinedRef ==
    ASSUME StitchedKeyed, NEW c \in DOMAIN stitched, NEW p \in Seq(Keys), InlinedAt(c, p),
           NEW r \in stitched[LandsAt(c, p)].refs
    PROVE  /\ LandsAt(c, p) \in DOMAIN stitched
           /\ p \o r.at \in Seq(Keys) /\ Len(p \o r.at) = Len(p) + 1
           /\ InlinedAt(c, p \o r.at) <=> Inlines(LandsAt(c, p), r)
           /\ InlinedAt(c, p \o r.at) => LandsAt(c, p \o r.at) = r.to
<1> DEFINE d == LandsAt(c, p)
           k == Head(r.at)
<1>1. d \in DOMAIN stitched
  BY InlinedFacts
<1>2. /\ k \in Keys /\ r.at = <<k>> /\ Step(d, k) = r.to
      /\ Follows(d, k) <=> /\ stitched[d].kind # "opaque" /\ r.bare
                           /\ r.to \in Auxiliaries /\ stitched[r.to].kind # "opaque"
  BY <1>1, KeyGiven
<1> HIDE DEF k
<1>3. p \o r.at = Append(p, k)
  BY <1>2, AppendIsConcat
<1>4. Append(p, k) \in Seq(Keys) /\ Len(Append(p, k)) = Len(p) + 1
  BY <1>2, AppendProperties
<1>5. /\ InlinedAt(c, Append(p, k)) <=> Goes(d, k)
      /\ InlinedAt(c, Append(p, k)) => LandsAt(c, Append(p, k)) = Step(d, k)
  BY <1>2, InlinedFacts
<1>6. Goes(d, k) <=> Inlines(d, r)
  <2>1. ASSUME r.to \in Auxiliaries PROVE ~IsCyclic(r.to) <=> r.to \in Sources
    BY <2>1, SourcesAcyclic
  <2>2. Sources \subseteq Auxiliaries
    BY DEF Sources
  <2>. QED
    BY <1>2, <2>1, <2>2 DEF Goes, Inlines
<1> HIDE DEF d
<1>. QED
  BY <1>1, <1>2, <1>3, <1>4, <1>5, <1>6 DEF d

LEMMA InlinedLast ==
    ASSUME StitchedKeyed, NEW c \in DOMAIN stitched, NEW w \in Seq(Keys), InlinedAt(c, w), w # <<>>
    PROVE  /\ LandsAt(c, w) \in Sources /\ stitched[LandsAt(c, w)].kind # "opaque"
           /\ \E p \in Seq(Keys) : /\ InlinedAt(c, p) /\ Len(w) = Len(p) + 1 /\ Len(p) \in Nat
                                   /\ \E r \in stitched[LandsAt(c, p)].refs : w = p \o r.at
<1> DEFINE p == Front(w)
           k == Last(w)
<1>1. p \in Seq(Keys) /\ k \in Keys /\ w = Append(p, k) /\ Len(p) = Len(w) - 1 /\ Len(w) \in Nat \ {0}
  BY FrontFacts
<1> HIDE DEF p, k
<1>2. InlinedAt(c, p) /\ Goes(LandsAt(c, p), k)
  BY <1>1, InlinedFacts
<1>3. LandsAt(c, p) \in DOMAIN stitched
  BY <1>1, <1>2, InlinedFacts
<1>4. PICK r \in stitched[LandsAt(c, p)].refs : r.at = <<k>>
  BY <1>2, <1>3, HopFacts DEF Goes
<1>5. w = p \o r.at
  BY <1>1, <1>4, AppendIsConcat
<1>6. Inlines(LandsAt(c, p), r) /\ LandsAt(c, w) = r.to
  BY <1>1, <1>2, <1>5, InlinedRef
<1>7. Len(w) = Len(p) + 1 /\ Len(p) \in Nat
  BY <1>1
<1>. QED
  BY <1>1, <1>2, <1>5, <1>6, <1>7 DEF Inlines

\* An opaque schema is a whole: nothing is inlined into it.
LEMMA InlinedKind ==
    ASSUME StitchedKeyed, NEW c \in DOMAIN stitched, NEW w \in Seq(Keys), InlinedAt(c, w), w # <<>>
    PROVE  stitched[c].kind # "opaque"
<1>1. Len(w) \in Nat \ {0} /\ 1 \in 0..Len(w)
  BY EmptySeq
<1> DEFINE q == Beginning(w, 1)
<1>2. q \in Seq(Keys) /\ InlinedAt(c, q) /\ Len(q) = 1
  BY <1>1, InlinedPrefix
<1> HIDE DEF q
<1>3. q # <<>>
  <2>1. Len(q) # 0
    BY <1>2
  <2>. QED
    BY <1>2, <2>1, EmptySeq
<1>4. PICK p \in Seq(Keys) : /\ InlinedAt(c, p) /\ Len(q) = Len(p) + 1 /\ Len(p) \in Nat
                             /\ \E r \in stitched[LandsAt(c, p)].refs : q = p \o r.at
  BY <1>2, <1>3, InlinedLast
<1>8. PICK r \in stitched[LandsAt(c, p)].refs : q = p \o r.at
  BY <1>4
<1>5. p = <<>>
  BY <1>2, <1>4, EmptySeq
<1>6. LandsAt(c, p) = c
  BY <1>5, LandsFacts
<1>7. Inlines(LandsAt(c, p), r)
  BY <1>2, <1>4, <1>8, InlinedRef
<1>. QED
  BY <1>6, <1>7 DEF Inlines

\* An inlined path passes no source twice.
LEMMA InlinedBounded ==
    ASSUME StitchedKeyed, NEW c \in DOMAIN stitched, NEW w \in Seq(Keys), InlinedAt(c, w)
    PROVE  /\ Len(w) \in Nat /\ Cardinality(Sources) \in Nat /\ Len(w) <= Cardinality(Sources)
           /\ w \in Paths
<1> DEFINE N == Len(w)
           f == [i \in 1..N |-> LandsAt(c, Beginning(w, i))]
<1>1. N \in Nat
  BY LenProperties
<1>2. Sources \subseteq Auxiliaries /\ Auxiliaries \subseteq DOMAIN stitched
      /\ IsFiniteSet(Auxiliaries) /\ None \notin Sources
  BY OnwardFacts DEF Sources, StitchedKeyed
<1>3. ASSUME NEW i \in 1..N
      PROVE  /\ Beginning(w, i) \in Seq(Keys) /\ Len(Beginning(w, i)) = i /\ InlinedAt(c, Beginning(w, i))
             /\ LandsAt(c, Beginning(w, i)) \in Sources
  <2>1. i \in 0..Len(w) /\ i # 0
    BY <1>1
  <2>2. Beginning(w, i) \in Seq(Keys) /\ Len(Beginning(w, i)) = i /\ InlinedAt(c, Beginning(w, i))
    BY <2>1, InlinedPrefix
  <2>3. Beginning(w, i) # <<>>
    <3>1. Len(Beginning(w, i)) # 0
      BY <2>1, <2>2
    <3>. QED
      BY <2>2, <3>1, EmptySeq
  <2>. QED
    BY <2>2, <2>3, InlinedLast
<1>4. f \in [1..N -> Sources]
  BY <1>3
<1>5. ASSUME NEW i \in 1..N, NEW j \in 1..N, i < j PROVE f[i] # f[j]
  <2> DEFINE p == Beginning(w, j)
             a == Beginning(p, i)
             y == Rest(p, i)
             d == LandsAt(c, p)
  <2>1. p \in Seq(Keys) /\ Len(p) = j /\ InlinedAt(c, p) /\ d \in Sources
    BY <1>3
  <2>2. i \in 0..Len(p)
    BY <1>1, <1>5, <2>1
  <2>3. a = Beginning(w, i)
    <3>1. j \in 0..Len(w) /\ i \in 0..j
      BY <1>1, <1>5
    <3>. QED
      BY <3>1, BeginningTwice
  <2> HIDE DEF p
  <2>4. /\ a \in Seq(Keys) /\ y \in Seq(Keys) /\ Len(y) = Len(p) - i /\ p = a \o y /\ InlinedAt(c, a)
    BY <2>1, <2>2, InlinedPrefix
  <2>5. f[i] = LandsAt(c, a) /\ f[j] = d
    BY <2>3 DEF p
  <2> HIDE DEF f, a, y
  <2>6. LandsAt(c, a \o y) = LandsAt(LandsAt(c, a), y)
    BY <2>1, <2>4, InlinedConcat
  <2>7. ASSUME f[i] = f[j] PROVE FALSE
    <3>1. d = LandsAt(d, y)
      BY <2>4, <2>5, <2>6, <2>7
    <3>2. y # <<>>
      <4>1. Len(y) # 0
        BY <1>1, <1>5, <2>1, <2>4
      <4>. QED
        BY <2>4, <4>1, EmptySeq
    <3> HIDE DEF d
    <3>3. d \in Auxiliaries /\ d # None /\ d \in Sources
      BY <1>2, <2>1
    <3>4. d \in ReachedAlong(Onward, Onward[d])
      BY <2>4, <3>1, <3>2, <3>3, LandingReached
    <3>5. d \notin Sources
      BY <3>3, <3>4, OnwardFacts DEF Sources
    <3>. QED
      BY <3>3, <3>5
  <2>. QED
    BY <2>7
<1> HIDE DEF f
<1>6. f \in Injection(1..N, Sources)
  <2>1. ASSUME NEW i \in 1..N, NEW j \in 1..N, i # j PROVE f[i] # f[j]
    <3>1. i < j \/ j < i
      BY <1>1, <2>1
    <3>. QED
      BY <1>5, <3>1
  <2>2. IsInjective(f)
    BY <1>4, <2>1 DEF IsInjective
  <2>. QED
    BY <1>4, <2>2 DEF Injection
<1>7. /\ IsFiniteSet(Sources) /\ Cardinality(Sources) \in Nat
      /\ Cardinality(Sources) <= Cardinality(Auxiliaries) /\ Cardinality(Auxiliaries) \in Nat
  BY <1>2, FS_Subset, FS_CardinalityType
<1>8. N <= Cardinality(Sources)
  <2> HIDE DEF N
  <2>1. Cardinality(1..N) = N /\ IsFiniteSet(1..N)
    BY <1>1, FS_Interval
  <2>2. Cardinality(1..N) <= Cardinality(Sources)
    BY <1>6, <1>7, <2>1, FS_Injection
  <2>. QED
    BY <2>1, <2>2
<1>9. w \in Paths
  <2>1. w \in [1..N -> Keys]
    BY LenProperties
  <2>2. N \in 0..Cardinality(Auxiliaries)
    BY <1>1, <1>7, <1>8
  <2>. QED
    BY <2>1, <2>2 DEF Paths
<1>. QED
  BY <1>1, <1>7, <1>8, <1>9

-----------------------------------------------------------------------------
\* A schema inlined to a depth: the shapes at the ends of the paths up to it, and
\* the $refs that lead beyond.
UpTo(c, depth) == {p \in Seq(Keys) : InlinedAt(c, p) /\ Len(p) <= depth}
ShapeOf(c, depth, z) ==
    \E p \in UpTo(c, depth) : \E s \in stitched[LandsAt(c, p)].parts : z = <<p, s[2]>>
RefBeyond(c, depth, z) ==
    \E p \in UpTo(c, depth) : \E r \in stitched[LandsAt(c, p)].refs :
        p \o r.at \notin UpTo(c, depth) /\ z = Ref(p \o r.at, r.to, r.bare)
Expanded(body, c, depth) ==
    /\ IsBody(body)
    /\ body.kind = stitched[c].kind
    /\ \A z : z \in body.parts <=> ShapeOf(c, depth, z)
    /\ \A z : z \in body.refs <=> RefBeyond(c, depth, z)

LEMMA StitchedExpanded ==
    ASSUME StitchedKeyed, NEW c \in DOMAIN stitched
    PROVE  Expanded(stitched[c], c, 0)
<1> DEFINE b == stitched[c]
<1>1. PICK e : e = <<>>
  OBVIOUS
<1>2. e \in Seq(Keys) /\ Len(e) = 0 /\ InlinedAt(c, e) /\ LandsAt(c, e) = c
  BY <1>1, InlinedFacts, LandsFacts
<1>3. UpTo(c, 0) = {e}
  <2>1. ASSUME NEW p \in Seq(Keys), Len(p) <= 0 PROVE p = e
    <3>1. Len(p) = 0
      BY <2>1, LenProperties
    <3>. QED
      BY <1>1, <3>1, EmptySeq
  <2>2. \A p : p \in UpTo(c, 0) <=> p \in Seq(Keys) /\ InlinedAt(c, p) /\ Len(p) <= 0
    BY DEF UpTo
  <2>3. e \in UpTo(c, 0)
    <3>1. Len(e) <= 0
      BY <1>2
    <3>. QED
      BY <1>2, <2>2, <3>1
  <2>. QED
    BY <2>1, <2>2, <2>3
<1>4. IsBody(b) /\ \A s \in b.parts : s = <<e, s[2]>>
  BY <1>1 DEF StitchedKeyed, Keyed
<1>5. ASSUME NEW r \in b.refs
      PROVE  e \o r.at \notin UpTo(c, 0) /\ r = Ref(e \o r.at, r.to, r.bare)
  <2>1. r.at \in Seq(Keys) /\ r.at # <<>> /\ r = Ref(r.at, r.to, r.bare)
    BY KeyPath
  <2>2. e \o r.at = r.at
    BY <1>1, <2>1, ConcatEmptySeq
  <2>. QED
    BY <1>1, <1>3, <2>1, <2>2
<1>6. stitched[LandsAt(c, e)] = b
  BY <1>2
<1> HIDE DEF b
<1>7. \A z : z \in b.parts <=> ShapeOf(c, 0, z)
  BY <1>3, <1>4, <1>6 DEF ShapeOf
<1>8. \A z : z \in b.refs <=> RefBeyond(c, 0, z)
  BY <1>3, <1>5, <1>6 DEF RefBeyond
<1>9. b.kind = stitched[c].kind
  BY DEF b
<1>10. Expanded(b, c, 0)
  BY <1>4, <1>7, <1>8, <1>9 DEF Expanded
<1>. QED
  BY <1>10 DEF b

\* What a round inlines into an expanded schema: the paths one key longer.
LEMMA RoundInlines ==
    ASSUME StitchedKeyed, NEW W, DOMAIN W = DOMAIN stitched, NEW depth \in Nat,
           \A a \in DOMAIN stitched : Expanded(W[a], a, depth), NEW c \in DOMAIN stitched
    PROVE  LET inlined == Inlinable(W[c], Restrict(W, Sources)) IN
           /\ \A x \in W[c].refs : x.at \in Seq(Keys) /\ (x \in inlined <=> InlinedAt(c, x.at))
           /\ \A x \in inlined : /\ x.at \in Seq(Keys) /\ Len(x.at) = depth + 1 /\ InlinedAt(c, x.at)
                                 /\ LandsAt(c, x.at) = x.to /\ x.to \in Sources /\ x.to \in DOMAIN stitched
           /\ \A n \in Seq(Keys) : InlinedAt(c, n) /\ Len(n) = depth + 1 => \E x \in inlined : x.at = n
<1> DEFINE aux == Restrict(W, Sources)
           inlined == Inlinable(W[c], aux)
<1>1. Sources \subseteq DOMAIN stitched
  BY DEF Sources, Auxiliaries
<1>2. DOMAIN aux = Sources /\ \A a \in Sources : aux[a] = W[a] /\ aux[a].kind = stitched[a].kind
  BY <1>1 DEF Restrict, Expanded
<1> HIDE DEF aux
<1>3. /\ W[c].kind = stitched[c].kind
      /\ \A z : z \in W[c].refs <=> RefBeyond(c, depth, z)
  BY DEF Expanded
<1>4. ASSUME NEW p \in UpTo(c, depth), NEW r \in stitched[LandsAt(c, p)].refs, NEW x, x = Ref(p \o r.at, r.to, r.bare)
      PROVE  /\ x.at = p \o r.at /\ x.at \in Seq(Keys) /\ Len(x.at) = Len(p) + 1 /\ x.to = r.to
             /\ x \in W[c].refs => (x \in inlined <=> InlinedAt(c, x.at))
             /\ InlinedAt(c, x.at) => LandsAt(c, x.at) = x.to /\ x.to \in Sources
  <2> DEFINE d == LandsAt(c, p)
  <2>1. x.at = p \o r.at /\ x.to = r.to /\ x.bare = r.bare
    BY <1>4 DEF Ref
  <2>2. p \in Seq(Keys) /\ InlinedAt(c, p)
    BY DEF UpTo
  <2>3. /\ x.at \in Seq(Keys) /\ Len(x.at) = Len(p) + 1
        /\ InlinedAt(c, x.at) <=> Inlines(d, r)
        /\ InlinedAt(c, x.at) => LandsAt(c, x.at) = r.to
    BY <2>1, <2>2, InlinedRef
  <2>4. stitched[c].kind # "opaque" <=> stitched[d].kind # "opaque"
    <3>1. CASE p = <<>>
      BY <3>1, LandsFacts
    <3>2. CASE p # <<>>
      BY <2>2, <3>2, InlinedKind, InlinedLast
    <3>. QED
      BY <3>1, <3>2
  <2> HIDE DEF d
  <2>5. x \in W[c].refs => (x \in inlined <=> Inlines(d, r))
    BY <1>2, <1>3, <2>1, <2>4 DEF Inlinable, Inlines
  <2>. QED
    BY <2>1, <2>3, <2>5 DEF Inlines
<1> HIDE DEF inlined
<1>5. ASSUME NEW x \in W[c].refs
      PROVE  \E p \in UpTo(c, depth) : \E r \in stitched[LandsAt(c, p)].refs :
                x = Ref(p \o r.at, r.to, r.bare) /\ p \o r.at \notin UpTo(c, depth)
  BY <1>3 DEF RefBeyond
<1>6. inlined \subseteq W[c].refs
  BY DEF Inlinable, inlined
<1>7. \A x \in W[c].refs : x.at \in Seq(Keys) /\ (x \in inlined <=> InlinedAt(c, x.at))
  BY <1>4, <1>5
<1>8. ASSUME NEW x \in inlined
      PROVE  /\ x.at \in Seq(Keys) /\ Len(x.at) = depth + 1 /\ InlinedAt(c, x.at)
             /\ LandsAt(c, x.at) = x.to /\ x.to \in Sources /\ x.to \in DOMAIN stitched
  <2>1. PICK p, r :
           /\ p \in UpTo(c, depth) /\ r \in stitched[LandsAt(c, p)].refs
           /\ x = Ref(p \o r.at, r.to, r.bare) /\ p \o r.at \notin UpTo(c, depth)
    BY <1>5, <1>6
  <2>2. /\ x.at = p \o r.at /\ x.at \in Seq(Keys) /\ Len(x.at) = Len(p) + 1
        /\ InlinedAt(c, x.at) /\ LandsAt(c, x.at) = x.to /\ x.to \in Sources
    BY <1>4, <1>6, <2>1
  <2>3. ~(Len(x.at) <= depth)
    BY <2>1, <2>2 DEF UpTo
  <2>4. Len(p) \in Nat /\ Len(p) <= depth
    BY <2>1, LenProperties DEF UpTo
  <2>5. Len(x.at) = depth + 1
    BY <2>2, <2>3, <2>4
  <2>. QED
    BY <1>1, <2>2, <2>5
<1>9. ASSUME NEW n \in Seq(Keys), InlinedAt(c, n), Len(n) = depth + 1 PROVE \E x \in inlined : x.at = n
  <2>1. n # <<>>
    <3>1. Len(n) # 0
      BY <1>9
    <3>. QED
      BY <3>1, EmptySeq
  <2>8. PICK p \in Seq(Keys) : /\ InlinedAt(c, p) /\ Len(n) = Len(p) + 1 /\ Len(p) \in Nat
                               /\ \E r \in stitched[LandsAt(c, p)].refs : n = p \o r.at
    BY <1>9, <2>1, InlinedLast
  <2>2. PICK r \in stitched[LandsAt(c, p)].refs : n = p \o r.at
    BY <2>8
  <2>3. p \in UpTo(c, depth) /\ n \notin UpTo(c, depth)
    BY <1>9, <2>8 DEF UpTo
  <2> DEFINE x == Ref(p \o r.at, r.to, r.bare)
  <2>4. x \in W[c].refs
    <3>1. RefBeyond(c, depth, x)
      BY <2>2, <2>3 DEF RefBeyond
    <3>. QED
      BY <1>3, <3>1
  <2>5. x.at = n
    BY <2>2 DEF Ref
  <2>6. x \in inlined
    BY <1>7, <1>9, <2>4, <2>5
  <2>. QED
    BY <2>5, <2>6
<1>. QED
  BY <1>7, <1>8, <1>9 DEF inlined, aux

\* How the longer paths of the next round begin: with one it inlines.
LEMMA RoundSplits ==
    ASSUME StitchedKeyed, NEW W, DOMAIN W = DOMAIN stitched, NEW depth \in Nat,
           \A a \in DOMAIN stitched : Expanded(W[a], a, depth), NEW c \in DOMAIN stitched
    PROVE  LET inlined == Inlinable(W[c], Restrict(W, Sources)) IN
           /\ \A x \in inlined, y \in Seq(Keys) :
                 /\ x.at \o y \in Seq(Keys)
                 /\ x.at \o y \in UpTo(c, 2 * depth + 1) <=> y \in UpTo(x.to, depth)
                 /\ y \in UpTo(x.to, depth) => LandsAt(c, x.at \o y) = LandsAt(x.to, y)
           /\ \A w \in UpTo(c, 2 * depth + 1) :
                 w \in UpTo(c, depth) \/ \E x \in inlined : \E y \in UpTo(x.to, depth) : w = x.at \o y
           /\ UpTo(c, depth) \subseteq UpTo(c, 2 * depth + 1)
           /\ \A w \in Seq(Keys) : Len(w) <= depth + 1 /\ InlinedAt(c, w) => w \in UpTo(c, 2 * depth + 1)
<1> DEFINE inlined == Inlinable(W[c], Restrict(W, Sources))
<1>1. /\ \A x \in inlined : /\ x.at \in Seq(Keys) /\ Len(x.at) = depth + 1 /\ InlinedAt(c, x.at)
                            /\ LandsAt(c, x.at) = x.to /\ x.to \in Sources /\ x.to \in DOMAIN stitched
      /\ \A n \in Seq(Keys) : InlinedAt(c, n) /\ Len(n) = depth + 1 => \E x \in inlined : x.at = n
  BY RoundInlines
<1> HIDE DEF inlined
<1>2. \A w \in Seq(Keys) : Len(w) \in Nat
  BY LenProperties
<1>3. ASSUME NEW x \in inlined, NEW y \in Seq(Keys)
      PROVE  /\ x.at \o y \in Seq(Keys)
             /\ x.at \o y \in UpTo(c, 2 * depth + 1) <=> y \in UpTo(x.to, depth)
             /\ y \in UpTo(x.to, depth) => LandsAt(c, x.at \o y) = LandsAt(x.to, y)
  <2>1. /\ x.at \o y \in Seq(Keys)
        /\ InlinedAt(c, x.at \o y) <=> InlinedAt(x.to, y)
        /\ InlinedAt(c, x.at \o y) => LandsAt(c, x.at \o y) = LandsAt(x.to, y)
    BY <1>1, InlinedConcat
  <2>2. Len(x.at \o y) = (depth + 1) + Len(y) /\ Len(y) \in Nat
    <3>1. x.at \in Seq(Keys) /\ Len(x.at) = depth + 1
      BY <1>1
    <3>2. Len(x.at \o y) = Len(x.at) + Len(y)
      BY <3>1, ConcatProperties
    <3>. QED
      BY <1>2, <3>1, <3>2
  <2>3. Len(x.at \o y) <= 2 * depth + 1 <=> Len(y) <= depth
    BY <2>2
  <2>. QED
    BY <2>1, <2>3 DEF UpTo
<1>4. ASSUME NEW w \in UpTo(c, 2 * depth + 1), w \notin UpTo(c, depth)
      PROVE  \E x \in inlined : \E y \in UpTo(x.to, depth) : w = x.at \o y
  <2>1. w \in Seq(Keys) /\ InlinedAt(c, w) /\ Len(w) \in Nat /\ ~(Len(w) <= depth)
    BY <1>2, <1>4 DEF UpTo
  <2>2. depth + 1 \in 0..Len(w)
    BY <2>1
  <2> DEFINE n == Beginning(w, depth + 1)
             y == Rest(w, depth + 1)
  <2>3. n \in Seq(Keys) /\ y \in Seq(Keys) /\ w = n \o y /\ Len(n) = depth + 1 /\ InlinedAt(c, n)
    BY <2>1, <2>2, InlinedPrefix
  <2> HIDE DEF n, y
  <2>4. PICK x \in inlined : x.at = n
    BY <1>1, <2>3
  <2>5. y \in UpTo(x.to, depth)
    BY <1>3, <1>4, <2>3, <2>4
  <2>. QED
    BY <2>3, <2>4, <2>5
<1>5. \A w \in Seq(Keys) : Len(w) <= depth + 1 /\ InlinedAt(c, w) => w \in UpTo(c, 2 * depth + 1)
  <2>1. ASSUME NEW w \in Seq(Keys), Len(w) <= depth + 1 PROVE Len(w) <= 2 * depth + 1
    BY <1>2, <2>1
  <2>. QED
    BY <2>1 DEF UpTo
<1>6. UpTo(c, depth) \subseteq UpTo(c, 2 * depth + 1)
  <2>1. ASSUME NEW w \in Seq(Keys), Len(w) <= depth PROVE Len(w) <= 2 * depth + 1
    BY <1>2, <2>1
  <2>. QED
    BY <2>1 DEF UpTo
<1>. QED
  BY <1>3, <1>4, <1>5, <1>6 DEF inlined

LEMMA RefMoved ==
    ASSUME NEW a, NEW n, NEW t, NEW bare, NEW s, s = Ref(a, t, bare)
    PROVE  [s EXCEPT !.at = n \o s.at] = Ref(n \o a, t, bare)
<1>1. s = [at |-> a, to |-> t, bare |-> bare] /\ s.at = a
  BY DEF Ref
<1>2. PICK m : m = n \o a
  OBVIOUS
<1>3. [s EXCEPT !.at = m] = [at |-> m, to |-> t, bare |-> bare]
  BY <1>1
<1>. QED
  BY <1>1, <1>2, <1>3 DEF Ref

\* A round inlines what every schema is inlined to into every schema.
LEMMA RoundExpands ==
    ASSUME StitchedKeyed, NEW W, DOMAIN W = DOMAIN stitched, NEW depth \in Nat,
           \A a \in DOMAIN stitched : Expanded(W[a], a, depth), NEW c \in DOMAIN stitched
    PROVE  Expanded(SubstituteAux(W[c], Restrict(W, Sources)), c, 2 * depth + 1)
<1> DEFINE aux == Restrict(W, Sources)
           inlined == Inlinable(W[c], aux)
           next == 2 * depth + 1
           b == SubstituteAux(W[c], aux)
           brought == UNION {{<<r.at \o p[1], p[2]>> : p \in aux[r.to].parts} : r \in inlined}
           Moved(r) == {[s EXCEPT !.at = r.at \o s.at] : s \in aux[r.to].refs}
           left == UNION {Moved(r) : r \in inlined}
<1>1. /\ IsBody(W[c])
      /\ \A z : z \in W[c].parts <=> ShapeOf(c, depth, z)
      /\ \A z : z \in W[c].refs <=> RefBeyond(c, depth, z)
  BY DEF Expanded
<1>2. /\ DOMAIN b = {"kind", "parts", "refs"} /\ b.kind = stitched[c].kind
      /\ b.parts = W[c].parts \cup brought /\ b.refs = (W[c].refs \ inlined) \cup left
  BY <1>1 DEF SubstituteAux, IsBody, Expanded
<1>3. /\ Sources \subseteq DOMAIN stitched
      /\ \A a \in Sources : aux[a] = W[a]
  BY DEF Restrict, Sources, Auxiliaries
<1>4. /\ \A x \in W[c].refs : x.at \in Seq(Keys) /\ (x \in inlined <=> InlinedAt(c, x.at))
      /\ \A x \in inlined : /\ x.at \in Seq(Keys) /\ Len(x.at) = depth + 1 /\ InlinedAt(c, x.at)
                            /\ LandsAt(c, x.at) = x.to /\ x.to \in Sources /\ x.to \in DOMAIN stitched
  BY RoundInlines
<1>5. /\ \A x \in inlined, y \in Seq(Keys) :
            /\ x.at \o y \in Seq(Keys)
            /\ x.at \o y \in UpTo(c, next) <=> y \in UpTo(x.to, depth)
            /\ y \in UpTo(x.to, depth) => LandsAt(c, x.at \o y) = LandsAt(x.to, y)
      /\ \A w \in UpTo(c, next) :
            w \in UpTo(c, depth) \/ \E x \in inlined : \E y \in UpTo(x.to, depth) : w = x.at \o y
      /\ UpTo(c, depth) \subseteq UpTo(c, next)
      /\ \A w \in Seq(Keys) : Len(w) <= depth + 1 /\ InlinedAt(c, w) => w \in UpTo(c, next)
  BY RoundSplits
<1>6. ASSUME NEW x \in inlined
      PROVE  /\ \A z : z \in aux[x.to].parts <=> ShapeOf(x.to, depth, z)
             /\ \A z : z \in aux[x.to].refs <=> RefBeyond(x.to, depth, z)
  BY <1>3, <1>4 DEF Expanded
<1> HIDE DEF aux, inlined, next, b
<1>7. ASSUME NEW z
      PROVE  z \in brought <=> \E x \in inlined : \E t \in aux[x.to].parts : z = <<x.at \o t[1], t[2]>>
  <2>1. ASSUME z \in brought
        PROVE  \E x \in inlined : \E t \in aux[x.to].parts : z = <<x.at \o t[1], t[2]>>
    <3>1. PICK x \in inlined : z \in {<<x.at \o t[1], t[2]>> : t \in aux[x.to].parts}
      BY <2>1
    <3>. QED
      BY <3>1
  <2>2. ASSUME NEW x \in inlined, NEW t \in aux[x.to].parts, z = <<x.at \o t[1], t[2]>>
        PROVE  z \in brought
    <3>1. z \in {<<x.at \o u[1], u[2]>> : u \in aux[x.to].parts}
      BY <2>2
    <3>. QED
      BY <3>1
  <2> HIDE DEF brought
  <2>. QED
    BY <2>1, <2>2
<1>8. ASSUME NEW z
      PROVE  z \in left <=> \E x \in inlined : \E s \in aux[x.to].refs : z = [s EXCEPT !.at = x.at \o s.at]
  <2>1. ASSUME z \in left
        PROVE  \E x \in inlined : \E s \in aux[x.to].refs : z = [s EXCEPT !.at = x.at \o s.at]
    <3>1. PICK x \in inlined : z \in Moved(x)
      BY <2>1
    <3>. QED
      BY <3>1
  <2>2. ASSUME NEW x \in inlined, NEW s \in aux[x.to].refs, z = [s EXCEPT !.at = x.at \o s.at]
        PROVE  z \in left
    <3>1. z \in Moved(x)
      BY <2>2
    <3> HIDE DEF Moved
    <3>. QED
      BY <3>1
  <2> HIDE DEF left
  <2>. QED
    BY <2>1, <2>2
<1> HIDE DEF brought, left
<1>9. ASSUME NEW z PROVE z \in b.parts <=> ShapeOf(c, next, z)
  <2>1. ASSUME z \in W[c].parts PROVE ShapeOf(c, next, z)
    BY <1>1, <1>5, <2>1 DEF ShapeOf
  <2>2. ASSUME z \in brought PROVE ShapeOf(c, next, z)
    <3>1. PICK x \in inlined : \E t \in aux[x.to].parts : z = <<x.at \o t[1], t[2]>>
      BY <1>7, <2>2
    <3>2. PICK t \in aux[x.to].parts : z = <<x.at \o t[1], t[2]>>
      BY <3>1
    <3>3. ShapeOf(x.to, depth, t)
      BY <1>6, <3>2
    <3>4. PICK y \in UpTo(x.to, depth) : \E s \in stitched[LandsAt(x.to, y)].parts : t = <<y, s[2]>>
      BY <3>3 DEF ShapeOf
    <3>5. PICK s \in stitched[LandsAt(x.to, y)].parts : t = <<y, s[2]>>
      BY <3>4
    <3>6. PICK w : w = x.at \o y
      OBVIOUS
    <3>7. y \in Seq(Keys)
      BY <3>4 DEF UpTo
    <3>8. w \in UpTo(c, next) /\ LandsAt(c, w) = LandsAt(x.to, y)
      BY <1>5, <3>4, <3>6, <3>7
    <3>9. z = <<w, s[2]>>
      BY <3>2, <3>5, <3>6
    <3>. QED
      BY <3>5, <3>8, <3>9 DEF ShapeOf
  <2>3. ASSUME ShapeOf(c, next, z), z \notin W[c].parts PROVE z \in brought
    <3>1. PICK w \in UpTo(c, next) : \E s \in stitched[LandsAt(c, w)].parts : z = <<w, s[2]>>
      BY <2>3 DEF ShapeOf
    <3>2. PICK s \in stitched[LandsAt(c, w)].parts : z = <<w, s[2]>>
      BY <3>1
    <3>3. w \notin UpTo(c, depth)
      BY <1>1, <2>3, <3>2 DEF ShapeOf
    <3>4. PICK x \in inlined : \E y \in UpTo(x.to, depth) : w = x.at \o y
      BY <1>5, <3>1, <3>3
    <3>5. PICK y \in UpTo(x.to, depth) : w = x.at \o y
      BY <3>4
    <3>6. y \in Seq(Keys)
      BY <3>5 DEF UpTo
    <3>7. LandsAt(c, w) = LandsAt(x.to, y)
      BY <1>5, <3>5, <3>6
    <3>8. PICK t : t = <<y, s[2]>>
      OBVIOUS
    <3>9. ShapeOf(x.to, depth, t)
      BY <3>2, <3>5, <3>7, <3>8 DEF ShapeOf
    <3>10. t \in aux[x.to].parts
      BY <1>6, <3>9
    <3>11. z = <<x.at \o t[1], t[2]>>
      BY <3>2, <3>5, <3>8
    <3>. QED
      BY <1>7, <3>10, <3>11
  <2>. QED
    BY <1>2, <2>1, <2>2, <2>3
<1>10. ASSUME NEW x \in inlined, NEW y \in UpTo(x.to, depth), NEW r \in stitched[LandsAt(x.to, y)].refs
       PROVE  /\ y \o r.at \in Seq(Keys) /\ x.at \o (y \o r.at) = (x.at \o y) \o r.at
              /\ x.at \o y \in UpTo(c, next) /\ LandsAt(c, x.at \o y) = LandsAt(x.to, y)
              /\ (x.at \o y) \o r.at \in UpTo(c, next) <=> y \o r.at \in UpTo(x.to, depth)
  <2>1. x.at \in Seq(Keys) /\ x.to \in DOMAIN stitched
    BY <1>4
  <2>2. y \in Seq(Keys) /\ InlinedAt(x.to, y)
    BY DEF UpTo
  <2>3. LandsAt(x.to, y) \in DOMAIN stitched
    BY <2>1, <2>2, InlinedFacts
  <2>4. r.at \in Seq(Keys)
    BY <2>3, KeyPath
  <2>5. y \o r.at \in Seq(Keys)
    BY <2>2, <2>4, ConcatProperties
  <2>6. x.at \o (y \o r.at) = (x.at \o y) \o r.at
    <3>1. PICK n, k : n = x.at /\ k = r.at
      OBVIOUS
    <3>2. n \in Seq(Keys) /\ k \in Seq(Keys)
      BY <2>1, <2>4, <3>1
    <3>3. (n \o y) \o k = n \o (y \o k)
      BY <2>2, <3>2, ConcatAssociative
    <3>. QED
      BY <3>1, <3>3
  <2>7. x.at \o (y \o r.at) \in UpTo(c, next) <=> y \o r.at \in UpTo(x.to, depth)
    BY <1>5, <2>5
  <2>. QED
    BY <1>5, <2>2, <2>5, <2>6, <2>7
<1>12. ASSUME NEW z PROVE z \in b.refs <=> RefBeyond(c, next, z)
  <2>1. ASSUME z \in W[c].refs, z \notin inlined PROVE RefBeyond(c, next, z)
    <3>1. PICK p \in UpTo(c, depth) : \E r \in stitched[LandsAt(c, p)].refs : z = Ref(p \o r.at, r.to, r.bare)
      BY <1>1, <2>1 DEF RefBeyond
    <3>2. PICK r \in stitched[LandsAt(c, p)].refs : z = Ref(p \o r.at, r.to, r.bare)
      BY <3>1
    <3>3. z.at = p \o r.at
      BY <3>2 DEF Ref
    <3>4. p \o r.at \notin UpTo(c, next)
      BY <1>4, <2>1, <3>3 DEF UpTo
    <3>. QED
      BY <1>5, <3>1, <3>2, <3>4 DEF RefBeyond
  <2>2. ASSUME z \in left PROVE RefBeyond(c, next, z)
    <3>1. PICK x \in inlined : \E s \in aux[x.to].refs : z = [s EXCEPT !.at = x.at \o s.at]
      BY <1>8, <2>2
    <3>2. PICK s \in aux[x.to].refs : z = [s EXCEPT !.at = x.at \o s.at]
      BY <3>1
    <3>3. RefBeyond(x.to, depth, s)
      BY <1>6, <3>2
    <3>4. PICK y \in UpTo(x.to, depth) :
             \E r \in stitched[LandsAt(x.to, y)].refs :
                 y \o r.at \notin UpTo(x.to, depth) /\ s = Ref(y \o r.at, r.to, r.bare)
      BY <3>3 DEF RefBeyond
    <3>5. PICK r \in stitched[LandsAt(x.to, y)].refs :
             y \o r.at \notin UpTo(x.to, depth) /\ s = Ref(y \o r.at, r.to, r.bare)
      BY <3>4
    <3>10. [s EXCEPT !.at = x.at \o s.at] = Ref(x.at \o (y \o r.at), r.to, r.bare)
      BY <3>5, RefMoved
    <3>6. z = Ref(x.at \o (y \o r.at), r.to, r.bare)
      BY <3>2, <3>10
    <3>7. /\ x.at \o (y \o r.at) = (x.at \o y) \o r.at
          /\ x.at \o y \in UpTo(c, next) /\ LandsAt(c, x.at \o y) = LandsAt(x.to, y)
          /\ (x.at \o y) \o r.at \notin UpTo(c, next)
      BY <1>10, <3>4, <3>5
    <3>8. PICK w : w = x.at \o y
      OBVIOUS
    <3>9. w \in UpTo(c, next) /\ r \in stitched[LandsAt(c, w)].refs
          /\ w \o r.at \notin UpTo(c, next) /\ z = Ref(w \o r.at, r.to, r.bare)
      BY <3>5, <3>6, <3>7, <3>8
    <3>. QED
      BY <3>9 DEF RefBeyond
  <2>3. ASSUME RefBeyond(c, next, z), ~(z \in W[c].refs /\ z \notin inlined) PROVE z \in left
    <3>1. PICK w \in UpTo(c, next) :
             \E r \in stitched[LandsAt(c, w)].refs :
                 w \o r.at \notin UpTo(c, next) /\ z = Ref(w \o r.at, r.to, r.bare)
      BY <2>3 DEF RefBeyond
    <3>2. PICK r \in stitched[LandsAt(c, w)].refs :
             w \o r.at \notin UpTo(c, next) /\ z = Ref(w \o r.at, r.to, r.bare)
      BY <3>1
    <3>3. w \in Seq(Keys) /\ InlinedAt(c, w) /\ z.at = w \o r.at
      BY <3>1, <3>2 DEF UpTo, Ref
    <3>4. w \notin UpTo(c, depth)
      <4> SUFFICES ASSUME w \in UpTo(c, depth) PROVE FALSE
        OBVIOUS
      <4>1. w \o r.at \notin UpTo(c, depth)
        BY <1>5, <3>2
      <4>2. z \in W[c].refs
        BY <1>1, <3>2, <4>1 DEF RefBeyond
      <4>3. z \in inlined
        BY <2>3, <4>2
      <4>4. InlinedAt(c, w \o r.at) /\ Len(w \o r.at) = depth + 1 /\ w \o r.at \in Seq(Keys)
        BY <1>4, <3>3, <4>3
      <4>5. Len(w \o r.at) <= depth + 1
        BY <4>4
      <4>. QED
        BY <1>5, <3>2, <4>4, <4>5
    <3>5. PICK x \in inlined : \E y \in UpTo(x.to, depth) : w = x.at \o y
      BY <1>5, <3>1, <3>4
    <3>6. PICK y \in UpTo(x.to, depth) : w = x.at \o y
      BY <3>5
    <3>7. y \in Seq(Keys)
      BY <3>6 DEF UpTo
    <3>8. LandsAt(c, w) = LandsAt(x.to, y)
      BY <1>5, <3>6, <3>7
    <3>9. r \in stitched[LandsAt(x.to, y)].refs
      BY <3>2, <3>8
    <3>10. x.at \o (y \o r.at) = w \o r.at /\ y \o r.at \notin UpTo(x.to, depth)
      BY <1>10, <3>2, <3>6, <3>9
    <3>11. PICK t : t = Ref(y \o r.at, r.to, r.bare)
      OBVIOUS
    <3>12. RefBeyond(x.to, depth, t)
      BY <3>6, <3>9, <3>10, <3>11 DEF RefBeyond
    <3>13. t \in aux[x.to].refs
      BY <1>6, <3>12
    <3>14. [t EXCEPT !.at = x.at \o t.at] = Ref(x.at \o (y \o r.at), r.to, r.bare)
      <4>1. t.at = y \o r.at
        BY <3>11 DEF Ref
      <4>2. PICK n : n = x.at \o (y \o r.at)
        OBVIOUS
      <4>3. [t EXCEPT !.at = n] = Ref(n, r.to, r.bare)
        BY <3>11 DEF Ref
      <4>. QED
        BY <4>1, <4>2, <4>3
    <3>15. z = [t EXCEPT !.at = x.at \o t.at]
      BY <3>2, <3>10, <3>14
    <3>. QED
      BY <1>8, <3>13, <3>15
  <2>. QED
    BY <1>2, <2>1, <2>2, <2>3
<1>13. IsBody(b)
  <2>1. ASSUME NEW z \in b.refs PROVE DOMAIN z = {"at", "to", "bare"}
    <3>1. RefBeyond(c, next, z)
      BY <1>12
    <3>2. \E x, y, v : z = Ref(x, y, v)
      BY <3>1 DEF RefBeyond
    <3>. QED
      BY <3>2 DEF Ref
  <2>. QED
    BY <1>2, <2>1 DEF IsBody
<1>14. Expanded(b, c, next)
  BY <1>2, <1>9, <1>12, <1>13 DEF Expanded
<1>. QED
  BY <1>14 DEF b, aux, next

\* Where no round has anything left to inline, everything is inlined.
LEMMA AllInlined ==
    ASSUME StitchedKeyed, NEW W, DOMAIN W = DOMAIN stitched, NEW depth \in Nat,
           \A a \in DOMAIN stitched : Expanded(W[a], a, depth), NEW c \in DOMAIN stitched,
           Inlinable(W[c], Restrict(W, Sources)) = {}
    PROVE  UpTo(c, depth) = {p \in Paths : InlinedAt(c, p)}
<1>1. ASSUME NEW p \in Seq(Keys), InlinedAt(c, p) PROVE Len(p) <= depth
  <2> SUFFICES ASSUME ~(Len(p) <= depth) PROVE FALSE
    OBVIOUS
  <2>1. depth + 1 \in 0..Len(p)
    BY LenProperties
  <2>2. /\ Beginning(p, depth + 1) \in Seq(Keys) /\ Len(Beginning(p, depth + 1)) = depth + 1
        /\ InlinedAt(c, Beginning(p, depth + 1))
    BY <1>1, <2>1, InlinedPrefix
  <2>. QED
    BY <2>2, RoundInlines
<1>2. ASSUME NEW p \in Paths PROVE p \in Seq(Keys)
  <2>1. PICK n \in 0..Cardinality(Auxiliaries) : p \in [1..n -> Keys]
    BY DEF Paths
  <2>2. n \in Nat
    BY OnwardFacts, FS_CardinalityType
  <2>. QED
    BY <2>1, <2>2
<1>3. \A p \in Seq(Keys) : InlinedAt(c, p) => p \in Paths
  BY InlinedBounded
<1>. QED
  BY <1>1, <1>2, <1>3 DEF UpTo

\* A round that inlines something is not beyond the last: that follows a path no
\* longer than there are sources.
LEMMA RoundBounded ==
    ASSUME StitchedKeyed, NEW W, DOMAIN W = DOMAIN stitched, NEW depth \in Nat,
           \A a \in DOMAIN stitched : Expanded(W[a], a, depth), NEW c \in DOMAIN stitched,
           Inlinable(W[c], Restrict(W, Sources)) # {}
    PROVE  depth + 1 <= Cardinality(Sources) /\ Cardinality(Sources) \in Nat
<1>1. PICK x \in Inlinable(W[c], Restrict(W, Sources)) : TRUE
  OBVIOUS
<1>2. x.at \in Seq(Keys) /\ Len(x.at) = depth + 1 /\ InlinedAt(c, x.at)
  BY RoundInlines
<1>. QED
  BY <1>2, InlinedBounded

-----------------------------------------------------------------------------
\* Why inlining is exact: every schema is inlined to one depth, at least as deep as
\* the rounds so far; and a document something was stitched for has components.
InliningInv ==
    /\ phase = "collect" => stitched = Empty /\ round = 0
    /\ phase = "inline" =>
          /\ StitchedKeyed /\ round \in Nat
          /\ \E depth \in Nat : round <= depth /\ \A c \in DOMAIN stitched : Expanded(work[c], c, depth)
    /\ phase \in {"inline", "emitted"} /\ stitched # Empty => NodeNames # {}
    /\ phase \in {"wiring", "serving"} /\ stitched # Empty => DOMAIN entries # {}
    /\ InlineIsExact

LEMMA SameLandings ==
    ASSUME UNCHANGED <<in, seen, stitched>>
    PROVE  /\ NodeNames' = NodeNames /\ Auxiliaries' = Auxiliaries /\ Sources' = Sources
           /\ Keys' = Keys /\ Paths' = Paths
           /\ \A c, p : LandsAt(c, p)' = LandsAt(c, p)
           /\ \A c, p : InlinedAt(c, p)' = InlinedAt(c, p)
<1>1. NodeNames' = NodeNames /\ Auxiliaries' = Auxiliaries /\ Keys' = Keys /\ Paths' = Paths
  BY DEF Auxiliaries, NodeNames, Name, Keys, Paths
<1>2. Sources' = Sources
  BY DEF Sources, Auxiliaries, NodeNames, Name, AuxInCycle, Inlinable, ReachedAlong, Restrict
<1>3. ASSUME NEW c, NEW p PROVE LandsAt(c, p)' = LandsAt(c, p)
  BY DEF LandsAt, Follows, Step, Auxiliaries, NodeNames, Name
<1>4. ASSUME NEW c PROVE IsCyclic(c)' = IsCyclic(c)
  BY <1>1, <1>3 DEF IsCyclic
<1>5. ASSUME NEW c, NEW p PROVE InlinedAt(c, p)' = InlinedAt(c, p)
  BY <1>3, <1>4 DEF InlinedAt
<1>. QED
  BY <1>1, <1>2, <1>3, <1>5

LEMMA SameExpansion ==
    ASSUME UNCHANGED <<in, seen, stitched>>, NEW body, NEW c, NEW depth, Expanded(body, c, depth)
    PROVE  Expanded(body, c, depth)'
<1>1. UpTo(c, depth)' = UpTo(c, depth)
  BY SameLandings DEF UpTo
<1>2. \A z : ShapeOf(c, depth, z)' <=> ShapeOf(c, depth, z)
  BY <1>1, SameLandings DEF ShapeOf
<1>3. \A z : RefBeyond(c, depth, z)' <=> RefBeyond(c, depth, z)
  BY <1>1, SameLandings DEF RefBeyond
<1>. QED
  BY <1>2, <1>3 DEF Expanded, IsBody

-----------------------------------------------------------------------------
LEMMA WorldKeys ==
    ASSUME in \in Worlds
    PROVE  /\ \A t \in Types : /\ in.types[t].name # None
                               /\ \A f, g \in FieldsOf(t) : f.key = g.key => f = g
           /\ \A n \in Nodes : /\ Name(n) # None
                               /\ \A e, x \in in.nodes[n].edges : e.key = x.key => e = x
  BY WorldsAssumption DEF IsWorld, FieldsOf, Name

\* The fields of a struct stand below keys of their own.
LEMMA ReflectionKeyed ==
    ASSUME in \in Worlds, NEW t \in Types, NEW ov
    PROVE  Keyed(Reflection(t, ov))
<1> DEFINE b == Reflection(t, ov)
<1>1. /\ DOMAIN b = {"kind", "parts", "refs"} /\ b.parts = {<<<<>>, in.types[t].shape>>}
      /\ b.refs = {Ref(<<f.key>>, DefName(f.type, ov), f.bare) : f \in FieldsOf(t)}
  BY DEF Reflection, Schema
<1> HIDE DEF b
<1>2. ASSUME NEW r \in b.refs
      PROVE  \E f \in FieldsOf(t) : r = Ref(<<f.key>>, DefName(f.type, ov), f.bare)
  BY <1>1
<1>3. ASSUME NEW k, NEW to, NEW bare
      PROVE  Ref(k, to, bare) = [at |-> k, to |-> to, bare |-> bare]
  BY DEF Ref
<1>4. ASSUME NEW r \in b.refs
      PROVE  /\ DOMAIN r = {"at", "to", "bare"} /\ r = Ref(r.at, r.to, r.bare)
             /\ \E f \in FieldsOf(t) : r = Ref(<<f.key>>, DefName(f.type, ov), f.bare) /\ r.at = <<f.key>>
  <2>1. PICK f \in FieldsOf(t) : r = Ref(<<f.key>>, DefName(f.type, ov), f.bare)
    BY <1>2
  <2>2. r.at = <<f.key>> /\ r.to = DefName(f.type, ov) /\ r.bare = f.bare /\ DOMAIN r = {"at", "to", "bare"}
    BY <1>3, <2>1
  <2>. QED
    BY <2>1, <2>2
<1>5. ASSUME NEW r \in b.refs, NEW s \in b.refs, r.at = s.at PROVE r = s
  <2>1. PICK f \in FieldsOf(t) : r = Ref(<<f.key>>, DefName(f.type, ov), f.bare) /\ r.at = <<f.key>>
    BY <1>4
  <2>2. PICK g \in FieldsOf(t) : s = Ref(<<g.key>>, DefName(g.type, ov), g.bare) /\ s.at = <<g.key>>
    BY <1>4
  <2>3. f.key = g.key
    BY <1>5, <2>1, <2>2
  <2>4. f = g
    BY <2>3, WorldKeys
  <2>. QED
    BY <2>1, <2>2, <2>4
<1>6. \A s \in b.parts : s = << <<>>, s[2]>>
  BY <1>1
<1>7. Keyed(b)
  BY <1>1, <1>4, <1>5, <1>6 DEF Keyed, IsBody, KeyedRefs
<1>. QED
  BY <1>7 DEF b

\* An edge takes its key from whatever field has it.
LEMMA StitchKeyed ==
    ASSUME in \in Worlds, NEW n \in Nodes, NEW body, Keyed(body)
    PROVE  Keyed(Stitch(body, n))
<1> DEFINE edges == DocumentedEdges(n)
           kept == {r \in body.refs : Head(r.at) \notin {e.key : e \in edges}}
           added == {EdgeValue(e) : e \in {x \in edges : x.computed => x.schema # None}}
           b == Stitch(body, n)
<1>1. /\ DOMAIN b = {"kind", "parts", "refs"} /\ b.parts = body.parts /\ b.refs = kept \cup added
  BY DEF Stitch, Keyed, IsBody
<1>2. /\ \A r \in body.refs : DOMAIN r = {"at", "to", "bare"} /\ r = Ref(r.at, r.to, r.bare) /\ \E k : r.at = <<k>>
      /\ \A r, s \in body.refs : r.at = s.at => r = s
      /\ \A s \in body.parts : s = << <<>>, s[2]>>
  BY DEF Keyed, IsBody, KeyedRefs
<1>3. ASSUME NEW e \in edges
      PROVE  /\ EdgeValue(e).at = <<e.key>> /\ DOMAIN EdgeValue(e) = {"at", "to", "bare"}
             /\ EdgeValue(e) = Ref(EdgeValue(e).at, EdgeValue(e).to, EdgeValue(e).bare)
  BY DEF EdgeValue, Ref
<1>4. \A e, x \in edges : e.key = x.key => e = x
  BY WorldKeys DEF DocumentedEdges
<1> HIDE DEF b, edges
<1>5. ASSUME NEW r \in added PROVE \E e \in edges : r = EdgeValue(e) /\ r.at = <<e.key>>
  BY <1>3
<1>6. ASSUME NEW r \in kept PROVE r \in body.refs /\ \A e \in edges : r.at # <<e.key>>
  <2>1. ASSUME NEW e \in edges, r.at = <<e.key>> PROVE FALSE
    <3>1. Head(r.at) = e.key
      BY <2>1
    <3>. QED
      BY <3>1
  <2>. QED
    BY <2>1
<1> HIDE DEF kept, added
<1>7. ASSUME NEW r \in b.refs
      PROVE  DOMAIN r = {"at", "to", "bare"} /\ r = Ref(r.at, r.to, r.bare) /\ \E k : r.at = <<k>>
  <2>1. CASE r \in kept
    BY <1>2, <1>6, <2>1
  <2>2. CASE r \in added
    <3>1. PICK e \in edges : r = EdgeValue(e)
      BY <1>5, <2>2
    <3>. QED
      BY <1>3, <3>1
  <2>. QED
    BY <1>1, <2>1, <2>2
<1>8. ASSUME NEW r \in b.refs, NEW s \in b.refs, r.at = s.at PROVE r = s
  <2>1. CASE r \in kept /\ s \in kept
    BY <1>2, <1>6, <1>8, <2>1
  <2>2. CASE r \in added /\ s \in added
    <3>1. PICK e \in edges : r = EdgeValue(e) /\ r.at = <<e.key>>
      BY <1>5, <2>2
    <3>2. PICK x \in edges : s = EdgeValue(x) /\ s.at = <<x.key>>
      BY <1>5, <2>2
    <3>3. e.key = x.key
      BY <1>8, <3>1, <3>2
    <3>. QED
      BY <1>4, <3>1, <3>2, <3>3
  <2>3. CASE r \in kept /\ s \in added
    <3>1. PICK x \in edges : s.at = <<x.key>>
      BY <1>5, <2>3
    <3>. QED
      BY <1>6, <1>8, <2>3, <3>1
  <2>4. CASE r \in added /\ s \in kept
    <3>1. PICK x \in edges : r.at = <<x.key>>
      BY <1>5, <2>4
    <3>. QED
      BY <1>6, <1>8, <2>4, <3>1
  <2>. QED
    BY <1>1, <2>1, <2>2, <2>3, <2>4
<1>9. Keyed(b)
  BY <1>1, <1>2, <1>7, <1>8 DEF Keyed, IsBody, KeyedRefs
<1>. QED
  BY <1>9 DEF b

\* What is reflected and stitched is keyed, and there is a node for it.
LEMMA StitchesKeyed ==
    ASSUME EmitInv, ReflectAndStitch, phase' = "inline"
    PROVE  /\ StitchedKeyed' /\ work' = stitched'
           /\ stitched' # Empty => NodeNames' # {}
<1> DEFINE tops == {Wire(n) : n \in seen}
           out == Reflect(tops, Overrides)
           node(c) == CHOOSE n \in seen : Name(n) = c
<1>1. /\ in \in Worlds /\ seen \subseteq Nodes /\ UNCHANGED <<in, seen>>
      /\ EmitInv'
  BY StitchLeads DEF EmitInv, ReflectAndStitch
<1>2. /\ Nameable
      /\ stitched' = [c \in DOMAIN out |-> IF c \in NodeNames THEN Stitch(out[c], node(c)) ELSE out[c]]
      /\ work' = stitched'
  BY DEF ReflectAndStitch
<1>3. tops \in SUBSET Types
  BY <1>1, <1>2, WorldFacts DEF Nameable
<1>4. /\ Reached(tops) \subseteq Types
      /\ DOMAIN out = {DefName(t, Overrides) : t \in Reached(tops)}
      /\ \A c \in DOMAIN out : \E t \in Reached(tops) : DefName(t, Overrides) = c /\ out[c] = Reflection(t, Overrides)
  BY <1>1, <1>3, ReachedTypes, ReflectFacts DEF Reflect
<1>5. seen = {} => Reached(tops) = {}
  <2> SUFFICES ASSUME seen = {} PROVE Reached(tops) = {}
    OBVIOUS
  <2> DEFINE along == [t \in Types |-> {f.type : f \in FieldsOf(t)}]
  <2>1. tops = {} /\ Reached(tops) = ReachedAlong(along, tops)
    BY DEF Reached
  <2>2. DOMAIN along = Types /\ IsFiniteSet(Types) /\ \A t \in Types : along[t] \subseteq Types
    BY <1>1, WorldFacts
  <2> HIDE DEF along, tops
  <2>. QED
    BY <2>1, <2>2, ReachedFacts
<1> HIDE DEF tops, out
<1>6. IsFiniteSet(DOMAIN out)
  <2> DEFINE all == Reached(tops)
             f == [t \in all |-> DefName(t, Overrides)]
  <2>1. f \in Surjection(all, DOMAIN out)
    <3>1. f \in [all -> DOMAIN out]
      BY <1>4
    <3>2. \A c \in DOMAIN out : \E t \in all : f[t] = c
      BY <1>4
    <3>. QED
      BY <3>1, <3>2 DEF Surjection
  <2>2. IsFiniteSet(all)
    BY <1>1, <1>4, WorldFacts, FS_Subset
  <2>. QED
    BY <2>1, <2>2, FS_Surjection
<1>7. ASSUME NEW t \in Reached(tops) PROVE DefName(t, Overrides) # None
  <2>1. CASE t \in DOMAIN Overrides
    <3>1. \E n \in seen : Wire(n) = t
      BY <2>1 DEF Overrides
    <3> DEFINE m == CHOOSE n \in seen : Wire(n) = t
    <3>2. m \in seen
      BY <3>1
    <3>3. DefName(t, Overrides) = Name(m)
      <4>1. t \in {Wire(n) : n \in seen}
        BY <3>1
      <4>2. Overrides[t] = Name(m)
        BY <4>1 DEF Overrides
      <4>. QED
        BY <2>1, <4>2 DEF DefName
    <3> HIDE DEF m
    <3>. QED
      BY <1>1, <3>2, <3>3, WorldKeys
  <2>2. CASE t \notin DOMAIN Overrides
    BY <1>1, <1>4, <2>2, WorldKeys DEF DefName
  <2>. QED
    BY <2>1, <2>2
<1>8. ASSUME NEW c \in DOMAIN out
      PROVE  Keyed(IF c \in NodeNames THEN Stitch(out[c], node(c)) ELSE out[c])
  <2>1. Keyed(out[c])
    BY <1>1, <1>4, ReflectionKeyed
  <2>2. ASSUME c \in NodeNames PROVE Keyed(Stitch(out[c], node(c)))
    <3>1. node(c) \in seen
      BY <2>2 DEF NodeNames
    <3> HIDE DEF node
    <3>. QED
      BY <1>1, <2>1, <3>1, StitchKeyed
  <2>. QED
    BY <2>1, <2>2
<1> HIDE DEF node
<1>9. DOMAIN stitched' = DOMAIN out /\ \A c \in DOMAIN out : Keyed(stitched'[c])
  BY <1>2, <1>8
<1>10. NodeNames' = NodeNames /\ NodeNames' \subseteq DOMAIN stitched'
  <2>1. NodeNames' \subseteq DOMAIN work'
    BY <1>1 DEF EmitInv
  <2>. QED
    BY <1>1, <1>2, <2>1 DEF NodeNames, Name
<1>11. StitchedKeyed'
  BY <1>4, <1>6, <1>7, <1>9, <1>10 DEF StitchedKeyed, Keyed, IsBody, KeyedRefs
<1>12. ASSUME NodeNames' = {} PROVE stitched' = Empty
  <2>1. seen = {}
    BY <1>10, <1>12 DEF NodeNames
  <2>2. DOMAIN out = {}
    BY <1>4, <1>5, <2>1
  <2>. QED
    BY <1>2, <2>2 DEF Empty
<1>. QED
  BY <1>2, <1>11, <1>12
-----------------------------------------------------------------------------
LEMMA StitchedReady == StitchedKeyed => \A c \in DOMAIN stitched : Expanded(stitched[c], c, 0)
  BY StitchedExpanded

LEMMA InitInlines == Init => InliningInv
  BY DEF Init, EmitInit, InliningInv, InlineIsExact

LEMMA CollectInlines == InliningInv /\ Collect => InliningInv'
  BY DEF Collect, InliningInv, InlineIsExact

LEMMA StitchInlines == EmitInv /\ InliningInv /\ ReflectAndStitch => InliningInv'
<1> SUFFICES ASSUME EmitInv, InliningInv, ReflectAndStitch PROVE InliningInv'
  OBVIOUS
<1>1. phase = "collect" /\ stitched = Empty /\ round = 0 /\ round' = round
  BY DEF InliningInv, ReflectAndStitch
<1>2. CASE phase' = "failed"
  <2>1. stitched' = Empty
    BY <1>1, <1>2 DEF ReflectAndStitch
  <2>. QED
    BY <1>2, <2>1 DEF InliningInv, InlineIsExact, Empty
<1>3. CASE phase' = "inline"
  <2>1. StitchedKeyed' /\ work' = stitched' /\ (stitched' # Empty => NodeNames' # {})
    BY <1>3, StitchesKeyed
  <2>2. (StitchedKeyed => \A c \in DOMAIN stitched : Expanded(stitched[c], c, 0))'
    BY StitchedReady, PTL
  <2>3. (\A c \in DOMAIN stitched : Expanded(work[c], c, 0))'
    BY <2>1, <2>2
  <2>4. (\E depth \in Nat : round <= depth /\ \A c \in DOMAIN stitched : Expanded(work[c], c, depth))'
    <3>1. round' <= 0 /\ 0 \in Nat
      BY <1>1
    <3>. QED
      BY <2>3, <3>1
  <2>5. round' \in Nat
    BY <1>1
  <2>6. InlineIsExact'
    BY <1>3 DEF InlineIsExact
  <2>. QED
    BY <1>3, <2>1, <2>4, <2>5, <2>6 DEF InliningInv, Empty
<1>. QED
  BY <1>2, <1>3 DEF ReflectAndStitch

\* A round that inlines anything is in time, and at least doubles the depth.
LEMMA RoundKeeps == EmitInv /\ InliningInv /\ InlineRound => InliningInv'
<1> SUFFICES ASSUME EmitInv, InliningInv, InlineRound PROVE InliningInv'
  OBVIOUS
<1>1. /\ phase = "inline" /\ StitchedKeyed /\ round \in Nat /\ DOMAIN work = DOMAIN stitched
      /\ UNCHANGED <<in, seen, stitched>>
      /\ stitched # Empty => NodeNames # {}
  BY DEF InliningInv, InlineRound, EmitInv
<1>2. PICK depth \in Nat : round <= depth /\ \A c \in DOMAIN stitched : Expanded(work[c], c, depth)
  BY <1>1 DEF InliningInv
<1>3. PICK c \in DOMAIN stitched : Inlinable(work[c], Restrict(work, Sources)) # {}
  BY <1>1 DEF InlineRound
<1>4. depth + 1 <= Cardinality(Sources) /\ Cardinality(Sources) \in Nat
  BY <1>1, <1>2, <1>3, RoundBounded
<1>5. ~(round >= Cardinality(Sources))
  BY <1>1, <1>2, <1>4
<1>6. phase' = "inline" /\ round' = round + 1
      /\ work' = [d \in DOMAIN work |-> SubstituteAux(work[d], Restrict(work, Sources))]
  BY <1>1, <1>5 DEF InlineRound
<1>7. ASSUME NEW d \in DOMAIN stitched PROVE Expanded(work'[d], d, 2 * depth + 1)
  BY <1>1, <1>2, <1>6, RoundExpands
<1>8. PICK next : next = 2 * depth + 1
  OBVIOUS
<1>9. next \in Nat /\ round' \in Nat /\ round' <= next
  BY <1>1, <1>2, <1>6, <1>8
<1>10. ASSUME NEW d \in DOMAIN stitched' PROVE Expanded(work[d], d, next)'
  <2>1. PICK b : b = work'[d]
    OBVIOUS
  <2>2. Expanded(b, d, next)
    BY <1>1, <1>7, <1>8, <1>10, <2>1
  <2>3. Expanded(b, d, next)'
    BY <1>1, <2>2, SameExpansion
  <2>. QED
    BY <2>1, <2>3 DEF Expanded
<1>11. (\E m \in Nat : round <= m /\ \A d \in DOMAIN stitched : Expanded(work[d], d, m))'
  BY <1>9, <1>10
<1>12. StitchedKeyed'
  BY <1>1 DEF NodeNames, Name, StitchedKeyed, Keyed, KeyedRefs, IsBody
<1>13. stitched' # Empty => NodeNames' # {}
  BY <1>1 DEF NodeNames, Name, Empty
<1>. QED
  BY <1>6, <1>9, <1>11, <1>12, <1>13 DEF InliningInv, InlineIsExact

\* With nothing left to inline, what is kept is the full expansion.
LEMMA PruneInlines == EmitInv /\ InliningInv /\ Prune => InliningInv'
<1> SUFFICES ASSUME EmitInv, InliningInv, Prune PROVE InliningInv'
  OBVIOUS
<1>1. /\ phase = "inline" /\ phase' = "emitted" /\ StitchedKeyed /\ DOMAIN work = DOMAIN stitched
      /\ UNCHANGED <<in, seen, stitched>>
      /\ stitched # Empty => NodeNames # {}
      /\ NodeNames \subseteq DOMAIN work
  BY DEF InliningInv, Prune, EmitInv
<1>2. PICK depth \in Nat : \A c \in DOMAIN stitched : Expanded(work[c], c, depth)
  BY <1>1 DEF InliningInv
<1>3. \A c \in DOMAIN stitched : Inlinable(work[c], Restrict(work, Sources)) = {}
  BY <1>1 DEF Prune
<1> DEFINE referenced == UNION {RefsOf(work[c]) : c \in DOMAIN work}
<1>4. /\ DOMAIN work' \subseteq DOMAIN work
      /\ DOMAIN work' = NodeNames \cup (Auxiliaries \cap referenced)
      /\ \A c \in DOMAIN work' : work'[c] = work[c]
  BY <1>1 DEF Prune, Restrict, Auxiliaries
<1>5. /\ NodeNames' = NodeNames /\ Auxiliaries' = Auxiliaries
      /\ Paths' = Paths
      /\ \A c, p : LandsAt(c, p)' = LandsAt(c, p)
      /\ \A c, p : InlinedAt(c, p)' = InlinedAt(c, p)
  BY <1>1, SameLandings
<1>6. NodeNames' \subseteq DOMAIN work'
  BY <1>1, <1>4, <1>5
<1>7. ASSUME NEW c \in DOMAIN work' PROVE (RefsOf(work[c]) \cap Auxiliaries \subseteq DOMAIN work)'
  <2>1. work'[c] = work[c] /\ c \in DOMAIN work
    BY <1>4
  <2>2. RefsOf(work'[c]) \subseteq referenced
    BY <2>1
  <2>3. Auxiliaries \subseteq DOMAIN work
    BY <1>1 DEF Auxiliaries
  <2>. QED
    BY <1>4, <1>5, <2>2, <2>3 DEF RefsOf
<1>8. ASSUME NEW c \in DOMAIN work'
      PROVE  LET inlined == {p \in Paths : InlinedAt(c, p)} IN
             /\ work[c].parts = UNION {{<<p, s[2]>> : s \in stitched[LandsAt(c, p)].parts} : p \in inlined}
             /\ work[c].refs = UNION {{Ref(p \o r.at, r.to, r.bare) :
                                          r \in {x \in stitched[LandsAt(c, p)].refs : p \o x.at \notin inlined}} :
                                      p \in inlined}
  <2> DEFINE inlined == {p \in Paths : InlinedAt(c, p)}
  <2>1. c \in DOMAIN stitched
    BY <1>1, <1>4
  <2>2. UpTo(c, depth) = inlined
    BY <1>1, <1>2, <1>3, <2>1, AllInlined
  <2>3. Expanded(work[c], c, depth)
    BY <1>2, <2>1
  <2> HIDE DEF inlined
  <2>4. work[c].parts = UNION {{<<p, s[2]>> : s \in stitched[LandsAt(c, p)].parts} : p \in inlined}
    <3>1. \A z : z \in work[c].parts <=>
              \E p \in inlined : \E s \in stitched[LandsAt(c, p)].parts : z = <<p, s[2]>>
      BY <2>2, <2>3 DEF Expanded, ShapeOf
    <3>. QED
      BY <3>1
  <2>5. work[c].refs = UNION {{Ref(p \o r.at, r.to, r.bare) :
                                  r \in {x \in stitched[LandsAt(c, p)].refs : p \o x.at \notin inlined}} :
                              p \in inlined}
    <3>1. \A z : z \in work[c].refs <=>
              \E p \in inlined : \E r \in stitched[LandsAt(c, p)].refs :
                  p \o r.at \notin inlined /\ z = Ref(p \o r.at, r.to, r.bare)
      BY <2>2, <2>3 DEF Expanded, RefBeyond
    <3>. QED
      BY <3>1
  <2>. QED
    BY <2>4, <2>5 DEF inlined
<1>9. ASSUME NEW c \in DOMAIN work'
      PROVE  (LET inlined == {p \in Paths : InlinedAt(c, p)} IN
              /\ work[c].parts = UNION {{<<p, s[2]>> : s \in stitched[LandsAt(c, p)].parts} : p \in inlined}
              /\ work[c].refs = UNION {{Ref(p \o r.at, r.to, r.bare) :
                                           r \in {x \in stitched[LandsAt(c, p)].refs : p \o x.at \notin inlined}} :
                                       p \in inlined})'
  <2>1. work'[c] = work[c] /\ stitched' = stitched
    BY <1>1, <1>4
  <2>. QED
    BY <1>5, <1>8, <2>1
<1>10. InlineIsExact'
  BY <1>1, <1>6, <1>7, <1>9 DEF InlineIsExact
<1>. QED
  BY <1>1, <1>5, <1>10 DEF InliningInv, Empty

\* The set of a document with components is not empty, and never is again.
LEMMA NewInlines == EmitInv /\ InliningInv /\ New => InliningInv'
<1> SUFFICES ASSUME EmitInv, InliningInv, New PROVE InliningInv'
  OBVIOUS
<1>1. /\ phase = "emitted" /\ UNCHANGED <<in, seen, stitched, work>>
      /\ stitched # Empty => NodeNames # {}
      /\ NodeNames \subseteq DOMAIN work
  BY DEF InliningInv, New, EmitInv
<1>2. CASE DOMAIN work \cap DOMAIN Library # {}
  <2>1. phase' = "failed" /\ DOMAIN work' \cap DOMAIN Library # {}
    BY <1>1, <1>2 DEF New
  <2>. QED
    BY <2>1 DEF InliningInv, InlineIsExact
<1>3. CASE ~(DOMAIN work \cap DOMAIN Library # {})
  <2> DEFINE own == {Registration(c, work[c], None) : c \in DOMAIN work}
             lib == {Registration(c, Schema("object", c, {}), Library[c]) : c \in DOMAIN Library}
  <2>1. phase' = "wiring" /\ RegisterReflected(own \cup lib)
    BY <1>3 DEF New
  <2>2. ASSUME NEW c \in DOMAIN work PROVE c \in {r.name : r \in own \cup lib}
    <3>1. Registration(c, work[c], None) \in own \cup lib
      OBVIOUS
    <3>2. Registration(c, work[c], None).name = c
      BY DEF Registration
    <3> HIDE DEF own, lib
    <3>. QED
      BY <3>1, <3>2
  <2> HIDE DEF own, lib
  <2>3. DOMAIN work \subseteq DOMAIN entries'
    BY <2>1, <2>2 DEF RegisterReflected, Over
  <2>4. stitched' # Empty => DOMAIN entries' # {}
    BY <1>1, <2>3 DEF Empty
  <2>. QED
    BY <2>1, <2>4 DEF InliningInv, InlineIsExact, Empty
<1>. QED
  BY <1>2, <1>3

LEMMA WiringInlines == InliningInv /\ (AppCall \/ Serve \/ \E g \in Callers : Request(g)) => InliningInv'
<1> SUFFICES ASSUME InliningInv, AppCall \/ Serve \/ \E g \in Callers : Request(g) PROVE InliningInv'
  OBVIOUS
<1>1. phase \in {"wiring", "serving"} /\ phase' \in {"wiring", "serving", "failed"} /\ stitched' = stitched
  BY DEF AppCall, Bind, RegisterTypeAlias, Whitelist, SchemaFromRef, RegisterOperation, BuildInto,
         Make, Wired, Panics, Serve, Request, emitVars
<1>2. Grows(entries, entries')
  <2>1. CASE RegisterOperation
    BY <2>1, GrowsOver DEF RegisterOperation, RegisterReflected, Panics, componentVars, Grows
  <2>2. CASE ~RegisterOperation
    BY <2>2 DEF AppCall, Bind, RegisterTypeAlias, Whitelist, ExternalRefs, SchemaFromRef, BuildInto,
                Wired, Panics, Serve, Request, componentVars, Grows, RegisterNode
  <2>. QED
    BY <2>1, <2>2
<1>3. stitched # Empty => DOMAIN entries # {}
  BY <1>1 DEF InliningInv
<1>4. stitched' # Empty => DOMAIN entries' # {}
  BY <1>1, <1>2, <1>3 DEF Grows, Empty
<1>5. stitched' # Empty => entries' # Empty
  BY <1>4 DEF Empty
<1>. QED
  BY <1>1, <1>4, <1>5 DEF InliningInv, InlineIsExact, Empty

LEMMA StepInlines == EmitInv /\ InliningInv /\ [Next]_vars => InliningInv'
<1> SUFFICES ASSUME EmitInv, InliningInv, UNCHANGED vars PROVE InliningInv'
  BY CollectInlines, StitchInlines, RoundKeeps, PruneInlines, NewInlines, WiringInlines
     DEF Next, Emit, EmitStep
<1>0. UNCHANGED <<in, seen, stitched, work, round, phase, entries>>
  BY DEF vars, emitVars, componentVars
<1>1. /\ NodeNames' = NodeNames /\ Auxiliaries' = Auxiliaries /\ Paths' = Paths
      /\ \A c, p : LandsAt(c, p)' = LandsAt(c, p)
      /\ \A c, p : InlinedAt(c, p)' = InlinedAt(c, p)
  BY <1>0, SameLandings
<1>2. phase = "inline" => StitchedKeyed'
  BY <1>0 DEF InliningInv, NodeNames, Name, StitchedKeyed, Keyed, KeyedRefs, IsBody
<1>3. phase = "inline" =>
         (\E depth \in Nat : round <= depth /\ \A c \in DOMAIN stitched : Expanded(work[c], c, depth))'
  <2> SUFFICES ASSUME phase = "inline"
               PROVE  (\E depth \in Nat : round <= depth /\ \A c \in DOMAIN stitched : Expanded(work[c], c, depth))'
    OBVIOUS
  <2>1. PICK depth \in Nat : round <= depth /\ \A c \in DOMAIN stitched : Expanded(work[c], c, depth)
    BY DEF InliningInv
  <2>2. ASSUME NEW c \in DOMAIN stitched' PROVE Expanded(work[c], c, depth)'
    <3>1. PICK b : b = work[c]
      OBVIOUS
    <3>2. Expanded(b, c, depth)
      BY <1>0, <2>1, <2>2, <3>1
    <3>3. Expanded(b, c, depth)'
      BY <1>0, <3>2, SameExpansion
    <3>. QED
      BY <1>0, <3>1, <3>3 DEF Expanded
  <2>. QED
    BY <1>0, <2>1, <2>2
<1>4. InlineIsExact'
  <2>1. phase = "emitted" =>
          /\ \A c \in DOMAIN work :
                (LET inlined == {p \in Paths : InlinedAt(c, p)} IN
                 /\ work[c].parts = UNION {{<<p, s[2]>> : s \in stitched[LandsAt(c, p)].parts} : p \in inlined}
                 /\ work[c].refs = UNION {{Ref(p \o r.at, r.to, r.bare) :
                                              r \in {x \in stitched[LandsAt(c, p)].refs : p \o x.at \notin inlined}} :
                                          p \in inlined})'
          /\ (NodeNames \subseteq DOMAIN work)'
          /\ \A c \in DOMAIN work : (RefsOf(work[c]) \cap Auxiliaries \subseteq DOMAIN work)'
    BY <1>0, <1>1 DEF InliningInv, InlineIsExact, RefsOf
  <2>2. (phase = "failed" /\ stitched # Empty /\ entries = Empty => DOMAIN work \cap DOMAIN Library # {})'
    BY <1>0 DEF InliningInv, InlineIsExact, Empty
  <2>. QED
    BY <1>0, <2>1, <2>2 DEF InlineIsExact
<1>. QED
  BY <1>0, <1>1, <1>2, <1>3, <1>4 DEF InliningInv, Empty

\* Inlining converges within its rounds, and to the full expansion: what a component
\* ends up with is every shape the inlinable $refs lead to, where they lead, and no
\* $ref that could have been inlined (inlineAux, substituteAux, auxInCycle).
THEOREM InliningExact == Spec => []InlineIsExact
<1>1. InliningInv => InlineIsExact
  BY DEF InliningInv
<1>. QED
  BY <1>1, InitInlines, StepInlines, AlwaysEmitting, PTL DEF Spec
=============================================================================
