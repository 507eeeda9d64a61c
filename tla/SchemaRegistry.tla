--------------------------- MODULE SchemaRegistry ---------------------------
(***************************************************************************)
(* huma's registry, answered from the component set                        *)
(* (adapters/huma/registry.go).  Wiring registers, in one goroutine; the    *)
(* requests that follow look schemas up concurrently, each converting on    *)
(* demand what the cache does not hold yet.  A handler that panics stops    *)
(* the wiring.                                                             *)
(***************************************************************************)
EXTENDS Components

CONSTANTS Callers,   \* the goroutines that look schemas up
          Startup    \* the wiring goroutine's own lookups

VARIABLES types,     \* component name -> owning Go type, the bridge's own index
          aliases,   \* RegisterTypeAlias
          converted, \* component name -> the schema served, the cache
          caller,    \* per goroutine: what schemaFor is at
          got        \* per goroutine: name -> the schema it was handed

bridgeVars == <<types, aliases, converted>>
callVars == <<caller, got>>

Idle == [at |-> "idle", name |-> None, schema |-> None]
BridgeInit ==
    /\ types = Empty /\ aliases = Empty /\ converted = Empty
    /\ caller = [g \in Callers |-> Idle]
    /\ got = [g \in Callers |-> Empty]

\* TypeFromRef: the bridge's index first, then the shared one.
TypeFromRef(name) == IF name \in DOMAIN types THEN types[name]
                     ELSE IF name \in DOMAIN byName THEN byName[name] ELSE None

\* A conversion makes a schema of its own: typed, or the fragment as it is.
\* ConvertedIfKnown is a mutant: any known type will do.
ConvertedIfKnown(g, name, isStruct) ==
    [by |-> g, name |-> name, body |-> entries[name], typed |-> TypeFromRef(name) # None]
Converted(g, name, isStruct) ==
    [by |-> g, name |-> name, body |-> entries[name],
     typed |-> TypeFromRef(name) \in isStruct]

\* The wiring's own call of schemaFor: nothing runs beside it.
LookupAtStartup(name, isStruct) ==
    /\ name \in DOMAIN entries
    /\ converted' = Over(converted, [n \in {name} |-> Converted(Startup, name, isStruct)])

\* schemaFor: the read under the read lock.
Lookup(g, name) ==
    /\ caller[g].at = "idle"
    /\ IF name \in DOMAIN converted
       THEN /\ got' = [got EXCEPT ![g] = Over([n \in {name} |-> converted[name]], @)]
            /\ UNCHANGED caller
       ELSE /\ name \in DOMAIN entries
            /\ caller' = [caller EXCEPT ![g] = [at |-> "convert", name |-> name, schema |-> None]]
            /\ UNCHANGED got
    /\ UNCHANGED bridgeVars

\* The conversion, under no lock.
Convert(g, isStruct) ==
    /\ caller[g].at = "convert"
    /\ caller' = [caller EXCEPT ![g].at = "insert",
                                ![g].schema = Converted(g, caller[g].name, isStruct)]
    /\ UNCHANGED <<bridgeVars, got>>

\* The insert under the write lock: who comes second is handed the first one's.
\* InsertAnyway is a mutant: it does not look again.
InsertAnyway(g) ==
    /\ caller[g].at = "insert"
    /\ LET name == caller[g].name IN
       /\ converted' = Over([n \in {name} |-> caller[g].schema], converted)
       /\ got' = [got EXCEPT ![g] = Over([n \in {name} |-> converted'[name]], @)]
    /\ caller' = [caller EXCEPT ![g] = Idle]
    /\ UNCHANGED <<types, aliases>>
Insert(g) ==
    /\ caller[g].at = "insert"
    /\ LET name == caller[g].name IN
       /\ converted' = Over(converted, [n \in {name} |-> caller[g].schema])
       /\ got' = [got EXCEPT ![g] = Over([n \in {name} |-> converted'[name]], @)]
    /\ caller' = [caller EXCEPT ![g] = Idle]
    /\ UNCHANGED <<types, aliases>>
=============================================================================
