----------------------------- MODULE Components -----------------------------
(***************************************************************************)
(* The component set of one document (apidoc/build.go): named schemas, the  *)
(* two directions of the type index, the wrapper index and the names other  *)
(* documents own.  Registering a fact twice is fine, registering another in *)
(* its place is not: the caller panics.                                     *)
(***************************************************************************)
EXTENDS SchemaIR

VARIABLES entries,   \* component name -> schema
          byType,    \* wire type -> component name
          byName,    \* component name -> the first wire type bound to it
          wrappers,  \* node wrapper type -> component name
          external   \* names referenced, not owned

componentVars == <<entries, byType, byName, wrappers, external>>

ComponentsInit ==
    entries = Empty /\ byType = Empty /\ byName = Empty /\ wrappers = Empty /\ external = {}

\* A registration: a schema for a name and the type that owns it, if any.
Registration(name, body, type) == [name |-> name, body |-> body, type |-> type]

\* RegisterReflected accepts these together: one schema per name, the stored one
\* where there is one, and one name per type.
Accepted(regs) ==
    /\ \A x \in regs :
          /\ x.name \in DOMAIN entries => entries[x.name] = x.body
          /\ x.type \in DOMAIN byType => byType[x.type] = x.name
    /\ \A x, y \in regs : /\ x.name = y.name => x = y
                          /\ x.type = y.type /\ x.type # None => x.name = y.name

TypeFor(regs, name) == (CHOOSE x \in regs : x.name = name).type
RegisterReflected(regs) ==
    LET typed == {x \in regs : x.type # None} IN
    /\ entries' = Over(entries, [n \in {x.name : x \in regs} |->
                                     (CHOOSE x \in regs : x.name = n).body])
    /\ byType' = Over([t \in {x.type : x \in typed} |-> (CHOOSE x \in typed : x.type = t).name],
                     byType)
    /\ byName' = Over(byName, [n \in {x.name : x \in typed} |-> TypeFor(typed, n)])
    /\ UNCHANGED <<wrappers, external>>

\* RegisterNode: the wire type and its wrappers, without a schema.  BindableAgain
\* is a mutant: a bound wire type may be bound to another name.
BindableAgain(t, ws, name) == \A w \in ws : w \in DOMAIN wrappers => wrappers[w] = name
Bindable(t, ws, name) ==
    /\ t \in DOMAIN byType => byType[t] = name
    /\ \A w \in ws : w \in DOMAIN wrappers => wrappers[w] = name
RegisterNode(t, ws, name) ==
    /\ byType' = Over([x \in {t} |-> name], byType)
    /\ byName' = Over(byName, [x \in {name} |-> t])
    /\ wrappers' = Over([w \in ws |-> name], wrappers)
    /\ UNCHANGED <<entries, external>>

ExternalRefs(names) ==
    /\ external' = external \cup names
    /\ UNCHANGED <<entries, byType, byName, wrappers>>

\* The names some of the schemas refer to that nobody owns (Verify).
Unresolved(refs) == refs \ (DOMAIN entries \cup external)
=============================================================================
