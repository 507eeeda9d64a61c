------------------------------ MODULE SchemaIR ------------------------------
(***************************************************************************)
(* Schemas as the document layer passes them around (apidoc/ir.go).  A      *)
(* schema is what the references in it make of it: the shapes it is put     *)
(* together from, each at the path of property keys where it stands, and    *)
(* the $refs left in it.  A $ref is bare unless a keyword stands next to it *)
(* or opaque bytes hold it.  Scalars, order and wording are left out.       *)
(***************************************************************************)
EXTENDS Naturals, FiniteSets, SequencesExt

CONSTANT None

Schema(kind, shape, refs) == [kind |-> kind, parts |-> {<<<<>>, shape>>}, refs |-> refs]
Ref(at, to, bare) == [at |-> at, to |-> to, bare |-> bare]
RefsOf(body) == {r.to : r \in body.refs}

Empty == << >>
\* The left function wins where both are defined.
Over(f, g) == [x \in DOMAIN f \cup DOMAIN g |-> IF x \in DOMAIN f THEN f[x] ELSE g[x]]
\* What a set of names leads to along edges, itself included.
ReachedAlong(edges, from) ==
    LET reached[i \in 0..Cardinality(DOMAIN edges)] ==
            IF i = 0 THEN from
            ELSE LET before == reached[i - 1] IN before \cup UNION {edges[x] : x \in before}
    IN  reached[Cardinality(DOMAIN edges)]
=============================================================================
