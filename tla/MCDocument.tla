----------------------------- MODULE MCDocument -----------------------------
(***************************************************************************)
(* Instances of Document for TLC: every way three helper structs can nest   *)
(* in one another below a book and its author; and a library whose nodes    *)
(* and operations are wired by any few calls in any order, then asked for   *)
(* schemas by two requests.                                                *)
(***************************************************************************)
EXTENDS Document

Field(key, type, bare) == [key |-> key, type |-> type, bare |-> bare]
Plain(name) == [name |-> name, shape |-> name, kind |-> "object", fields |-> {}, struct |-> TRUE,
                worthy |-> TRUE, elem |-> None, wraps |-> None, data |-> None, page |-> None,
                extra |-> None, body |-> None]
Struct(name, fields) == [Plain(name) EXCEPT !.fields = fields]
Edge(key, target) == [key |-> key, target |-> target, includable |-> TRUE, computed |-> FALSE,
                      schema |-> None]
Computed(key, schema) == [Edge(key, None) EXCEPT !.computed = TRUE, !.schema = schema]
Node(name, wire, edges) == [name |-> name, wire |-> wire, edges |-> edges, defaults |-> {},
                            external |-> FALSE]

MCNodes == {"book", "author", "ghost", "money"}
MCTypes == {"BookWire", "AuthorWire", "GhostWire", "Money", "A", "B", "C",
            "BookNode", "GhostNode", "Envelope", "Listing", "Order", "Orders", "Item", "OldItem",
            "Text", "Report", "Pagination"}

\* The types that stay as they are.
Fixed ==
    "GhostWire" :> Struct("GhostWire", {}) @@ "Money" :> Struct("Money", {})
    @@ "BookNode" :> [Plain("BookNode") EXCEPT !.wraps = "BookWire"]
    @@ "GhostNode" :> [Plain("GhostNode") EXCEPT !.wraps = "GhostWire"]
    @@ "Envelope" :> [Plain("Envelope") EXCEPT !.data = "GhostNode"]
    @@ "Listing" :> [Plain("Listing") EXCEPT !.data = "BookNode", !.page = "Pagination", !.extra = "Order"]
    @@ "Order" :> Struct("Order", {Field("book", "BookWire", TRUE), Field("a", "A", FALSE),
                                   Field("item", "OldItem", TRUE)})
    @@ "Orders" :> [Plain("Orders") EXCEPT !.struct = FALSE, !.worthy = FALSE, !.elem = "Order"]
    @@ "Item" :> Struct("Item", {Field("ghost", "GhostWire", TRUE)})
    @@ "OldItem" :> [Struct("Item", {}) EXCEPT !.shape = "OldItem"]
    @@ "Text" :> [Plain("Text") EXCEPT !.worthy = FALSE]
    @@ "Report" :> [Plain("Report") EXCEPT !.struct = FALSE, !.body = {Ref(<<"rows">>, "Row", TRUE)}]
    @@ "Pagination" :> Plain("Pagination")

MCLibrary == "Pagination" :> "Pagination" @@ "Error" :> None

\* A field of each kind a struct may have of another, or none.
Maybe(key, type, how) == IF how = "no" THEN {} ELSE {Field(key, type, how = "bare")}

Nested(ab, ac, bc, ca, bb, cKind, top, shadow) ==
    [nodes |->
        "book" :> [Node("Book", "BookWire",
                        {[Edge("author", "author") EXCEPT !.includable = FALSE], Edge("owner", "money"), Computed("score", "B")}
                        \cup (IF shadow THEN {Edge("a", "author")} ELSE {}))
                     EXCEPT !.defaults = {"author"}]
        @@ "author" :> Node("Author", "AuthorWire", {[Edge("books", "book") EXCEPT !.includable = FALSE]})
        @@ "ghost" :> Node("Ghost", "GhostWire", {})
        @@ "money" :> [Node("Money", "Money", {}) EXCEPT !.external = TRUE],
     types |->
        "BookWire" :> Struct("BookWire", Maybe("a", "A", top))
        @@ "AuthorWire" :> Struct("AuthorWire", {Field("b", "B", TRUE), Field("first", "BookWire", TRUE)})
        @@ "A" :> Struct("A", Maybe("b", "B", ab) \cup Maybe("c", "C", ac))
        @@ "B" :> Struct("B", Maybe("c", "C", bc) \cup Maybe("b", "B", bb))
        @@ "C" :> [Struct("C", Maybe("a", "A", ca)) EXCEPT !.kind = cKind]
        @@ Fixed,
     roots |-> <<"book">>, calls |-> {}, asked |-> {}]

EmissionWorlds ==
    {Nested(ab, ac, bc, ca, bb, cKind, top, shadow) :
        ab \in {"no", "bare", "tagged"}, ac \in {"no", "bare"}, bc \in {"no", "bare", "tagged"},
        ca \in {"no", "bare"}, bb \in {"no", "bare"}, cKind \in {"object", "opaque"},
        top \in {"bare", "tagged"}, shadow \in BOOLEAN}

\* The calls.
BindC(n) == [op |-> "Bind", node |-> n]
RegisterC(t) == [op |-> "Register", type |-> t]
BodyC(t) == [op |-> "RequestBody", type |-> t]
AllCalls == {BindC("book"), BindC("ghost"), RegisterC("Listing"), RegisterC("Envelope"),
             BodyC("Order"), BodyC("Orders"), BodyC("Item"), BodyC("Report"), BodyC("OldItem"),
             [op |-> "Alias", type |-> "Text", alias |-> "Item"], BodyC("Text"),
             [op |-> "Alias", type |-> "Envelope", alias |-> "Item"],
             [op |-> "ExternalRefs", names |-> {"Money", "Row"}],
             [op |-> "SchemaFromRef", name |-> "Book"], [op |-> "BuildInto"]}
WiringBase == Nested("bare", "no", "tagged", "no", "no", "object", "bare", FALSE)
WiringWorlds ==
    {[WiringBase EXCEPT !.calls = cs, !.asked = {"Book", "Report"}] :
        cs \in {x \in SUBSET AllCalls : Cardinality(x) <= 3}}

\* Graphs that cannot be emitted.
BrokenWorlds ==
    {[WiringBase EXCEPT !.nodes["author"].wire = None],
     [WiringBase EXCEPT !.nodes["author"].wire = "BookWire"],
     [WiringBase EXCEPT !.nodes["author"].name = "Book"],
     [WiringBase EXCEPT !.nodes["author"].name = "Error"],
     [WiringBase EXCEPT !.nodes["author"].name = "A"],
     [WiringBase EXCEPT !.types["AuthorWire"].kind = "opaque"],
     [WiringBase EXCEPT !.nodes["book"].edges = @ \cup {Edge("lost", None)}]}

\* Two types of one Go name, one in a field and one of its own.
Namesakes == {[WiringBase EXCEPT !.calls = {BodyC("Item"), BodyC("Order")}]}

MCWorlds == EmissionWorlds \cup WiringWorlds \cup BrokenWorlds
=============================================================================
