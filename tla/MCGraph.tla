------------------------------ MODULE MCGraph ------------------------------
(***************************************************************************)
(* Instances of Graph for TLC: three wirings of a small library, by chained *)
(* calls, by relations and by literals, and the mistakes made in them.     *)
(***************************************************************************)
EXTENDS Graph

Plain == [name |-> "", json |-> NoTag, exported |-> TRUE, anonymous |-> FALSE,
          type |-> "comparable", column |-> NoTag]
Tagged(key) == [Plain EXCEPT !.name = "F", !.json = key]
Col(key, opts) == [Tagged(key) EXCEPT !.column = [tag |-> "col", name |-> "c_" \o key, opts |-> opts]]
Embed(t) == [Plain EXCEPT !.name = t, !.anonymous = TRUE, !.type = t]

\* A book shadows the id of its base, ties with it on "ref" at one depth, and
\* its tagged field wins; a base embeds itself.
MCStructs ==
    "Base" :> <<Col("id", <<"sort">>), Embed("Base"), [Plain EXCEPT !.name = "ref"]>>
    @@ "Extra" :> <<Col("ref", <<"filter">>)>>
    @@ "Author" :> <<Tagged("id"), [Col("name", <<>>) EXCEPT !.column.tag = "sortCol"],
                     Col("born", <<"sort", "filter">>)>>
    @@ "Book" :> <<Tagged("id"), Embed("Base"), Embed("Extra"), Col("title", <<"sort", "filter">>)>>
    @@ "Shop" :> <<Col("city", <<"sort">>), Tagged("-"), Tagged("-,")>>
    @@ "Messy" :> <<Col("x", <<"sort", "sort">>), [Col("and", <<"filter">>) EXCEPT !.type = "opaque"],
                    [Col("b", <<>>) EXCEPT !.column.tag = "both"], Tagged("x"),
                    [Col("c", <<>>) EXCEPT !.exported = FALSE],
                    [Col("d", <<"sort">>) EXCEPT !.column.tag = "sortCol"],
                    [Col("e", <<>>) EXCEPT !.column.name = ""],
                    [Embed("Extra") EXCEPT !.column = [tag |-> "col", name |-> "z", opts |-> <<>>]]>>
MCWires == DOMAIN MCStructs \cup {"Text"}
MCUnsafe == {"quo\"te"}

\* The calls.
NodeC(n, w) == [op |-> "Node", name |-> n, wire |-> w]
Set(n, f, v) == [op |-> "setNode", node |-> n, field |-> f, value |-> v]
EdgeC(n, k, kind) == [op |-> "Edge", node |-> n, key |-> k, kind |-> kind]
SetE(n, i, f, v) == [op |-> "setEdge", edge |-> <<n, i>>, field |-> f, value |-> v]
DefaultsC(n, keys) == [op |-> "Defaults", node |-> n, keys |-> keys]
RootC(n) == [op |-> "Root", node |-> n]
EnvelopeC(env) == [op |-> "Envelope", value |-> env]
BindC(n, k, t, fn) == [op |-> "FetchEdge", node |-> n, key |-> k, target |-> t, fn |-> fn]
SetR(r, f, v) == [op |-> "setRelation", relation |-> r, field |-> f, value |-> v]
KeyR(r, f, fn) == [op |-> "relationForeignKey", relation |-> r, field |-> f, fn |-> fn]
FetchR(r, fn) == [op |-> "relationFetch", relation |-> r, fn |-> fn]
AddC(s) == [op |-> "Add", spec |-> s]
CompileC == [op |-> "Compile"]

DataEnvelope == [Key |-> "data", Pagination |-> "pagination"]
ListOf(s, d, f, mode, lim, max) ==
    [sort |-> s, sortDefault |-> d, filter |-> f, mode |-> mode, defaultLimit |-> lim, maxLimit |-> max]
Desc(k) == [key |-> k, desc |-> TRUE]

\* A literal: what it does not name is zero.
ZeroEdge == [NoSettings EXCEPT !.foreignKey = FALSE, !.foreignKeys = FALSE, !.guard = FALSE,
                               !.limit = 0, !.estimatedRows = 0]
ZeroNode(n, w) == [NewNode(n, w) EXCEPT !.Wire = TRUE, !.PrimaryKey = TRUE, !.Enrich = FALSE]
Lit(k, kind, set) == [key |-> k, kind |-> kind, set |-> set]

\* One call at a time: a shop stocks books, by default with their author, whose
\* books are a reverse edge with a fetcher of its own; a score is computed.
Chained == <<
    NodeC("Author", "Author"), NodeC("Book", "Book"), NodeC("Shop", "Shop"),
    Set(1, "Wire", "fn"), Set(1, "PrimaryKey", "fn"), Set(1, "Enrich", "fn"),
    EdgeC(1, "books", Reverse2("Book", "authorId")),
    SetE(1, 1, "includable", TRUE), SetE(1, 1, "limit", 5), SetE(1, 1, "sort", Desc("title")),
    SetE(1, 1, "args", {"lang"}), SetE(1, 1, "filterable", TRUE),
    BindC(1, "books", 2, TRUE),
    Set(2, "Wire", "fn"), Set(2, "PrimaryKey", "fn"),
    EdgeC(2, "author", ToOne("Author")),
    SetE(2, 1, "foreignKey", "fn"), SetE(2, 1, "required", TRUE), SetE(2, 1, "inverse", "books"),
    SetE(2, 1, "policies", {"excludeRequired"}), SetE(2, 1, "policies", {"missingForeign"}),
    EdgeC(2, "score", Computed), SetE(2, 2, "includable", TRUE),
    Set(3, "Wire", "fn"), Set(3, "PrimaryKey", "fn"),
    EdgeC(3, "stock", InArray("Book", "items", "book")),
    SetE(3, 1, "foreignKeys", "fn"), SetE(3, 1, "estimatedRows", 9), DefaultsC(3, <<"stock">>),
    Set(1, "fetchIDs", TRUE), Set(2, "fetchIDs", TRUE),
    Set(1, "inputs", ListOf(TRUE, Desc("born"), TRUE, "", 0, 10)),
    RootC(1), RootC(3), RootC(1), CompileC>>

\* Relations: an author's books, and the shops of a book.
Related2 == <<
    AddC([ZeroNode("Author", "Author") EXCEPT !.fetchIDs = TRUE]),
    AddC([ZeroNode("Book", "Book") EXCEPT !.fetchIDs = TRUE, !.envelope = DataEnvelope]),
    AddC([ZeroNode("Shop", "Shop") EXCEPT !.fetchIDs = TRUE, !.defaults = <<"books">>]),
    [op |-> "OneToMany", one |-> 1, many |-> 2, manyKey |-> "books", oneKey |-> "author"],
    KeyR(1, "authorId", "fn"), SetR(1, "includable", TRUE), SetR(1, "filterable", TRUE),
    SetR(1, "required", TRUE), SetR(1, "sort", SortOf("title")), FetchR(1, TRUE),
    [op |-> "ManyToMany", left |-> 3, right |-> 2, leftKey |-> "books", rightKey |-> "shops"],
    KeyR(2, "bookIds", "fn"), SetR(2, "limit", 7), SetR(2, "envelope", DataEnvelope),
    SetE(2, 2, "includable", TRUE), Set(3, "fetchParents", TRUE),
    [op |-> "OneToMany", one |-> 1, many |-> 1, manyKey |-> "pupils", oneKey |-> "teacher"],
    KeyR(3, "teacherId", "fn"), SetR(3, "bare", TRUE), SetR(3, "estimatedRows", 4),
    EnvelopeC(DataEnvelope),
    Set(2, "inputs", ListOf(TRUE, None, FALSE, "cursor", 50, 0)), RootC(2), RootC(3), CompileC>>

\* Literals: parts in a chain of defaults.
Literal == <<
    AddC([ZeroNode("Author", "Author") EXCEPT
            !.Enrich = TRUE, !.defaults = <<"books">>,
            !.edges = <<Lit("books", ToMany("Book"),
                            [ZeroEdge EXCEPT !.foreignKeys = TRUE, !.limit = 3, !.includable = TRUE]),
                        Lit("fame", Computed, [ZeroEdge EXCEPT !.args = {"year"}])>>]),
    AddC([ZeroNode("Book", "Book") EXCEPT
            !.defaults = <<"shop">>, !.fetchIDs = TRUE,
            !.edges = <<Lit("shop", ToOne("Shop"),
                            [ZeroEdge EXCEPT !.foreignKey = TRUE, !.required = TRUE,
                                             !.policies = {"missingRequired"}]),
                        Lit("parts", InArray("Book", "parts", "id"),
                            [ZeroEdge EXCEPT !.foreignKeys = TRUE, !.estimatedRows = 2])>>]),
    AddC([ZeroNode("Shop", "Shop") EXCEPT
            !.fetchIDs = TRUE,
            !.edges = <<Lit("owner", ToOne("Author"),
                            [ZeroEdge EXCEPT !.foreignKey = TRUE, !.guard = TRUE, !.filterable = FALSE,
                                             !.envelope = DataEnvelope])>>,
            !.inputs = ListOf(TRUE, None, FALSE, "offset", 0, 0)]),
    RootC(1), CompileC>>

MCScripts == {Chained, Related2, Literal}

-----------------------------------------------------------------------------
(* The mistakes. *)

BadEnvelopes == {[Key |-> "", Pagination |-> "page"], [Key |-> "d", Pagination |-> "d"],
                 [Key |-> "quo\"te", Pagination |-> "page"]}
Slots == {<<1, 1>>, <<2, 1>>, <<3, 1>>}
EdgeMistakes ==
    {<<SetE(h[1], h[2], v[1], v[2])>> : h \in Slots, v \in
        {<<f, TRUE>> : f \in {"required", "includable", "filterable", "bare"}}
        \cup {<<f, c>> : f \in {"foreignKey", "foreignKeys", "guard"}, c \in {"fn", "nil"}}
        \cup {<<f, k>> : f \in {"limit", "estimatedRows"}, k \in {0, 3}}
        \cup {<<"sort", SortOf(k)>> : k \in {"born", "title", "gone"}}
        \cup {<<"envelope", env>> : env \in BadEnvelopes}
        \cup {<<"args", {a}>> : a \in {"limit", "lang"}}
        \cup {<<"policies", {p}>> : p \in {"excludeRequired", "missingRequired", "missingForeign"}}
        \cup {<<"inverse", k>> : k \in {"books", "author", "stock", "gone"}}}
ListMistakes ==
    {<<Set(n, "inputs", ListOf(s, d, f, m, l[1], l[2]))>> :
        n \in {1, 3}, s \in BOOLEAN, d \in {None, SortOf("gone"), Desc("born")}, f \in BOOLEAN,
        m \in {"other", "cursor"}, l \in {<<0, 5>>, <<50, 10>>, <<-1, 0>>}}
NodeMistakes ==
    {<<Set(n, v[1], v[2])>> : n \in 1..3, v \in
        {<<f, "nil">> : f \in {"Wire", "PrimaryKey", "Enrich"}}
        \cup {<<f, x>> : f \in {"fetchIDs", "fetchParents"}, x \in BOOLEAN}
        \cup {<<"envelope", env>> : env \in BadEnvelopes}
        \cup {<<"slug", "s">>, <<"docExternal", TRUE>>}}
    \cup {<<DefaultsC(n, <<k>>)>> : n \in 1..3, k \in {"books", "author", "owner", "gone"}}
    \cup {<<RootC(n)>> : n \in 1..3}
    \cup {<<EnvelopeC(env)>> : env \in BadEnvelopes}
    \cup {<<NodeC(n, w), RootC(4)>> : n \in {"", "Book", "Other"}, w \in {"Book", "Messy", "Text"}}
\* An edge too many, and what else names it.
NewEdges ==
    {<<EdgeC(n, k, kind)>> : n \in {1, 2}, k \in {"", "id", "books", "extra", "and", "quo\"te"},
        kind \in {NoKind, ToOne("Shop"), Computed, InArray("Book", "", "x"), Reverse2("Nobody", ""),
                  Reverse2("Shop", "")}}
Naming ==
    {<<>>, <<DefaultsC(2, <<"extra">>)>>, <<BindC(2, "extra", 3, TRUE)>>,
     <<BindC(2, "extra", 1, TRUE), BindC(2, "gone", 1, TRUE), BindC(1, "books", 2, FALSE)>>,
     <<SetE(1, 1, "inverse", "extra"), DefaultsC(2, <<"extra">>)>>}
EdgeTooMany == {e \o m : e \in NewEdges, m \in Naming}
\* Filterable edges that lead on to another and to no column, in one node and in two.
Filters ==
    {<<EdgeC(3, "sub", ToOne("Shop")), SetE(3, 2, "foreignKey", "fn"), SetE(3, 2, "filterable", TRUE)>>,
     <<EdgeC(3, "sub", ToOne("Book")), SetE(3, 2, "foreignKey", "fn"), SetE(3, 2, "filterable", TRUE),
       EdgeC(3, "sup", ToOne("Shop")), SetE(3, 3, "foreignKey", "fn"), SetE(3, 3, "filterable", TRUE)>>}
\* What is wrong only between two declarations: a computed edge with an inverse, a
\* filterable key that JSON filters reserve, two forward edges that call each other
\* inverse, options a computed edge has no use for, a relation whose foreign key has no name.
Key(n, i) == SetE(n, i, "foreignKey", "fn")
Pairs ==
    {<<EdgeC(2, "rank", Computed), SetE(2, 3, "inverse", "books")>>,
     <<EdgeC(3, "and", ToOne("Author")), Key(3, 2), SetE(3, 2, "filterable", TRUE)>>,
     <<EdgeC(2, "home", ToOne("Shop")), Key(2, 3), EdgeC(3, "lead", ToOne("Book")), Key(3, 2),
       SetE(2, 3, "inverse", "lead")>>,
     <<EdgeC(2, "rank", Computed), SetE(2, 3, "guard", "fn"), SetE(2, 3, "envelope", DataEnvelope)>>,
     <<[op |-> "OneToMany", one |-> 3, many |-> 2, manyKey |-> "held", oneKey |-> "holder"],
       KeyR(1, "", "fn")>>}

MCExtras == EdgeMistakes \cup ListMistakes \cup NodeMistakes \cup EdgeTooMany \cup Filters \cup Pairs

Request == [sort |-> None, limit |-> 0, page |-> 0, cursor |-> None, where |-> None]
MCRaws ==
    {[Request EXCEPT !.sort = s, !.limit = l, !.page = p] :
        s \in {None} \cup Sorts({"born", "title", "gone"}), l \in {-1, 0, 1, 10, 11, 101}, p \in {-1, 0, 2}}
    \cup {[Request EXCEPT !.cursor = c, !.page = p, !.where = w] :
        c \in {None, "token"}, p \in {0, 1}, w \in {None, "born", "title", "name", "id"}}
=============================================================================
