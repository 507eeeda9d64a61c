----------------------------- MODULE MCPlanner -----------------------------
(***************************************************************************)
(* Instances of Planner for TLC: small graphs with default cycles,         *)
(* diamonds, stale defaults and every kind of edge, and the calls made on  *)
(* them.                                                                   *)
(***************************************************************************)
EXTENDS SchemaFor

MCResources == {"Author", "Book", "Shop"}
MCKeys == {"author", "books", "score"}
MCKeyOrder == <<"author", "books", "score">>

Plain == [target |-> "Author", kind |-> "toOne", bare |-> FALSE, limit |-> 0,
          est |-> 0, includable |-> TRUE, required |-> FALSE, sortable |-> FALSE,
          strictExclude |-> "inherit"]
To(r, kind) == [Plain EXCEPT !.target = r, !.kind = kind]
Score == [Plain EXCEPT !.kind = "computed"]

Edges(a, b, s) == "author" :> a @@ "books" :> b @@ "score" :> s

\* A book's author is required and a default; an author's default names an edge
\* that is not there.
Library ==
    [edges |-> "Author" :> Edges(None, [To("Book", "reverse") EXCEPT !.limit = 3, !.sortable = TRUE], Score)
            @@ "Book" :> Edges([To("Author", "toOne") EXCEPT !.required = TRUE],
                               [To("Book", "inArray") EXCEPT !.est = 2],
                               [Score EXCEPT !.includable = FALSE])
            @@ "Shop" :> Edges(None, [To("Book", "hasMany") EXCEPT !.required = TRUE, !.strictExclude = "strict"],
                               [Score EXCEPT !.required = TRUE]),
     defaults |-> "Author" :> <<"score", "author">>
               @@ "Book" :> <<"author", "author", "score">>
               @@ "Shop" :> <<"books", "score">>]

\* Every edge a default: a cycle through all resources, and a diamond.
Circle ==
    [edges |-> "Author" :> Edges(To("Shop", "toOne"), To("Book", "reverse"), None)
            @@ "Book" :> Edges(To("Author", "toOne"), To("Shop", "hasMany"), Score)
            @@ "Shop" :> Edges(To("Author", "toOne"),
                               [To("Book", "hasMany") EXCEPT !.bare = TRUE], Score),
     defaults |-> "Author" :> <<"author", "books">>
               @@ "Book" :> <<"books", "author", "score">>
               @@ "Shop" :> <<"books", "author">>]

\* Books that list books, 200 rows each.
Wide ==
    [Library EXCEPT !.edges["Author"]["books"].est = 200, !.edges["Author"]["books"].bare = TRUE,
                    !.edges["Book"]["books"].est = 200]

\* A library whose shops list their books to nobody who asks, and by default.
Private == [Library EXCEPT !.edges["Shop"]["books"].includable = FALSE]

Paths(n) == UNION {[1..m -> MCKeys] : m \in 0..n}
TreeOf(ps) == {<<>>} \cup UNION {Prefixes(p) : p \in ps}
TreesOf(S, n) == {TreeOf(ps) : ps \in UNION {kSubset(m, S) : m \in 0..n}}

Opts == [MaxDepth |-> 4, MaxNodes |-> 50, MaxCost |-> 0, strictSort |-> TRUE,
         strictArgs |-> TRUE, excludeRequired |-> "tolerant"]

\* A call by name: its graph, root, tree, the args of the root and of the other
\* nodes, excludes and options.
GraphNamed(g) == CASE g = "Library" -> Library [] g = "Circle" -> Circle [] g = "Wide" -> Wide
                   [] g = "Private" -> Private
CallOf(c) ==
    [graph |-> GraphNamed(c[1]), root |-> c[2], tree |-> c[3],
     args |-> [p \in c[3] |-> c[4][IF p = <<>> THEN 1 ELSE 2]],
     exclude |-> c[5], opts |-> c[6]]
NoArgs2 == <<NoArgs, NoArgs>>

\* Every tree of up to two branches of length two, or one of length three, under
\* the depth, node and cost limits that matter to it, or under none at all.
Trees == {<<g, r, t, NoArgs2, <<>>, o>> :
             g \in {"Library", "Circle"}, r \in MCResources,
             t \in TreesOf(Paths(2), 2) \cup {TreeOf({p}) : p \in [1..3 -> MCKeys]},
             o \in {Opts, [Opts EXCEPT !.MaxDepth = 1], [Opts EXCEPT !.MaxNodes = 2],
                    [Opts EXCEPT !.MaxCost = 60], [Opts EXCEPT !.MaxDepth = 0, !.MaxNodes = 0]}}

\* Every exclude list of up to two paths.
Excludes == {<<g, r, t, NoArgs2, x, [Opts EXCEPT !.excludeRequired = pol]>> :
                g \in {"Library", "Circle"}, r \in {"Author", "Shop"},
                t \in {TreeOf({}), TreeOf({<<"books">>}), TreeOf({<<"books", "author">>})},
                x \in SeqOf(Paths(2), 2), pol \in Policies}

\* Every combination of args on one edge, under every policy.
ArgValues == [limit : {0, -1, 1, 2, 99}, sort : {"none", "known", "unknown"},
              other : {"none", "accepted", "rejected", "undeclared"}]
ArgCalls == {<<"Library", r, TreeOf({<<k>>}), <<b, a>>, <<>>,
               [Opts EXCEPT !.strictSort = ss, !.strictArgs = sa, !.MaxCost = 4]>> :
                r \in {"Author", "Book"}, k \in {"books", "author"}, a \in ArgValues,
                b \in {NoArgs, [NoArgs EXCEPT !.limit = 1]}, ss \in BOOLEAN, sa \in BOOLEAN}

\* Shops whose books are not includable.
PrivateTrees == {<<"Private", "Shop", t, NoArgs2, <<>>, Opts>> : t \in TreesOf(Paths(2), 2)}

AllCalls == {CallOf(c) : c \in Trees \cup PrivateTrees \cup Excludes \cup ArgCalls}

\* With ints of 16 bits, two levels of 200 rows each are what four levels of
\* 60000 rows are with 64.
WideCalls == {CallOf(<<"Wide", "Author", t, NoArgs2, <<>>, Opts>>) : t \in TreesOf(Paths(2), 2)}

RequiredCalls == {CallOf(<<"Library", r, t, NoArgs2, <<>>, Opts>>) :
                     r \in MCResources, t \in TreesOf(Paths(2), 2)}
=============================================================================
