------------------------------ MODULE MCFilter ------------------------------
(***************************************************************************)
(* Instances of Filter for TLC: a graph with both arities, an edge that    *)
(* may not be filtered on, a computed one and one that leads nowhere, and  *)
(* the trees and limits tried on it.                                       *)
(***************************************************************************)
EXTENDS Filter

MCResources == {"Author", "Book"}
MCKeys == {"author", "books", "secret", "score", "ghost", "bogus"}
MCQuants == {Nil, "any", "all", "none", "most"}
MCFields == {"name", "flag", "hidden", "blob", "nope"}
MCOps == {"lt", "like", "in", "gt", "eq"}
MCDefaults == [MaxFilterDepth |-> 4, MaxFilterMany |-> 2, MaxFilterNodes |-> 32, MaxFilterSubqueries |-> 8]

To(target, toMany) == [target |-> target, many |-> toMany, filterable |-> TRUE]

MCEdges ==
    [r \in MCResources |->
        [k \in MCKeys |->
            CASE k = "author" /\ r = "Book" -> To("Author", FALSE)
              [] k = "books" -> To("Book", TRUE)
              [] k = "secret" -> [To("Book", FALSE) EXCEPT !.filterable = FALSE]
              [] k = "score" -> To(Nil, FALSE)
              [] k = "ghost" /\ r = "Author" -> To("nowhere", TRUE)
              [] OTHER -> Nil]]

Col(type) == [filterable |-> TRUE, type |-> type]

MCColumns ==
    [r \in MCResources |->
        [f \in MCFields |->
            CASE f = "name" -> Col("ordered")
              [] f = "flag" /\ r = "Book" -> Col("plain")
              [] f = "hidden" -> [Col("plain") EXCEPT !.filterable = FALSE]
              [] f = "blob" -> Col("opaque")
              [] OTHER -> Nil]]

S(key, quant) == [key |-> key, quant |-> quant]
Cond(path, field, op) == [kind |-> "cond", path |-> path, field |-> field, op |-> op]
Other(kind) == [kind |-> kind]

Leaf(node) == <<>> :> node
Group(kind, members) ==
    LET below == UNION {{<<n>> \o p : p \in DOMAIN members[n]} : n \in DOMAIN members}
    IN  [p \in {<<>>} \cup below |->
            IF p = <<>> THEN Other(kind) ELSE members[Head(p)][Tail(p)]]

Steps == {S("author", Nil), S("books", "any"), S("books", "none"), S("author", "all"), S("books", Nil),
          S("books", "most"), S("author", "most"), S("secret", Nil), S("score", Nil), S("ghost", "any"), S("bogus", Nil)}
Leaves == {<<"name", "lt">>, <<"name", "like">>, <<"flag", "in">>, <<"flag", "gt">>, <<"hidden", "eq">>,
           <<"blob", "eq">>, <<"nope", "eq">>}

\* One condition: every path of two steps, every kind of leaf.
Singles ==
    {Leaf(Cond(path, l[1], l[2])) : path \in BoundedSeq(Steps, 2), l \in Leaves}
        \cup {Leaf(Other(k)) : k \in {"nil", "nilPointer", "foreign"}}
        \cup {Group(k, <<>>) : k \in Groups}

\* Members of groups: sound and faulty ones of zero to three hops.
Members ==
    {Leaf(Cond(path, "name", "eq")) :
        path \in {<<>>, <<S("books", "any")>>, <<S("books", "all"), S("books", "any")>>,
                  <<S("books", "any"), S("author", Nil), S("books", "none")>>,
                  <<S("books", "any"), S("bogus", Nil)>>, <<S("ghost", "any")>>}}
        \cup {Leaf(Cond(<<S("books", "any")>>, "nope", "eq")), Leaf(Other("nil")), Leaf(Other("nilPointer")),
              Group("or", <<>>)}

Flat == {Group("and", ms) : ms \in UNION {[1..n -> Members] : n \in 1..3}}
Sound == {Leaf(Cond(<<>>, "name", "eq")), Leaf(Cond(<<S("books", "any")>>, "flag", "eq"))}
Nested == {Group("or", <<Group("and", <<a, b>>), c>>) : a \in Members, b \in Sound, c \in Members}
              \cup {Group("and", <<a, Group("or", <<b, c>>)>>) : a \in Sound, b \in Members, c \in Members}

Limits(d, m, n, q) ==
    [MaxFilterDepth |-> d, MaxFilterMany |-> m, MaxFilterNodes |-> n, MaxFilterSubqueries |-> q]

Calls(trees, limits) == {[root |-> "Author", filter |-> t, limits |-> l] : t \in trees, l \in limits}

MCInputs ==
    Calls(Singles, {Limits(0, 0, 0, 0), Limits(1, 1, 1, 1)})
        \cup Calls(Flat \cup Nested, {Limits(0, 0, 0, 0), Limits(2, 1, 3, 2), Limits(3, 2, 4, 3), Limits(0, 1, 0, 1)})
        \cup {[root |-> Nil, filter |-> t, limits |-> Limits(0, 0, 0, 0)] :
                 t \in {Leaf(Other("nil")), Leaf(Cond(<<>>, "name", "eq")), Group("and", <<>>)}}
=============================================================================
