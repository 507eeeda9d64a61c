--------------------------- MODULE MCMaterializer ---------------------------
(***************************************************************************)
(* Instances of Materializer for TLC: two authors and three books, plans   *)
(* with every kind of edge, and worlds with shared, repeated, empty,       *)
(* hidden and guarded references.                                          *)
(***************************************************************************)
EXTENDS Materializer

CONSTANTS a1, a2, b1, b2, b3

MCRows == {a1, a2, b1, b2, b3}
MCResources == {"Author", "Book"}
MCKeyOrder == <<"books", "author", "score", "picks", "refs">>
MCKeys == Range(MCKeyOrder)
Resource == [r \in MCRows |-> IF r \in {a1, a2} THEN "Author" ELSE "Book"]

Edge == [kind |-> "toOne", bare |-> FALSE, limit |-> 0, est |-> 0, required |-> FALSE,
         missingRequired |-> "inherit", missingForeign |-> "inherit"]
To(r, e) == [edge |-> e, resource |-> r, args |-> [limit |-> 0]]
Root(r) == <<>> :> [edge |-> None, resource |-> r, args |-> [limit |-> 0]]

Many(kind, n) == [Edge EXCEPT !.kind = kind, !.limit = n]
All(kind, n) == [Edge EXCEPT !.kind = kind, !.bare = TRUE, !.est = n]

\* The books of authors, with their own authors and references.
Shelf == Root("Author")
      @@ <<"books">> :> [To("Book", Many("reverse", 3)) EXCEPT !.args.limit = 2]
      @@ <<"books", "author">> :> To("Author", [Edge EXCEPT !.required = TRUE])
      @@ <<"books", "refs">> :> To("Book", All("inArray", 2))
\* What authors picked, next to all they wrote.
Choice == Root("Author")
       @@ <<"books">> :> To("Book", All("reverse", 3))
       @@ <<"picks">> :> To("Book", [Many("hasMany", 2) EXCEPT !.missingForeign = "null"])
       @@ <<"picks", "author">> :> To("Author", Edge)
\* The latest book of each.
Column == Root("Author") @@ <<"books">> :> To("Book", Many("reverse", 1))
\* A book's author, required whatever the engine says, and what that one has.
Volume == Root("Book")
       @@ <<"author">> :> To("Author", [Edge EXCEPT !.required = TRUE,
                                                    !.missingRequired = "error"])
       @@ <<"author", "books">> :> To("Book", Many("reverse", 1))
       @@ <<"author", "picks">> :> To("Book", All("hasMany", 3))
       @@ <<"score">> :> To("Book", [Edge EXCEPT !.kind = "computed"])
       @@ <<"refs">> :> To("Book", All("inArray", 2))

\* Members: what the two authors wrote, what each book's author is, what the
\* first author picked, and the references of the first book, with the length of
\* its array.
None5 == [k \in MCKeys |-> <<>>]
World1(books, author, picks, refs, guarded, hidden) ==
    [refs |-> a1 :> [None5 EXCEPT !["books"] = books[1], !["picks"] = picks]
           @@ a2 :> [None5 EXCEPT !["books"] = books[2], !["picks"] = <<b1>>]
           @@ b1 :> [None5 EXCEPT !["author"] = author[1], !["refs"] = refs[1]]
           @@ b2 :> [None5 EXCEPT !["author"] = author[2]]
           @@ b3 :> [None5 EXCEPT !["author"] = author[3], !["refs"] = <<b1>>],
     array |-> b1 :> refs[2] @@ b2 :> 0 @@ b3 :> 1 @@ a1 :> Absent @@ a2 :> Absent,
     resource |-> Resource,
     guarded |-> [r \in MCRows |-> IF r \in DOMAIN guarded THEN guarded[r] ELSE {}],
     hidden |-> hidden, extra |-> {}, over |-> FALSE]

Written == {<< <<b1, b2, b3>>, <<>> >>, << <<b1>>, <<b2, b3>> >>}
Authors == {<< <<a1>>, <<a1>>, <<a2>> >>, << <<a2>>, <<NoId>>, <<>> >>}
Picks == {<<b2, b1, b2>>, <<NoId, b3>>, <<b1>>}
Referred == {<< <<b2, NoId>>, 2>>, << <<b3>>, 2>>, << <<b2, b1>>, Absent>>}
Barred == {<<>>, a1 :> {"books", "picks"}, b1 :> {"author", "refs"} @@ b2 :> {"author"}}
Unseen == {{}, {b2}, {a1}}

Worlds == {World1(w, au, p, rf, g, h) :
              w \in Written, au \in Authors, p \in Picks, rf \in Referred,
              g \in Barred, h \in Unseen}
Ordinary == World1(<< <<b1>>, <<b2, b3>> >>, << <<a1>>, <<a1>>, <<a2>> >>, <<b2, b1>>,
                   << <<b2, b3>>, 2>>, <<>>, {})

Query(plan, docs, world) ==
    [plan |-> plan, docs |-> docs, world |-> world, facade |-> "query", limit |-> 0,
     maxRows |-> 0, missingRequired |-> "null", missingForeign |-> "null",
     fetcherContract |-> "tolerant", broken |-> [path |-> None, how |-> "none"]]

Pages(plan) == IF plan[<<>>].resource = "Author" THEN {<<a1, a2>>, <<a2, a1, a1>>}
               ELSE {<<b1, b2>>, <<b3, b1>>}

\* Every world, with lenient and strict policies.
Answers ==
    UNION {{[Query(plan, docs, w) EXCEPT !.missingRequired = pol[1], !.missingForeign = pol[2]] :
               docs \in Pages(plan), w \in Worlds,
               pol \in {<<"null", "null">>, <<"null", "error">>, <<"error", "null">>}} :
           plan \in {Shelf, Choice, Volume}}

\* Few worlds, with every budget, fetchers that break the contract and hooks and
\* fetchers that fail.
Over == [Ordinary EXCEPT !.over = TRUE,
                         !.refs = [@ EXCEPT ![a1] = [@ EXCEPT !["books"] = <<b3, b2, b1>>]]]
Extra == [Ordinary EXCEPT !.extra = {a2, b3}]

Budgets ==
    {[Query(plan, <<a1, a2>>, w) EXCEPT !.limit = n, !.maxRows = m, !.fetcherContract = c] :
        plan \in {Shelf, Choice, Column}, w \in {Ordinary, Over, Extra}, n \in {0, 2},
        m \in {0, 4, 8, 30}, c \in {"tolerant", "strict"}}
Failing ==
    {[Query(plan, <<a1, a2>>, Ordinary) EXCEPT !.broken = [path |-> p, how |-> h]] :
        plan \in {Choice}, p \in {<<>>, <<"books">>, <<"picks">>, <<"picks", "author">>},
        h \in {"enrich", "serialize", "unbound", "fetch"}}
Single ==
    {[Query(Choice, docs, Ordinary) EXCEPT !.facade = f] :
        docs \in {<<a1>>, <<a2>>}, f \in {"byID", "entity"}}
    \cup {[Query(Choice, <<>>, Ordinary) EXCEPT !.facade = f] : f \in {"byID", "query"}}
Trials == Budgets \cup Failing \cup Single
Calls == Answers \cup Trials

Ordinaries == {Query(plan, <<a1, a2>>, Ordinary) : plan \in {Shelf, Choice}}
\* A required author that was not asked for has no author of her own.
Unasked ==
    {[Query(Shelf, <<a1>>, [World1(<< <<b1>>, <<>> >>, << <<a1>>, <<a2>>, <<NoId>> >>, <<>>,
                                   << <<b2>>, 1>>, <<>>, {}) EXCEPT !.extra = e])
      EXCEPT !.plan = Shelf @@ <<"books", "refs", "author">> :> To("Author", [Edge EXCEPT !.required = TRUE]),
             !.missingRequired = "error"] :
        e \in {{}, {b3}}}
=============================================================================
