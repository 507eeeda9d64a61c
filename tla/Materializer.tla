---------------------------- MODULE Materializer ----------------------------
(***************************************************************************)
(* The hydrate pipeline after planning (include/hydrate.go) and Materialize *)
(* of include/materialize.go: a plan is expanded level by level over a set *)
(* of root documents, one batch fetch per edge and level.  The calls are   *)
(* made one after the other on one Ctx, as its row counter demands; the    *)
(* request may be cancelled at any time.                                   *)
(*                                                                         *)
(* A row is a model value and its own id.  A call comes with its world:    *)
(* what the rows refer to and how the application's fetchers behave.  A    *)
(* document is a row with the values of its edges; the bytes are left out. *)
(* The recursion is a stack of frames, one per open level.                 *)
(***************************************************************************)
EXTENDS CostModel, Selection

CONSTANTS Resources, Rows, Keys,
          KeyOrder,    \* the order of a node's children in a plan
          None,        \* the root has no edge, a healthy plan no broken path
          Null,        \* JSON null
          NoId,        \* the empty id
          Absent,      \* no such member
          Inputs,      \* the calls considered: see IsInput
          MaxCalls,    \* bound: the hydrate calls of one request
          Repeatable,  \* bound: the calls that share their request with others
          Cancellable  \* bound: the calls during which the context may be cancelled

ASSUME KeyOrderAssumption ==
    /\ KeyOrder \in Seq(Keys)
    /\ Range(KeyOrder) = Keys
    /\ IsInjective(KeyOrder)

ASSUME RowsAssumption == IsFiniteSet(Rows) /\ NoId \notin Rows

ASSUME BoundAssumption == MaxCalls \in Nat \ {0}

VARIABLES
    in,         \* the plan, documents, world and policies of the call
    status,     \* where the call is, or how it ended
    stack,      \* the open levels, innermost last
    ctxRows,    \* Ctx.rows
    ctxMax,     \* Ctx.maxRows
    result,     \* the documents returned
    fetches,    \* history: the batch fetches of the call, in order
    served,     \* history: the rows materialized by the call
    spent,      \* history: the rows materialized on this Ctx by earlier calls
    calls,      \* history: how many calls were made
    cancelled,  \* the request's context is cancelled
    late        \* history: the fetches of the call begun after that

vars == <<in, status, stack, ctxRows, ctxMax, result, fetches, served, spent, calls,
          cancelled, late>>

-----------------------------------------------------------------------------
Failures == {"budget", "cancelled", "notFound", "rootFetch", "enrich", "serialize", "unbound",
             "fetch", "contract", "missingRequired", "danglingFK", "lengthMismatch"}
Statuses == {"start", "levels", "ok"} \cup Failures
Ended == status \in {"ok"} \cup Failures

Node(p) == in.plan[p]
EdgeOf(p) == in.plan[p].edge
World == in.world
Guarded(p, r) == Last(p) \in World.guarded[r]

\* The calls considered, their plan one that ResolvePlan could return.  The
\* rows a world refers to are of the resource the edge leads to.
EdgeShape == [kind : Kinds, bare : BOOLEAN, limit : Nat, est : Nat, required : BOOLEAN,
              missingRequired : {"null", "error", "inherit"},
              missingForeign : {"null", "error", "inherit"}]

IsPlan(pl) ==
    /\ <<>> \in DOMAIN pl
    /\ IsFiniteSet(DOMAIN pl)
    /\ \A p \in DOMAIN pl :
          /\ p \in Seq(Keys)
          /\ pl[p].resource \in Resources
          /\ p # <<>> =>
                /\ Front(p) \in DOMAIN pl
                /\ pl[p].edge \in EdgeShape
                /\ pl[p].edge.required => pl[p].edge.kind = "toOne"
                /\ pl[p].args.limit \in Nat
                /\ Front(p) # <<>> => pl[Front(p)].edge.kind # "computed"

IsWorld(w) ==
    /\ w.resource \in [Rows -> Resources]
    /\ w.refs \in [Rows -> [Keys -> Seq(Rows \cup {NoId})]]
    /\ w.guarded \in [Rows -> SUBSET Keys]
    /\ \A r \in Rows : w.array[r] \in Nat \cup {Absent}
    /\ {w.hidden, w.extra} \subseteq SUBSET Rows
    /\ w.hidden \cap w.extra = {}
    /\ w.over \in BOOLEAN

IsInput(i) ==
    /\ IsPlan(i.plan) /\ IsWorld(i.world)
    /\ i.docs \in Seq(Rows)
    /\ \A r \in Range(i.docs) : i.world.resource[r] = i.plan[<<>>].resource
    /\ \A p \in DOMAIN i.plan \ {<<>>} : \A r \in Rows :
          i.world.resource[r] = i.plan[Front(p)].resource =>
             LET ids == i.world.refs[r][Last(p)] IN
             /\ \A id \in Range(ids) \ {NoId} : i.world.resource[id] = i.plan[p].resource
             /\ i.plan[p].edge.kind = "toOne" => Len(ids) <= 1
             /\ i.plan[p].edge.kind = "reverse" => NoId \notin Range(ids)
    /\ i.facade \in {"query", "byID", "entity"}
    /\ i.facade # "query" => i.limit = 0 /\ Len(i.docs) <= 1
    /\ i.facade = "entity" => Len(i.docs) = 1
    /\ i.limit \in Nat /\ i.maxRows \in Nat
    /\ i.missingRequired \in {"null", "error"} /\ i.missingForeign \in {"null", "error"}
    /\ i.fetcherContract \in {"tolerant", "strict"}
    /\ i.broken.how \in {"none", "enrich", "serialize", "unbound", "fetch"}

ASSUME InputsAssumption ==
    /\ \A i \in Inputs : IsInput(i)
    /\ Repeatable \subseteq Inputs

\* Policies: an edge's own, else the engine-wide one of the Ctx.
StrictRequired(p) ==
    EdgeOf(p).required /\ "error" = IF EdgeOf(p).missingRequired = "inherit" THEN in.missingRequired
                                    ELSE EdgeOf(p).missingRequired
StrictForeign(p) ==
    "error" = IF EdgeOf(p).missingForeign = "inherit" THEN in.missingForeign
              ELSE EdgeOf(p).missingForeign

\* In-array children are resolved first, then the others in plan order; computed
\* ones not at all.
KeysOf(p, kinds) ==
    {k \in Keys : Append(p, k) \in DOMAIN in.plan /\ EdgeOf(Append(p, k)).kind \in kinds}
Children(p) ==
    Picked(KeyOrder, KeysOf(p, {"inArray"}))
    \o Picked(KeyOrder, KeysOf(p, {"toOne", "hasMany", "reverse"}))

-----------------------------------------------------------------------------
\* What one parent row refers to through the edge at p.
Refs(p, r) == World.refs[r][Last(p)]
Limit(p) == IF EdgeOf(p).bare THEN 0 ELSE ResolvedLimit(EdgeOf(p), Node(p).args)
Trim(p, s) == IF Limit(p) > 0 /\ Len(s) > Limit(p) THEN SubSeq(s, 1, Limit(p)) ELSE s

\* The closures the edge kinds hand to collectIDs.
Collected(p, r) ==
    CASE EdgeOf(p).kind = "toOne" -> Selected(Refs(p, r), Rows)
      [] EdgeOf(p).kind = "hasMany" -> Trim(p, Refs(p, r))
      [] EdgeOf(p).kind = "inArray" -> Refs(p, r)
      [] EdgeOf(p).kind = "reverse" -> <<r>>

\* CollectAll is a mutant of Collect: the guard is asked when the values are
\* built only.
CollectAll(p, docs) == (UNION {Range(Collected(p, docs[i])) : i \in DOMAIN docs}) \ {NoId}
\* collectIDs, and its variant in resolveReverse: the guard first, then the
\* distinct ids of the level.
Collect(p, docs) ==
    (UNION {Range(Collected(p, docs[i])) : i \in {j \in DOMAIN docs : ~Guarded(p, docs[j])}})
        \ {NoId}

\* The reverse edge lists its parents in document order.
Parents(p, docs) == Picked(docs, {r \in Rows : ~Guarded(p, r)})

\* What the fetchers return: by ids, the rows they let through and perhaps some
\* nobody asked for; by parents, a page of each parent's rows with the probe
\* for more, or all of them and no probe.
ByIds(p, ids) ==
    (ids \ World.hidden) \cup {r \in World.extra : World.resource[r] = Node(p).resource}
ByParent(p, r) ==
    LET all == World.refs[r][Last(p)] IN
    [rows |-> IF World.over THEN all ELSE Trim(p, all),
     more |-> IF World.over THEN EdgeOf(p).bare ELSE Len(all) > Len(Trim(p, all))]
\* KeptAll is a mutant of Kept: over-returned rows are not truncated.
KeptAll(p, r) == ByParent(p, r).rows
Kept(p, r) == Trim(p, ByParent(p, r).rows)

\* The strict fetcher contract: nothing that was not requested, no more rows
\* than the limit, no more beyond a bare edge.
BreaksContract(p, docs) ==
    IF EdgeOf(p).kind = "reverse"
    THEN \/ World.extra # {}
         \/ \E i \in DOMAIN docs : ~Guarded(p, docs[i]) /\
               LET got == ByParent(p, docs[i]) IN
               \/ Limit(p) > 0 /\ Len(got.rows) > Limit(p)
               \/ Limit(p) = 0 /\ got.more
    ELSE ~(ByIds(p, Collect(p, docs)) \subseteq Collect(p, docs))

\* The rows of the next level.
NextRows(p, docs) ==
    IF EdgeOf(p).kind = "reverse"
    THEN FlattenSeq([i \in DOMAIN Parents(p, docs) |-> Kept(p, Parents(p, docs)[i])])
    ELSE SetToSeq(ByIds(p, Collect(p, docs)))

-----------------------------------------------------------------------------
\* The value of an edge for one parent: the documents of its targets come in
\* index, a function on the ids that resolved, or for a reverse edge in items.
List(p, items, more) == [items |-> items, more |-> more /\ ~EdgeOf(p).bare]

ForwardValue(p, r, index) ==
    LET ids == IF Guarded(p, r) THEN <<>> ELSE Collected(p, r)
        One(i) == IF i \in DOMAIN index THEN index[i] ELSE Null
        hits == Selected(ids, DOMAIN index)
    IN  CASE EdgeOf(p).kind = "toOne" -> IF ids = <<>> THEN Null ELSE One(ids[1])
          [] EdgeOf(p).kind = "hasMany" ->
                 List(p, [i \in DOMAIN hits |-> index[hits[i]]],
                      ~Guarded(p, r) /\ Len(ids) < Len(Refs(p, r)))
          [] EdgeOf(p).kind = "inArray" ->
                 IF World.array[r] = Absent THEN Absent
                 ELSE [i \in 1..World.array[r] |-> IF Guarded(p, r) THEN Null ELSE One(ids[i])]

\* What the policies object to for one parent, found being the ids that resolved.
ForwardFault(p, r, found) ==
    LET ids == IF Guarded(p, r) THEN <<>> ELSE Collected(p, r)
        dangling == IF StrictForeign(p) /\ \E i \in Range(ids) : i # NoId /\ i \notin found
                    THEN "danglingFK" ELSE "none"
        resolved == ids # <<>> /\ ids[1] \in found
    IN  CASE EdgeOf(p).kind = "toOne" ->
                 IF StrictRequired(p) /\ ~resolved THEN "missingRequired" ELSE dangling
          [] EdgeOf(p).kind = "hasMany" -> dangling
          [] EdgeOf(p).kind = "inArray" ->
                 IF World.array[r] = Absent \/ Guarded(p, r) THEN "none"
                 ELSE IF Len(ids) # World.array[r] THEN "lengthMismatch" ELSE dangling
          [] OTHER -> "none"

ReverseValue(p, r, items) ==
    IF Guarded(p, r) THEN List(p, <<>>, FALSE) ELSE List(p, items, ByParent(p, r).more)

-----------------------------------------------------------------------------
Top == Last(stack)
ChildPath == Append(Top.path, Head(Top.todo))
Frame(p, docs) == [path |-> p, docs |-> docs, phase |-> "enter", todo |-> Children(p),
                   vals |-> <<>>]

Fail(why) ==
    /\ status' = why
    /\ stack' = <<>>

\* A call begins, its plan resolved: a page whose estimate exceeds the budget is
\* refused before its root fetch (budgetCheck; limit is 0 without a page size).
RefuseEarly(i) ==
    i.limit > 0 /\ i.maxRows > 0 /\ Cost(i.plan) > 0 /\ i.limit > i.maxRows \div Cost(i.plan)

Begins(i) == IF RefuseEarly(i) THEN "budget" ELSE "start"

Init ==
    /\ in \in Inputs
    /\ status = Begins(in)
    /\ stack = <<>>
    /\ ctxRows = 0
    /\ ctxMax = 0
    /\ result = <<>>
    /\ fetches = <<>>
    /\ served = 0
    /\ spent = 0
    /\ calls = 1
    /\ cancelled = FALSE
    /\ late = 0

NextCall ==
    /\ Ended
    /\ calls < MaxCalls /\ in \in Repeatable
    /\ in' \in Repeatable
    /\ status' = Begins(in')
    /\ result' = <<>>
    /\ fetches' = <<>>
    /\ served' = 0
    /\ spent' = spent + served
    /\ calls' = calls + 1
    /\ late' = 0
    /\ UNCHANGED <<stack, ctxRows, ctxMax, cancelled>>

\* The root documents: loaded by the endpoint's fetcher or handed in.  An id
\* nobody has is a 404.
RootDocs ==
    /\ status = "start"
    /\ late' = IF cancelled /\ in.facade # "entity" THEN late + 1 ELSE late
    /\ IF in.broken.path = <<>> /\ in.broken.how = "fetch" /\ in.facade # "entity"
       THEN Fail("rootFetch")
       ELSE IF in.facade = "byID" /\ in.docs = <<>> THEN Fail("notFound")
       ELSE /\ status' = "levels"
            /\ stack' = <<Frame(<<>>, in.docs)>>
    /\ UNCHANGED <<in, ctxRows, ctxMax, result, fetches, served, spent, calls, cancelled>>

\* Entering a level: the context, then the budget, which the root arms, then
\* Enrich and Serialize of the whole level.
Entering == status = "levels" /\ Top.phase = "enter"
Counted == (IF Top.path = <<>> THEN 0 ELSE ctxRows) + Len(Top.docs)
Budget == IF Top.path = <<>> THEN in.maxRows ELSE ctxMax

EnterCancelled ==
    /\ Entering
    /\ cancelled
    /\ Fail("cancelled")
    /\ UNCHANGED <<in, ctxRows, ctxMax, result, fetches, served, spent, calls, cancelled, late>>

OverBudget == Budget > 0 /\ ~(Counted <= Budget)

\* The application's Enrich of a level fails, or Serialize of a document of it.
LevelBroken ==
    /\ in.broken.path = Top.path
    /\ \/ in.broken.how = "enrich"
       \/ in.broken.how = "serialize" /\ Top.docs # <<>>

EnterOverBudget ==
    /\ Entering
    /\ ~cancelled
    /\ OverBudget
    /\ ctxRows' = Counted
    /\ ctxMax' = Budget
    /\ Fail("budget")
    /\ UNCHANGED <<in, result, fetches, served, spent, calls, cancelled, late>>

\* EnterLevelUnchecked is a mutant of EnterLevel: the context is not looked at.
EnterLevelUnchecked ==
    /\ Entering
    /\ ~OverBudget
    /\ ctxRows' = Counted
    /\ ctxMax' = Budget
    /\ served' = served + Len(Top.docs)
    /\ IF LevelBroken
       THEN Fail(in.broken.how)
       ELSE stack' = [stack EXCEPT ![Len(stack)].phase = "edges"] /\ UNCHANGED status
    /\ UNCHANGED <<in, result, fetches, spent, calls, cancelled, late>>

\* EnterLevelCountsLevel is a mutant of EnterLevel: it forgets the rows of the
\* levels before.
EnterLevelCountsLevel ==
    /\ Entering
    /\ ~cancelled
    /\ ~OverBudget
    /\ ctxRows' = Len(Top.docs)
    /\ ctxMax' = Budget
    /\ served' = served + Len(Top.docs)
    /\ IF LevelBroken
       THEN Fail(in.broken.how)
       ELSE stack' = [stack EXCEPT ![Len(stack)].phase = "edges"] /\ UNCHANGED status
    /\ UNCHANGED <<in, result, fetches, spent, calls, cancelled, late>>

EnterLevel ==
    /\ Entering
    /\ ~cancelled
    /\ ~OverBudget
    /\ ctxRows' = Counted
    /\ ctxMax' = Budget
    /\ served' = served + Len(Top.docs)
    /\ IF LevelBroken
       THEN Fail(in.broken.how)
       ELSE stack' = [stack EXCEPT ![Len(stack)].phase = "edges"] /\ UNCHANGED status
    /\ UNCHANGED <<in, result, fetches, spent, calls, cancelled, late>>

\* One edge for the whole level.  Without ids there is no fetch, and a forward
\* edge then opens no level either.
Resolving == status = "levels" /\ Top.phase = "edges" /\ Top.todo # <<>>

FetchEdge ==
    /\ Resolving
    /\ LET p == ChildPath
           ids == Collect(p, Top.docs)
           why == IF in.broken.path = p THEN in.broken.how ELSE "none"
       IN  /\ ids # {}
           /\ fetches' = IF why = "unbound" THEN fetches
                         ELSE Append(fetches, [path |-> p, ids |-> ids])
           /\ late' = IF cancelled /\ why # "unbound" THEN late + 1 ELSE late
           /\ IF why \in {"unbound", "fetch"} THEN Fail(why)
              ELSE IF in.fetcherContract = "strict" /\ BreaksContract(p, Top.docs)
              THEN Fail("contract")
              ELSE stack' = Append(stack, Frame(p, NextRows(p, Top.docs))) /\ UNCHANGED status
    /\ UNCHANGED <<in, ctxRows, ctxMax, result, served, spent, calls, cancelled>>

\* A reverse edge without parents still opens its level, with no rows.
OpenEmpty ==
    /\ Resolving
    /\ EdgeOf(ChildPath).kind = "reverse"
    /\ Collect(ChildPath, Top.docs) = {}
    /\ stack' = Append(stack, Frame(ChildPath, <<>>))
    /\ UNCHANGED <<in, status, ctxRows, ctxMax, result, fetches, served, spent, calls,
                   cancelled, late>>

\* The level is finished: each document takes its edges' values.
Assemble(f) ==
    [i \in DOMAIN f.docs |->
        [row |-> f.docs[i],
         edges |-> [k \in {j \in DOMAIN f.vals : f.vals[j][i] # Absent} |-> f.vals[k][i]]]]

\* The values of the edge at p for the level f, the documents of the edge's own
\* level being out, aligned with rows.
Index(rows, out) == [r \in Range(rows) |-> out[CHOOSE i \in DOMAIN rows : rows[i] = r]]
\* Where the window of each of the parents ps ends.
Ends(p, ps) ==
    LET end[n \in 0..Len(ps)] == IF n = 0 THEN 0 ELSE end[n - 1] + Len(Kept(p, ps[n]))
    IN  end
\* ItemsByDocument is a mutant: the windows follow the documents, not the
\* parents of the request.
ItemsByDocument(p, f, out, r) ==
    LET at == CHOOSE i \in DOMAIN f.docs : f.docs[i] = r
        ends == Ends(p, f.docs)
    IN  SubSeq(out, Min({ends[at - 1], Len(out)}) + 1, Min({ends[at], Len(out)}))
Items(p, f, out, r) ==
    LET ps == Parents(p, f.docs)
        at == CHOOSE i \in DOMAIN ps : ps[i] = r
    IN  SubSeq(out, Ends(p, ps)[at - 1] + 1, Ends(p, ps)[at])
\* ValuesPerParent is a mutant of Values: a reverse edge yields one value per
\* parent of the request.
ValuesPerParent(p, f, rows, out) ==
    IF EdgeOf(p).kind = "reverse"
    THEN [i \in DOMAIN Parents(p, f.docs) |->
             ReverseValue(p, Parents(p, f.docs)[i], Items(p, f, out, Parents(p, f.docs)[i]))]
    ELSE [i \in DOMAIN f.docs |-> ForwardValue(p, f.docs[i], Index(rows, out))]
Values(p, f, rows, out) ==
    [i \in DOMAIN f.docs |->
        IF EdgeOf(p).kind = "reverse"
        THEN ReverseValue(p, f.docs[i],
                          IF Guarded(p, f.docs[i]) THEN <<>> ELSE Items(p, f, out, f.docs[i]))
        ELSE ForwardValue(p, f.docs[i], Index(rows, out))]
\* FaultsForgive is a mutant of Faults: a dangling reference is never one.
FaultsForgive(p, f, rows) ==
    {i \in DOMAIN f.docs :
        ForwardFault(p, f.docs[i], Range(rows)) \notin {"none", "danglingFK"}}
\* The documents of the level f that a policy objects to.
Faults(p, f, rows) ==
    {i \in DOMAIN f.docs : ForwardFault(p, f.docs[i], Range(rows)) # "none"}

\* The level f with the edge at p resolved.
WithEdge(f, p, values) ==
    [k \in DOMAIN f.vals \cup {Last(p)} |-> IF k = Last(p) THEN values ELSE f.vals[k]]

\* AttachStays is a mutant of Attach: an edge without rows is tried again.
AttachStays(p, f, rest, rows, out) ==
    IF Faults(p, f, rows) # {}
    THEN Fail(ForwardFault(p, f.docs[Min(Faults(p, f, rows))], Range(rows)))
    ELSE /\ stack' = Append(rest, [f EXCEPT !.todo = IF rows = <<>> THEN @ ELSE Tail(@),
                                            !.vals = WithEdge(f, p, Values(p, f, rows, out))])
         /\ UNCHANGED status
\* The edge at p is resolved for the level f, below which stack rest lies open:
\* the first document objected to decides.
Attach(p, f, rest, rows, out) ==
    IF Faults(p, f, rows) # {}
    THEN Fail(ForwardFault(p, f.docs[Min(Faults(p, f, rows))], Range(rows)))
    ELSE /\ stack' = Append(rest, [f EXCEPT !.todo = Tail(@),
                                            !.vals = WithEdge(f, p, Values(p, f, rows, out))])
         /\ UNCHANGED status

\* A forward edge nobody refers through.
ResolveEmpty ==
    /\ Resolving
    /\ EdgeOf(ChildPath).kind # "reverse"
    /\ Collect(ChildPath, Top.docs) = {}
    /\ Attach(ChildPath, Top, Front(stack), <<>>, <<>>)
    /\ UNCHANGED <<in, ctxRows, ctxMax, result, fetches, served, spent, calls, cancelled, late>>

LevelDone ==
    /\ status = "levels"
    /\ Top.phase = "edges"
    /\ Top.todo = <<>>
    /\ IF Len(stack) = 1
       THEN /\ result' = Assemble(Top)
            /\ status' = "ok"
            /\ stack' = <<>>
       ELSE /\ LET f == stack[Len(stack) - 1] IN
               Attach(Top.path, f, SubSeq(stack, 1, Len(stack) - 2), Top.docs, Assemble(Top))
            /\ UNCHANGED result
    /\ UNCHANGED <<in, ctxRows, ctxMax, fetches, served, spent, calls, cancelled, late>>

\* The client goes away or the deadline passes.
Cancel ==
    /\ in \in Cancellable
    /\ ~cancelled
    /\ cancelled' = TRUE
    /\ UNCHANGED <<in, status, stack, ctxRows, ctxMax, result, fetches, served, spent, calls, late>>

Finished == Ended /\ (calls = MaxCalls \/ in \notin Repeatable) /\ UNCHANGED vars

Hydrate == \/ RootDocs \/ EnterCancelled \/ EnterOverBudget \/ EnterLevel
           \/ FetchEdge \/ OpenEmpty \/ ResolveEmpty \/ LevelDone

Next == NextCall \/ Hydrate \/ Cancel \/ Finished

Spec == Init /\ [][Next]_vars /\ WF_vars(Hydrate)

-----------------------------------------------------------------------------
\* What a call should answer, resolved one document and one reference at a time,
\* without levels, batches, an index or windows.
Targets(p, r) ==
    IF Guarded(p, r) THEN {}
    ELSE IF EdgeOf(p).kind = "reverse" THEN Range(Kept(p, r))
    ELSE Range(Collected(p, r)) \ ({NoId} \cup World.hidden)

\* The value of the edge at p for row r, doc giving the document of each of its
\* targets, and the document of r at p, docs giving those of the paths below.
NaiveValue(p, r, doc) ==
    IF EdgeOf(p).kind = "reverse"
    THEN ReverseValue(p, r, [i \in DOMAIN Kept(p, r) |-> doc[Kept(p, r)[i]]])
    ELSE ForwardValue(p, r, [t \in Targets(p, r) |-> doc[t]])
NaiveEdges(p, r, docs) ==
    [k \in Range(Children(p)) |-> NaiveValue(Append(p, k), r, docs[Append(p, k)])]
NaiveDoc(p, r, docs) ==
    LET edges == NaiveEdges(p, r, docs)
    IN  [row |-> r, edges |-> [k \in {j \in DOMAIN edges : edges[j] # Absent} |-> edges[k]]]
NaiveDocs == LET D[p \in DOMAIN in.plan] == [r \in Rows |-> NaiveDoc(p, r, D)] IN D
Naive == [i \in DOMAIN in.docs |-> NaiveDocs[<<>>][in.docs[i]]]

\* The rows a node is asked for, needed giving those of the node above, and the
\* edges and parents that are visited.
NeededAt(p, needed) ==
    IF p = <<>> THEN Range(in.docs)
    ELSE IF EdgeOf(p).kind = "computed" THEN {}
    ELSE UNION {Targets(p, r) : r \in needed[Front(p)]}
Needed == LET N[p \in DOMAIN in.plan] == NeededAt(p, N) IN N
Edges == {p \in DOMAIN in.plan \ {<<>>} : EdgeOf(p).kind # "computed"}
NaiveFaults ==
    (UNION {{ForwardFault(p, r, Rows \ World.hidden) : r \in Needed[Front(p)]} : p \in Edges})
        \ {"none"}
\* The ids that parents outside the guard hold, within the limit.
Wanted(p) ==
    (UNION {Range(Collected(p, r)) : r \in {q \in Needed[Front(p)] : ~Guarded(p, q)}}) \ {NoId}

Conforming == World.extra = {}
PolicyFailures == {"missingRequired", "danglingFK", "lengthMismatch"}
IsBroken(p) == in.broken.path = p /\ in.broken.how # "none"

-----------------------------------------------------------------------------
\* The levels stay aligned with the plan: each open level is a child of the one
\* below it, and the edges a level has resolved have one value per document.
TypeOK ==
    /\ IsInput(in)
    /\ status \in Statuses
    /\ (stack = <<>>) = (status # "levels")
    /\ \A n \in DOMAIN stack :
          /\ n = 1 => stack[n].path = <<>>
          /\ n > 1 => stack[n].path = Append(stack[n - 1].path, Head(stack[n - 1].todo))
          /\ Range(stack[n].docs) \subseteq Rows
          /\ \A r \in Range(stack[n].docs) : World.resource[r] = Node(stack[n].path).resource
          /\ \A k \in DOMAIN stack[n].vals : Len(stack[n].vals[k]) = Len(stack[n].docs)
          /\ stack[n].phase = "enter" => n = Len(stack) /\ stack[n].vals = <<>>
    /\ ctxRows \in Nat /\ served \in Nat /\ spent \in Nat /\ late \in Nat
    /\ calls \in 1..MaxCalls

\* Level batching is invisible (materialize.go:1-4): the answer is what resolving
\* every document and every reference on its own would give, in document order.
BatchedEqualsNaive == status = "ok" => result = Naive

\* The policies judge every parent of every level (resolve.go:199-221): a call
\* that answers had nothing to object to and met no broken fetcher, and a call
\* a policy fails has a fault of that kind.
FailsForAReason ==
    Conforming =>
        /\ status \in PolicyFailures => status \in NaiveFaults
        /\ status = "ok" =>
              /\ NaiveFaults = {}
              /\ \A p \in Edges : IsBroken(p) /\ in.broken.how \in {"fetch", "unbound"} =>
                     Wanted(p) = {}
        /\ status = "contract" => World.over

\* A batch asks once per edge of the plan, for all and only the ids that its
\* parents hold, within the limit and past the guard ("its ids never reach the
\* DB", materialize.go:156-157), whatever was fetched before.
FetchesAreWarranted ==
    /\ \A i, j \in DOMAIN fetches : fetches[i].path = fetches[j].path => i = j
    /\ Conforming => \A i \in DOMAIN fetches : fetches[i].ids = Wanted(fetches[i].path)

\* MaxRows caps the rows actually materialized by one call, over all of its
\* levels (resolve.go:25-27).
BudgetHolds == in.maxRows > 0 => served <= in.maxRows

\* The estimate errs on the safe side: a page whose estimate fits the budget never
\* runs out of it, as long as the page is no longer than asked, the unbounded
\* edges bring what they were estimated to and nothing unrequested comes back.
AsEstimated ==
    /\ Conforming
    /\ \A p \in Edges : EdgeOf(p).kind \in ManyKinds =>
          \A r \in Rows : EdgeOf(p).bare \/ EdgeOf(p).kind = "inArray" =>
             Len(Refs(p, r)) <= Multiplier(Node(p))
PrecheckIsSound ==
    status = "budget" /\ AsEstimated /\ in.limit >= Len(in.docs) => RefuseEarly(in)

\* A cancelled request stops at the next level (docs/include.md:893): it has at
\* most one more fetch made for it.
AtMostOneLateFetch == late <= 1

\* Every hydrate call ends, with an answer or a failure.
CallEnds == status \in {"start", "levels"} ~> Ended

\* ctx.go:181-184 and docs/include.md:227: Rows reports the documents
\* materialized for this request so far.
RowsCountsRequest == status = "ok" => ctxRows = spent + served

\* resolve.go:179-180: a tolerant engine corrects a fetcher's violations silently,
\* by truncating and dropping.
ToleranceIsSilent ==
    in.fetcherContract = "tolerant" /\ status \in PolicyFailures => status \in NaiveFaults
=============================================================================
