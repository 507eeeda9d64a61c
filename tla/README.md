# Wireleaf, specified

TLA+ models of the wireleaf library (`src/`, Go), checked with TLC, and proofs
about them checked with TLAPS. Wireleaf serves `?include=` requests: an
application declares a graph of resources, a client names the edges it wants,
and the engine plans the request, fetches level by level and answers in JSON.

## The system

| Component | State it keeps | Operations | Modelled by |
|---|---|---|---|
| Side-data loader, `loader/loader.go`, `include/ctx.go` (State) | per request: a map of loader to state object; per state object: a mutex and a map of key to entry; per entry: a channel closed when it settles | `New`, `Warm`, `Get` | `Loader`, `RequestCache`, `LoaderInv`, `LoaderProofs` |
| Plan resolution, `include/resolve.go` | none between calls; within a call: the recursion, the node counter, the plan | `ResolvePlan` | `Planner`, `Selection`, `CostModel`, `PlannerProofs` |
| Materializer and facades, `include/materialize.go`, `include/hydrate.go`, `include/assemble.go` | the row counter and row budget of the Ctx; within a call: the recursion over levels | `Materialize`, `HydrateByQuery`, `HydrateByID`, `HydrateEntity` | `Materializer`, `Selection`, `CostModel`, `MaterializerProofs` |
| Hydrator, `include/hydrator.go` | options fixed at construction; a nil Registry of a Ctx is filled | the facades with parsing in front | not modelled: a wrapper around parse, plan and materialize |
| Include grammar, `include/parse.go` | none | `Parse`, `ParseExclude` | planned |
| Filters, `include/filter.go` | node, sub-query and hop counters of one call | `ResolveFilter`, `FilterSubqueries` | `Filter`, `FilterProofs` |
| Filter parsers, `include/filters/` | none | `ParseJSON`, `ParseQuery` | planned |
| Inputs, `graph/inputs.go`, `include/inputs.go`, `include/inputs_resolve.go`, `apidoc/inputparams.go` | none | declaring calls, `ResolveInputs`, `InputParams` | `ListInputs`, in `Graph`, `GraphProofs` |
| Sorting, errors, JSON helpers, `include/sort.go`, `errors.go`, `jsonx.go` | none | lookups and encoding | the sort lookup is one value of an argument in `Planner`; the rest not modelled (wording, encoding) |
| Graph builder and compiler, `graph/` | the declared nodes, edges, relations and fetchers, which only accumulate until `Compile`; then an immutable graph | `Node`, `Edge`, `Relate`, `Bind`, ..., `Compile`, the lookups of the graph | `Builder`, `WireShape`, `Wiring`, `DefaultWalk`, `FetchWalk`, `Compile`, `Graph`, `WalkProofs`, `GraphProofs` |
| JSON splicing, `jsonsplice/` | none | `Member`, `Elements`, `Splice` | an external of `Materializer`; a byte scanner, not modelled |
| Component set, `apidoc/build.go` | named schemas, the two directions of the type index, the wrapper index, external names | `RegisterReflected`, `RegisterNode`, `ExternalRefs`, `Verify` | `SchemaIR`, `Components` |
| Component emission, `apidoc/emit.go` | none between calls; within a call the walk over the nodes, the schemas, the rounds of inlining | `EmitComponents` | `EmitComponents` |
| huma adapter, `adapters/huma/` | two more type indexes, and a cache of converted schemas behind a read-write lock | `New`, `Bind`, `Register`, `RegisterTypeAlias`, `Schema`, `SchemaFromRef`, `TypeFromRef`, `Map`, `BuildInto` | `SchemaRegistry`, `Document`, `DocumentProofs`; decorators of operations and HTTP glue are not |
| Published response schema, `apidoc/schemafor.go`, `includepaths.go` | none between calls | `SchemaFor`, `IncludePaths` | `SchemaFor` |
| Reflector, `reflector/` | a type cache of a third-party library | struct to schema | its naming, reach and references, `Reflect` of `EmitComponents`; the conversion of one struct is not |
| Conformance harnesses, `graph/loadertest`, `apidoc/reflectortest`, `apidoc/crosscheck` | none | test suites for applications | not modelled |

How they interact. A handler parses the include string, calls a facade with a
`Ctx`; the facade resolves a plan (`Planner`), refuses a page that cannot fit
the row budget, fetches the root documents and materializes them
(`Materializer`). `Materialize` calls the application back: `Enrich`,
`Serialize`, `Guard`, and the fetchers of the Registry. Those callbacks share
data through loaders, whose state hangs on the same `Ctx` (`Loader`). The
engine itself is sequential; concurrency comes from applications that call
loaders from several goroutines of one request, and from the contract that lets
them. Planner and Materializer share one definition of an edge's limit and
estimate (`CostModel`), as `resolve.go` and `materialize.go` share
`resolvedLimit`, and of the loops that keep some elements of a list in order
(`Selection`): the children of a plan node, the parents a guard lets through,
the ids that resolved.

Before all that the application wires. It declares a graph (`Builder`) and
compiles it (`Compile`); what `Compile` admits are the input conditions of
`Planner` and `Materializer`, and `GraphIsServable` states them of the graph.
From the graph the adapter emits components into the set of the document, then
the application binds nodes to Go types and registers operations one by one, in
one goroutine (`Document`). Afterwards requests look schemas up concurrently.

What is hard in it:

- *concurrency*: overlapping batches of `Warm`, a `Get` that waits outside the
  lock, batches that fail or panic while others wait on them, retries that
  claim a key while the failed batch is still being dropped;
- *recursion with state carried along*: a default chain that must be copied and
  not shared, counters that count client edges only, defaults that form cycles;
- *batching*: one fetch for a whole level, its rows cut back into windows or
  looked up in an index, with repeated parents, repeated and missing ids,
  guards that must act before the fetch;
- *budgets*: a static estimate, a pre-check by division, and a runtime counter
  kept on the Ctx over all levels;
- *wiring*: a hundred kinds of mistake in calls that only record, in any order,
  to be reported once and together; checks that must look at the whole graph
  (cycles of defaults, fetchers needed three defaults away);
- *naming*: node names, Go type names and aliases meet in one name space, and
  what a nested type is called depends on what is registered by then;
- *fixpoints*: auxiliary structs inlined into components around cycles, tagged
  fields and opaque fragments;
- *failure*: three policies over missing references, fetchers that break their
  contract, hooks that fail, cancellation in mid-request.

## Modules

### RequestCache and Loader

`RequestCache` is what the loader promises: per loader and key a slot that goes
from unknown to loading to an outcome that stays, or back to unknown; a Warm
answers nil only when all its keys have an outcome; a Get that began when its
key was known hits. No locks, entries or waiting.

`Loader` is the code. A *call* is one invocation of `Warm` or `Get`; `pc` is
where it is. One action per stretch of code between two points where another
goroutine can interfere:

| Action | Code |
|---|---|
| `StartWarm`, `StartGet` | the checks before `perRequest` |
| `PerRequest` | `Ctx.State`, one critical section of the Ctx mutex |
| `Claim` | the locked loop of `Warm` |
| `FetchSucceeds`, `FetchFails` | fetch returns, fails or panics, and the mutex is taken |
| `StoreKey`, `FailKey` | one turn of the settling loop: waiters may go on after each `close(e.done)` although the mutex is held |
| `Unlock` | the end of that critical section; a panic goes on unwinding |
| `Lookup` | the locked lookup of `Get` |
| `AwaitEntry`, `GetReturns`, `WarmReturns` | `<-e.done` and what is read after it |

Entries are heap objects named by the call that made them, so an entry dropped
from the map and still held by a waiter is told from its successor. A fetch may
itself make calls (`Caller`, `MayCall`), joined before it returns.

`ImplementsRequestCache` is the refinement: slots are read off the maps and
entries, answers off `pc`, `err` and `hit`.

### CostModel and Planner

A path is a sequence of include keys, a client tree a prefix-closed set of
paths, a plan a function on its paths. The recursive closure `build` of
`ResolvePlan` is a stack of frames; one step is one turn of its loop over a
level's keys, one action per way that turn can go (`RejectUnknownEdge`,
`RejectTooManyNodes`, `SkipDefault`, `RejectTooDeep`, `RejectArgs`,
`RejectUnderComputed`, `Descend`, `LevelDone`), then the two passes of
`applyExclude` (`RejectExclude`, `ApplyExclude`) and the cost check
(`RejectTooExpensive`, `Accept`). Arguments are known by what `validateArgs`
can tell of them; several failures of one node are one code, so Go's map order
does not show. Costs are machine integers: `InWidth` is two's complement of width
`2 * IntHalf`.

### SchemaFor

`apidoc` publishes the response schema of an include tree and the paths a client
may use; each repeats a part of what the planner decides. `SchemaFor` translates
the two recursions as recursive functions over the call the planner is at, so that
one run compares them with the plan. A schema is a set of entries, a path and what
stands there: a reference, an inlined object, a computed schema, an error.
Shapes of values are left out, and so are nil thunks, which `Compile` excludes.
Wholly zero limits mean the defaults to `SchemaFor` and no include at all to the
planner, so that the two agree on failures only where limits are given
(`LimitsGiven`); the run makes calls of both kinds.

### Materializer

A row is a model value and its own id. A call comes with its *world*: what the
rows refer to, which are hidden by their fetcher, which parents are guarded, and
how the application's fetchers misbehave. A document is a row with the values
of its edges; bytes and envelope spelling are left out. `Materialize` is a
stack of frames: entering a level (`EnterCancelled`, `EnterOverBudget`,
`EnterLevel`), one edge of a level at a time (`FetchEdge`, `OpenEmpty`,
`ResolveEmpty`), and the end of a level, where a nested level hands its
documents to the edge that opened it (`LevelDone`, `Attach`). Several calls on
one Ctx follow each other (`NextCall`), as the row counter demands, and the
context may be cancelled between any two steps (`Cancel`).

`Naive` is the reference: the same answer computed one document and one
reference at a time, without levels, batches, indexes or windows.

### Filter

A condition tree is a function on positions, a position the sequence of member
numbers from the root. The three mutually recursive functions are one walk in
document order: `pc` tells whether a position is being resolved or a path
walked, `nodes` and `subqueries` live as long as the call, `many` and `hops` as
long as one path. One action per way a function can go:

| Action | Code |
|---|---|
| `NoFilter`, `NoRoot` | the head of `ResolveFilter` |
| `NilMember` | `group`, before the member is counted |
| `TooManyNodes`, `Malformed`, `OpenGroup` | `resolve` and the head of `group` |
| `PathTooLong`, `OpenCond` | the head of `cond` |
| `UnknownEdge`, `EdgeNotFilterable`, `BadQuantifier`, `TooManyMany`, `TargetMissing`, `Hop` | one turn of the loop over the path |
| `TooExpensive`, `BadLeaf`, `ResolveCond` | the end of `cond` |

Text in an error path is a name and whether it was clipped. Column types are
what the operator matrix tells apart. A pointer to a node is the node; nil
pointers and foreign types have kinds of their own. Values are carried through
and left out. `LegalPart` states what the limits and the graph ask of a tree
without a walk, and the properties compare the walk with it.

### The graph: Builder, WireShape, ListInputs, Wiring, Compile, Graph

An application is a *script*, the sequence of its declaring calls; `Builder` has
one action per call, and each is the whole method: what `Relate` records on two
edges, what `SetRelation` and the `RelationForeignKey` write to them. Two more
actions are the mistakes: a call left out (`Forget`), a call too many
(`AddCall`). The calls considered are those Go's types admit (`IsCall`). Handles are positions, so that a later call edits what an earlier
one declared. A call on a builder that was compiled panics (`LateCall`).

`WireShape` derives from a Go struct what encoding/json writes for it: embedded
structs flattened, shadowed names, ties, tags, cyclic embedding; and the columns
bound to its fields. `ListInputs` has the declarations of list parameters, the
request side (`ResolveInputs`) and the documentation side (`InputParams`).

`Wiring` translates the rules of `Compile` as operators that give findings, a
finding being the node, the edge and the rule, never the sentence. `Compile` has
one action per pass (`CheckIdentity`, `CheckNodes`, `CheckEdges`, `CheckNames`,
`CheckPairs`, `CheckCycles`, `CheckFetchers`), each writing the tables that later
passes read, and the two walks step by step in modules of their own:

| Module | Code | A step |
|---|---|---|
| `DefaultWalk` | `checkDefaultCycles`, depth first in three colours | one default edge of the innermost frame, or leaving it |
| `FetchWalk` | `checkFetchers`, breadth first from the roots | one edge of the first node in the queue |

`Graph` is what the engine sees of the result (`LimitOf`, `EnvelopeOf`,
`FetchByIDs`, `Reachable`, ...) and states what may be relied on.

### The document: SchemaIR, EmitComponents, Components, SchemaRegistry, Document

A schema is what the references in it make of it: the shapes it is put together
from, each at the path of keys where it stands, and the `$ref`s left. That is
enough to tell inlining that goes wrong: a shape at the wrong place, a `$ref`
kept or lost. Keywords, requiredness, order and scalars are left out.

`EmitComponents` has one action for a turn of `collectReachable` (`Collect`; the
order of an edge map is nondeterministic, as it is in Go), one for reflecting
the wire structs and stitching the edges in (`ReflectAndStitch`), one for a round
of `inlineAux` (`InlineRound`) and one for its end (`Prune`). The reflector is
what the emission asks of it: which structs a type reaches, what each is called,
where it refers to another.

`Components` is the set of the document with its registrations; a caller panics
where one is refused. `SchemaRegistry` is the bridge to huma: the goroutines of
requests look up under the read lock (`Lookup`), convert under none (`Convert`)
and insert under the write lock (`Insert`). `Map()`, which serves the whole
document, is a lookup per name. `Document` puts them together: `New`, then the
application's calls (`Bind`, `RegisterTypeAlias`, `Whitelist`, `SchemaFromRef`,
`RegisterOperation`, `BuildInto`) in any order, then `Serve` and the requests. A
call that panics ends the wiring.

## What the runs check

| Run | Question | Instance and why it is enough |
|---|---|---|
| `LoaderSafety` | Is there one flight per key, no poisoning, nothing forgotten, and does the loader implement the request cache? | Three calls over two keys and two loaders, one of them without a fetch. Two calls race for every key, and the third can retry what a failed one drops while the other still waits; batches overlap partly, fully or not |
| `LoaderNested` | Does every call return when fetches call other loaders? | Two outer calls, each with a nested one, two loaders in a fixed order, one key |
| `PlannerCalls` | Does the plan hold exactly what was asked plus defaults minus excludes, does each request get the verdict it deserves, and do the published schema and paths agree? | Three graphs with default cycles, a diamond, a stale default and all edge kinds; trees of two branches of length two or one of length three; exclude lists of two paths; all combinations of arguments on one edge; limits on both sides of each tree |
| `PlannerRequired` | Is a required default always planned? | No: see findings |
| `PlannerOverflow` | Does MaxCost cap the estimate? | No, in machine integers: see findings. Integers have 16 bits and estimates 200 rows; 64 bits need four levels of 60000 |
| `MaterializerCalls` | Is batching invisible, do policies judge every parent, are fetches warranted? Do the row budget, its pre-check and cancellation work, over two calls on one Ctx? | 5832 combinations of three plans, two pages, 324 worlds and three policy settings: a document listed twice, a row shared by two parents, an id repeated in a list, empty, hidden and guarded references. And every pair out of 100 calls with budgets below, at and above what the plans bring, fetchers that return too much under both contracts, each hook failing at each node, cancellation at every step |
| `FilterCalls` | Does each filter get the verdict, the reported fault and the resolved tree it deserves, within a bounded amount of work? | Single conditions: every path of two steps out of eleven (both arities, good, bad and missing quantifiers, edges that are closed, computed, unknown or lead nowhere), seven leaves; groups of up to three of ten members, flat and nested, with paths of up to three to-many hops; four settings of the limits, below, at and above what the trees need, one of them the defaults |
| `MaterializerRows` | Does `Rows()` count the request? | No: see findings |
| `MaterializerTolerance` | Is the tolerant contract silent? | No: see findings |
| `GraphWiring` | Is what compiles servable and free of inert declarations, and what is right never refused? | Three wirings of a library of three nodes (chained calls, relations, literals) with all edge kinds, default chains, guards, bound, cleared and shared fetchers; each with every single slip: any one call left out, or any one of a few hundred wrong ones added (`MaxSlips` = 1). Every rule of `Wiring` and `WireShape` is broken by one of them |
| `DocumentServing` | Is inlining exact, does every `$ref` lead somewhere, do bindings hold in any order, is one schema served per name? | 576 graphs and more: every way three helper structs refer to one another, plain, tagged or opaque, below two nodes that are emitted in either order. A wired library: every choice of up to three of fifteen calls in every order, with bodies, wrappers, envelopes, aliases and types that share names; and broken worlds that must fail. Two goroutines, two lookups each (`MaxLookups` = 2): enough to convert one name twice at once |
| `DocumentNamesakes` | Is a component only ever one type's? | No: see findings |

Two authors and three books are enough for two parents to share a row, for a
page to list a document twice and for a window to start after another one.
`IntHalf` is smaller than 2^63 only to stay within TLC's integers; in the runs
that must not wrap it is far above any cost.

### Properties

- Loader: `SingleFlight`, `WarmedIsKnown`, `FailuresAreForgotten`,
  `KnownIsServed`, `SettledForever` (a step never un-settles a key),
  `ImplementsRequestCache`, `EveryCallReturns`.
- Planner: `PlanIsWhatWasAsked` (no default lost or leaked between siblings),
  `VerdictIsRight`, `ExcludeIsExact`, `Returns`.
- SchemaFor: `SchemaMirrorsPlan`, `PublishedPathsAreServed`.
- Materializer: `BatchedEqualsNaive`, `FailsForAReason`, `FetchesAreWarranted`,
  `BudgetHolds`, `PrecheckIsSound`, `AtMostOneLateFetch`, `CallEnds`.
- Filter: `VerdictIsRight`, `FirstFaultWins` (which fault is reported),
  `ResolvedMirrorsFilter` (the hops chain from the root to the column, and
  `FilterSubqueries` is the number that was limited), `WorkIsBounded`,
  `EchoIsBounded` (client text in errors is clipped, graph names only where the
  graph knows them).
- Graph: `GraphIsServable` (every lookup the engine makes on any plan finds its
  fetcher and closures, promises are kept, to-many rows are counted, filterable
  edges lead to columns), `NothingIsInert` (every option of every edge is one
  the engine reads), `CyclesAreReported` and `NeedsAreExact` (the two walks
  against fixpoints), `NoFalseAlarm` (no finding without a mistake; an edge
  without a kind is one finding, neither more at the edge nor one at an edge that
  calls it its inverse), `ListingsMatchDocument` (a request is accepted exactly when
  the document lists its parameters).
- Document: `InlineIsExact` (against the full expansion along fields),
  `DanglingOnlyByDeclaration`, `FieldsFollowBindings`, `OneSchemaPerName`,
  `ServedIsRegistered`.
- one `TypeOK` per component whose state is worth one; in `Materializer` it includes the alignment of
  the open levels with the plan and of edge values with documents.

### Fairness

`Loader.FairSpec` has weak fairness of every running call: goroutines are
scheduled and the loader's mutex is held for a bounded loop only. It includes
the fetch: the contract says a fetch returns, fails or panics. Nothing obliges
a call to be made. Nested calls follow a fixed order between loaders, which the
documentation of `New` asks for; two fetches that warm each other's loaders
deadlock, in the model and in the code. `Planner` and `Materializer` have weak
fairness of the one goroutine that runs the call; not of `Cancel` nor of
further calls. `Graph` and `Document` state safety only; the two walks are
finite by the colours and the visited set.

## What is proved

`LoaderProofs` proves, for any number of calls, loaders and keys, any nesting
and any set of loaders without a fetch: `TypeCorrect`, `NeverFetchedTwice`
(SingleFlight), `WarmTeaches` (WarmedIsKnown), `FailuresForgotten`,
`KnownServed`, `SettledStays` (SettledForever). The only assumption is
`ConstantsAssumption` of `Loader`.

The argument is the inductive invariant `IInv` of `LoaderInv`. None of the
properties is inductive alone: two calls do not fetch the same key because an
open entry is in the map (`MapMatchesHeap`), the map has one entry per key, all
calls of a loader use one map (`OneStateObject`), and the keys a fetching call
claimed are exactly its open entries (`OwnerPhase`). A Warm that returns nil
knows its keys because each of them is its own, waited for, or settled in the
map (`KeysCovered`), and entries waited for are of the same state object
(`PendingEntries`). `OwedIsFound` carries the value a Get may count on. One
lemma per action shows that it preserves the invariant; `FailKey`, `Lookup` and
`Claim` have lemmas of their own for the parts they disturb.

Its last part proves the refinement, `LoaderIsRequestCache`: every
behaviour of `Loader` is one of `RequestCache`. It needs one fact more than
`IInv`, `AskedOnce`: a call is asked once, reports a hit only by returning and
waits for keys it was asked for. There is one lemma per action, named for what
the step is to the cache: a claim loads, storing or failing a key settles or
forgets it at one loader only (`OneEntry`), a call that ends gives an answer it
may give, and allocating a state object, taking the mutex or one more wait are
stutters.

`FilterProofs` proves for every graph, every finite tree and all limits, from
the assumptions of `Filter` on the graph, the default limits and the calls, all
that the runs check of it: `FilterTypeCorrect` (TypeOK),
`ResolveFilterIsBounded` (WorkIsBounded), `ResolveFilterIsRight`
(VerdictIsRight), `ResolveFilterBlamesTheFirst` (FirstFaultWins),
`ResolveFilterMirrorsTheTree` (ResolvedMirrorsFilter) and
`ResolveFilterEchoIsBounded` (EchoIsBounded). `WorkInv` has the bounds: between
conditions the total is within its limit, on a path it exceeds it by no more
than the hops of that path, and a walk stays on a path that was within the
depth limit when it began. `VerdictInv` has the verdict: what precedes the
position in document order is legal, resolved and counted, member by member,
and of the condition under way the steps before the current one are. So a tree
is accepted when the walk has passed its last position, and when it stops, all
before the fault was legal and the fault is not. The properties count over
sets of positions and the walk adds one at a time; lemmas of `Induction` on sums
and cardinalities connect the two.

`PlannerProofs` proves for every graph, every finite client tree, any defaults,
exclude list and limits: `ResolvePlanTypeCorrect` (TypeOK),
`ResolvePlanBuildsWhatWasAsked` (PlanIsWhatWasAsked),
`ResolvePlanVerdictIsRight` (VerdictIsRight) and
`ResolvePlanExcludesExactly` (ExcludeIsExact), all from the one inductive
invariant of `PlanInvariant`. It assumes what `Planner` does: the keys have an
order without repetition (`KeyOrderAssumption`), no resource or edge is the
value that stands for none (`NoneAssumption`), and the calls and the graph are
well formed (`InputsAssumption`). `PlanInv` relates the half-built plan to its
declarative definition: below each node it has left, the plan holds exactly what
belongs there; below a node on the stack, what belongs there except the keys
still to come (`PlanSoFar`). Each open level carries the resource, the depth and
the default chain of its own path and not a sibling's (`LevelsOpen`), which is
what a shared chain would break; the counter is the number of client paths in
the plan (`NodesCounted`); and no path that was passed had a fault (`Deserves`).
That the recursion ends in a plan at all, for defaults that form cycles, is
not assumed: what belongs in a plan is defined along the path, and a path that
never repeats a default target is finite.

The same module proves what `SchemaFor` is checked for: `PublishedPathsServe`
(PublishedPathsAreServed) and `SchemaForMirrorsPlan` (SchemaMirrorsPlan). Both
walks are recursive functions whose values are sets, and what is proved of them
follows from the equation they satisfy. That something satisfies it is
`CollectExists`, for any such recursion; that it has no entry too many is
`CollectsNoMore`, which needs the recursion to end: the paths because of `MaxDepth`,
the schema because the client tree is finite and a default chain takes one more of
finitely many resources at each hop (`ResourcesAssumption`, `SchemaDescribesNoMore`).
Each level of the schema is then the level of the plan at the same path, with the
same default chain (`LevelOfBelow`, `PlanIsDescribed`). For the failures the proof
goes the other way: if no entry is an error, every client path can be followed to
its end (`NoErrorIsUsable`), and then the planner had nothing to reject.

`Induction` holds what these proofs need of induction. The induction theorems of
the library take an operator as a parameter, which the provers cannot
instantiate, so the module states induction over the naturals, intervals and
subsets of a finite set for *sets*: a set of numbers that has 0 and is closed
under successor has them all. It derives them from the well-foundedness of
the order on the naturals and from them the existence of a function that
satisfies a step-by-step definition (`StepwiseExists`) or a recursion over sets
that ends (`CollectExists`, `CollectsNoMore`), facts on prefixes of a sequence, and
sums over sets.

`WalkProofs` proves the two walks of `Compile` for every graph, however many
nodes and edges: `DefaultCyclesReported` (CyclesAreReported) and
`FetchNeedsExact` (NeedsAreExact). For the first, `DefaultInv` says that the
stack is a path of default edges through exactly the grey nodes; that what a
frame is past is black, black leads to black alone, and among black nodes there
is always one that leads to none of them. So when the walk ends without a
report no set of nodes leads back into itself, and a report closes a cycle on
the stack. For the second, `FetchInv` says that the visited nodes are reachable
from the roots, and that every edge of a visited node is either noted or in the
queue's part still to come.

`GraphProofs` proves of `Compile`, for any scripts of declaring calls, any
number of slips in them and any list parameters, what the runs check of it but
one property. `CompileWalksDefaults` and `CompileWalksFetchers` show that every
compilation refines the two walks, from which `CompiledCyclesReported`
(CyclesAreReported) and `CompiledNeedsExact` (NeedsAreExact) follow by the
theorems of `WalkProofs`. `CompiledIsServable` (GraphIsServable),
`CompiledIsNotInert` (NothingIsInert) and `CompiledListingsMatch`
(ListingsMatchDocument) say what a graph without findings may be relied on for.
They assume that calls and request parameters have values of their Go types
(`ScriptsAssumption`, `RawsAssumption`), that structs are well formed
(`StructsAssumption`) and that the value that stands for none is no error code
(`NoneAssumption`).

The invariant is `CompileInv`. Its first half, `DeclaredInv`, says that
declaring calls leave nodes and edges with their fields, each of its type, and
the roots among the nodes. Its second half, `PassesInv`, is
about the passes: each leaves the tables it derives behind as functions of what
was declared, and as long as nothing was found, what it checks has no fault
(`EdgesClean`, `PairClean`, `FetchersChecked`). That is what the
properties need: they are about the tables, which hold no trace of the rules. From there each clause is an argument by cases over the rule that
would have been broken. What is reachable is defined by walks of as many steps
as there are nodes; `OnwardStays` shows that such a walk never leaves a set
closed under its edges, as the nodes the fetchers were walked from are.

`DocumentProofs` proves, for any worlds and any number of goroutines,
`OneSchemaServed` (OneSchemaPerName), `ServedIsHeld` (a schema handed out has
the body the set holds), `ComponentsAreWriteOnce`, `DanglingIsDeclared`
(DanglingOnlyByDeclaration), `FieldsDocumentNodes` (FieldsFollowBindings),
`ServedStaysTyped` (ServedIsRegistered) and `InliningExact` (InlineIsExact). It
assumes `WorldsAssumption`: finitely many nodes and types, edges and fields that
lead to them, library types that go by their components' names, as those of
`envelope.go` do, names that are names and not the value that stands for none, and
keys given once: the edges of a node are a map, and the properties of a JSON object
have different names.

`ServingInv` adds that a conversion under way is already honest (`PendingHeld`):
it was made of a component that can only stay what it is. The next three rest on
`IndexInv`: the two directions of the type index agree, a type goes by its Go
name or its node's (`Claims`), and a name that is bound has a schema or is a bound
node's. That no `$ref` dangles starts with the emission (`EmitInv`): while nodes
are collected their edges lead to what is collected or on the stack, a reflection
is closed under fields (`ReachedFacts`: a round that adds nothing is the last, and
there are as many rounds as types), and neither inlining nor pruning takes a
component away that something refers to. From `New` on, each registration refers
to what is there, is declared, or is registered with it (`AnsweringResolves`).

That inlining is exact, and ends within the rounds the code allows it, rests on
`InliningInv`: during the rounds every schema, auxiliary or not, is the expansion of
what was stitched along the fields up to one common depth (`Expanded`). The schemas
a round substitutes were expanded themselves in the round before, so a round takes
the depth `d` to `2d + 1` (`RoundExpands`) and inlines paths of exactly `d + 1` keys
(`RoundInlines`). An inlinable path passes each source at most once, for a source
met twice would be on a cycle, and the sources are those that are on none
(`SourcesAcyclic`, between the rounds of `AuxInCycle` and the paths `IsCyclic` is
stated with); so no path is longer than there are sources (`InlinedBounded`), a round
that finds something to inline comes before the limit (`RoundBounded`), and when
none does, nothing inlinable is left (`AllInlined`).

`FieldsDocumentNodes` and `ServedStaysTyped` name what they need of the types, for the code does not
refuse it: two Go types of one name are the finding `DocumentNamesakes`.
`WiresOwnTheirNames`: a node's wire type is worth a component and no other type or
node has its Go name; a field reflected before its node is bound goes by the Go
name, and would otherwise be left with a name that is not the node's.
`NamesakesAlike`: no type that is not a struct takes the name of one; a later
registration of equal body replaces the type a name stands for. Every world of
`DocumentServing` satisfies both.

`MaterializerProofs` proves, for any plans, documents, worlds, policies and
number of calls on one Ctx, what the runs check of a call except that it ends:
`BudgetCapsRows` (BudgetHolds),
`CancellationStops` (AtMostOneLateFetch), `TypesHold` (TypeOK),
`BatchingIsInvisible` (BatchedEqualsNaive), `FailuresHaveReasons`
(FailsForAReason), `BatchesAreWarranted` (FetchesAreWarranted) and
`EstimateIsSafe` (PrecheckIsSound). It assumes
what `Materializer` does: the keys have an order without repetition
(`KeyOrderAssumption`), the rows of a world are finitely many and the empty id is
none of them (`RowsAssumption`), a request makes at least one call
(`BoundAssumption`), and a call has a plan that the planner could return and
rows of the resources its edges lead to (`InputsAssumption`).

The first two theorems need `MInv` only. The stack of levels is never empty
while a call runs, only its top may still have to be entered, and only its
bottom is the root's (`Levels`). From the moment the root is entered the Ctx
counts the rows of this call against this call's budget, whatever an earlier
call left there (`BudgetInv`). A fetch begun after the cancellation leaves a
level to enter on top, and entering it fails (`LateInv`).

The others need `AnswerInv`, for neither the answer nor the faults can be read
off one level: a value is right only if the level below it fetched the right rows
and took them apart at the right places. The open levels form a chain, each one
at the edge the level below it is at, with the rows that edge leads to from the
documents of that level, which are the rows `Needed` there when the fetchers
return nothing else. The edges a level is through with have, document by
document, the value that resolving each on its own would give. An edge
that was come to asked for nothing or found its fetcher working, one that is resolved was
judged for every row needed there, and there is one batch for each edge that was
come to and had ids. `Naive` and `Needed` are recursive along the path; that
they exist is proved along its length with `Induction`, and each step
of the batched algorithm (distinct ids in one set, an index of their documents,
windows whose ends are running sums) has a lemma that compares it with what one
reference would give.

`EstimateIsSafe` compares two different sums: the rows the engine counts level by
level as it fetches, and the product of the page size and the edges' row bounds
along every path of the plan. `EstimateInv` joins them: the rows counted are at
most the documents of the root times the exact rows of the nodes passed. A
level has no more rows than its path's product allows (`NextRowsBounded`,
`LevelsEstimated`), and the terms of nodes still to come only make the sum larger
(`SumGrows`). The engine computes in a machine integer; where the exact cost
fits one the two agree (`CostIsExact`). That is the hypothesis `Fits` of the theorem,
and it cannot be dropped: a plan whose cost wraps around is the finding of
`PlannerOverflow`.

Model-checked only: liveness (`EveryCallReturns`, `Returns`, `CallEnds`), which
is out of the prover's reach, and `NoFalseAlarm`, which is about the scripts of the
run, known to be right.

## Findings

- `PlannerRequired`: a default edge that leads back to the root or to an
  ancestor entered by defaults is cut even when it is required, so
  `GET /authors?include=books` answers books without their required author.
- `PlannerOverflow`: the product of declared row estimates wraps, and a plan far
  above `MaxCost` is accepted.
- `MaterializerRows`: a second hydrate call on a Ctx restarts `Rows()`, which is
  documented as the count of the request.
- `MaterializerTolerance`: rows nobody asked for are dropped only after they
  were expanded: they can fail a request that the tolerant policy should answer.
- `DocumentNamesakes`: a struct nested in a body that has the Go name of an
  already registered type of another package is documented, and its bodies
  validated, by that type's schema; the other order of registration panics.

## Not modelled

- Encoding, escaping and wording: `jsonx.go`, `errors.go`, `ir_serialize.go`, the
  byte layout of `assemble.go`, the byte scanner of `jsonsplice`.
- Keywords, nullability, requiredness and property order of schemas; the DSL and
  unions of `apidoc`; the conversion of one struct, which a third-party
  reflector drives.
- Of the huma adapter: the decorators of operations (`op.go`), the merge into a
  plain huma registry, HTTP.
- The parsers of `?include=` and of filters, and the Hydrator, a wrapper around
  parse, plan and materialize. The registry race of two Hydrators on one Ctx is
  forbidden by the documentation of `Ctx`.
- The conformance harnesses, which are tests for applications.

Some behaviours are modelled as the code has them and deserve a reader's
attention, though nothing in the repository says otherwise clearly enough to
call them findings: a conversion cached before its type is bound stays opaque;
binding a node that nothing leads to leaves a dangling `$ref` until `Verify`
finds it; an external name that equals the name of an auxiliary struct is inlined
like one. All three are admitted by `Declared`, `ServedIsRegistered` and
`InlineIsExact` as stated.

## Plan

In this order:

1. `IncludeGrammar`, `FilterQuery`: the parsers over tokens, against the
   grammars of the documentation; their size limits.
2. The decorators of operations (`op.go`): which error responses an operation
   documents against which it can give.
3. `Splice`: member lookup and replacement over JSON tokens against a reference.
