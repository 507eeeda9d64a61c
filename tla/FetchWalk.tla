----------------------------- MODULE FetchWalk -----------------------------
(***************************************************************************)
(* checkFetchers of graph/compile.go: a breadth-first walk from the root   *)
(* nodes over every edge the engine may load, which collects the nodes     *)
(* that need a fetcher and by which of their edges.                        *)
(*                                                                         *)
(* loads has, for every node in declaration order, the edges that can be   *)
(* included or are by default: the node each leads to, whether it is a     *)
(* reverse edge, and whether that edge has a fetcher of its own.           *)
(***************************************************************************)
EXTENDS Integers, Sequences

VARIABLES
    loads,      \* the edges of the nodes
    seeds,      \* the root nodes
    visited,    \* the nodes that are or were in the queue
    queue,      \* the nodes still to be walked
    at,         \* the edge of the first of them to look at next
    needIDs,    \* <<n, m, i>>: m needs FetchIDs for the i-th edge of n
    needParents \* the same of FetchParents

fetchVars == <<loads, seeds, visited, queue, at, needIDs, needParents>>

-----------------------------------------------------------------------------
FetchNodes == DOMAIN loads
LoadsOf(n) == DOMAIN loads[n]
IsLoads(g) == g \in Seq(Seq([target : DOMAIN g, reverse : BOOLEAN, served : BOOLEAN]))

\* A reverse edge without a fetcher of its own asks its target for the rows of
\* its parents, an edge of another kind for rows by id.
AsksParents(e) == e.reverse /\ ~e.served
AsksIDs(e) == ~e.reverse

FetchInit ==
    /\ loads = <<>> /\ seeds = {}
    /\ visited = {} /\ queue = <<>> /\ at = 1
    /\ needIDs = {} /\ needParents = {}

\* The roots enter the queue once each, in declaration order.
BeginFetchers(g, roots) ==
    /\ loads' = g
    /\ seeds' = {roots[i] : i \in DOMAIN roots}
    /\ visited' = {roots[i] : i \in DOMAIN roots}
    /\ queue' = roots
    /\ at' = 1
    /\ needIDs' = {} /\ needParents' = {}

Walking == Head(queue)
Examining == queue # <<>> /\ at \in LoadsOf(Walking)
Examined == loads[Walking][at]

\* A mutant of Examine: the walk follows the edges by id alone.
ExamineForward ==
    /\ Examining
    /\ needIDs' = IF AsksIDs(Examined) THEN needIDs \cup {<<Walking, Examined.target, at>>}
                  ELSE needIDs
    /\ needParents' = IF AsksParents(Examined)
                      THEN needParents \cup {<<Walking, Examined.target, at>>}
                      ELSE needParents
    /\ visited' = IF AsksIDs(Examined) THEN visited \cup {Examined.target} ELSE visited
    /\ queue' = IF Examined.target \in visited \/ ~AsksIDs(Examined) THEN queue
                ELSE Append(queue, Examined.target)
    /\ at' = at + 1
    /\ UNCHANGED <<loads, seeds>>

Examine ==
    /\ Examining
    /\ needIDs' = IF AsksIDs(Examined) THEN needIDs \cup {<<Walking, Examined.target, at>>}
                  ELSE needIDs
    /\ needParents' = IF AsksParents(Examined)
                      THEN needParents \cup {<<Walking, Examined.target, at>>}
                      ELSE needParents
    /\ visited' = visited \cup {Examined.target}
    /\ queue' = IF Examined.target \in visited THEN queue ELSE Append(queue, Examined.target)
    /\ at' = at + 1
    /\ UNCHANGED <<loads, seeds>>

NextNode ==
    /\ queue # <<>>
    /\ at \notin LoadsOf(Walking)
    /\ queue' = Tail(queue)
    /\ at' = 1
    /\ UNCHANGED <<loads, seeds, visited, needIDs, needParents>>

FetchStep == Examine \/ NextNode
FetchersDone == queue = <<>>

\* The walk on its own, over any graph.
IsRoots(roots, g) == roots \in Seq(DOMAIN g)
FetchNext ==
    \/ FetchStep
    \/ \E g \in Seq(Seq([target : Nat, reverse : BOOLEAN, served : BOOLEAN])), roots \in Seq(Nat) :
           IsLoads(g) /\ IsRoots(roots, g) /\ BeginFetchers(g, roots)
FetchSpec == FetchInit /\ [][FetchNext]_fetchVars

-----------------------------------------------------------------------------
\* A set of nodes the engine never leaves.
Closed(S) == \A n \in S : \A i \in LoadsOf(n) : loads[n][i].target \in S

\* The nodes the walk has visited are those the engine can reach from the roots.
Reaches(n) == \A S \in SUBSET FetchNodes : seeds \subseteq S /\ Closed(S) => n \in S

\* The walk asks for a fetcher exactly where a request can need one: for the
\* target of every edge of every node that can be reached from a root, by the
\* lookup that edge will make, and for no other node (checkFetchers).
NeedsAreExact ==
    FetchersDone =>
        \A n \in FetchNodes : \A i \in LoadsOf(n) :
            LET e == loads[n][i] IN
            /\ <<n, e.target, i>> \in needIDs <=> AsksIDs(e) /\ Reaches(n)
            /\ <<n, e.target, i>> \in needParents <=> AsksParents(e) /\ Reaches(n)
=============================================================================
