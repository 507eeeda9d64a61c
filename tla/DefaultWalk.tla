---------------------------- MODULE DefaultWalk ----------------------------
(***************************************************************************)
(* checkDefaultCycles of graph/compile.go: a depth-first walk over the     *)
(* edges that are included by default, which reports a default include     *)
(* that would expand forever.                                              *)
(*                                                                         *)
(* links has, for every node in declaration order, its default edges: the  *)
(* key and the node it leads to.  The recursion is a stack of frames, each *)
(* with the default to look at next.                                       *)
(***************************************************************************)
EXTENDS Integers, Sequences

VARIABLES
    links,      \* the default edges of the nodes
    color,      \* white: not entered; grey: being walked; black: left
    stack,      \* the frames of the recursion, innermost last
    cycles      \* the reported nodes, with the key that closes the cycle

defaultVars == <<links, color, stack, cycles>>

-----------------------------------------------------------------------------
DefaultNodes == DOMAIN links
Follows(n) == DOMAIN links[n]
Leads(n, m) == \E i \in Follows(n) : links[n][i].target = m

IsLinks(g) == g \in Seq(Seq([key : STRING, target : DOMAIN g]))

DefaultInit ==
    /\ links = <<>>
    /\ color = <<>>
    /\ stack = <<>>
    /\ cycles = {}

BeginDefaults(g) ==
    /\ links' = g
    /\ color' = [n \in DOMAIN g |-> "white"]
    /\ stack' = <<>>
    /\ cycles' = {}

\* The outer loop starts at the first node that is still white.
StartAt(n) ==
    /\ stack = <<>>
    /\ color[n] = "white"
    /\ \A m \in DefaultNodes : m < n => color[m] # "white"
    /\ stack' = <<[node |-> n, at |-> 1]>>
    /\ color' = [color EXCEPT ![n] = "grey"]
    /\ UNCHANGED <<links, cycles>>

TopFrame == stack[Len(stack)]
Looking == stack # <<>> /\ TopFrame.at \in Follows(TopFrame.node)
Link == links[TopFrame.node][TopFrame.at]
Advanced == [stack EXCEPT ![Len(stack)].at = @ + 1]

\* A grey target is on the path that led here; one report per node.
CloseCycle ==
    /\ Looking
    /\ color[Link.target] = "grey"
    /\ cycles' = IF \E c \in cycles : c[1] = TopFrame.node THEN cycles
                 ELSE cycles \cup {<<TopFrame.node, Link.key>>}
    /\ stack' = Advanced
    /\ UNCHANGED <<links, color>>

Enter ==
    /\ Looking
    /\ color[Link.target] = "white"
    /\ stack' = Append(Advanced, [node |-> Link.target, at |-> 1])
    /\ color' = [color EXCEPT ![Link.target] = "grey"]
    /\ UNCHANGED <<links, cycles>>

PassBy ==
    /\ Looking
    /\ color[Link.target] = "black"
    /\ stack' = Advanced
    /\ UNCHANGED <<links, color, cycles>>

\* A mutant of Leave: a node that was left stays grey.
LeaveGrey ==
    /\ stack # <<>>
    /\ TopFrame.at \notin Follows(TopFrame.node)
    /\ stack' = SubSeq(stack, 1, Len(stack) - 1)
    /\ UNCHANGED <<links, color, cycles>>

Leave ==
    /\ stack # <<>>
    /\ TopFrame.at \notin Follows(TopFrame.node)
    /\ color' = [color EXCEPT ![TopFrame.node] = "black"]
    /\ stack' = SubSeq(stack, 1, Len(stack) - 1)
    /\ UNCHANGED <<links, cycles>>

DefaultStep == (\E n \in DefaultNodes : StartAt(n)) \/ CloseCycle \/ Enter \/ PassBy \/ Leave

DefaultsDone == stack = <<>> /\ \A n \in DefaultNodes : color[n] # "white"

\* The walk on its own, over any graph.
DefaultNext == DefaultStep \/ \E g \in Seq(Seq([key : STRING, target : Nat])) :
                                  IsLinks(g) /\ BeginDefaults(g)
DefaultSpec == DefaultInit /\ [][DefaultNext]_defaultVars

-----------------------------------------------------------------------------
\* From every set of nodes some node leads nowhere into the set: a path of
\* default edges cannot go on forever.
DefaultsEnd ==
    \A S \in SUBSET DefaultNodes : S # {} => \E n \in S : \A m \in S : ~Leads(n, m)

\* The walk reports something exactly when the default edges form a cycle, so
\* that a graph which compiles has none and one that has none is not refused
\* (checkDefaultCycles: "A default include that loops back onto its own node
\* would expand forever at plan time").
CyclesAreReported == DefaultsDone => (cycles = {} <=> DefaultsEnd)
=============================================================================
