----------------------------- MODULE WalkProofs -----------------------------
(***************************************************************************)
(* The two walks of Compile over any graph: default cycles are reported    *)
(* exactly when there are some, and fetchers are asked for exactly where   *)
(* the engine can need one.                                                *)
(***************************************************************************)
EXTENDS DefaultWalk, FetchWalk, SequenceTheorems, TLAPS

-----------------------------------------------------------------------------
(* checkDefaultCycles. *)

Colors == {"white", "grey", "black"}
Frames == [node : DefaultNodes, at : Nat]
OnStack(n) == \E i \in DOMAIN stack : stack[i].node = n
Black(n) == color[n] = "black"

DefaultTypes ==
    /\ IsLinks(links)
    /\ color \in [DefaultNodes -> Colors]
    /\ stack \in Seq(Frames)
    /\ \A i \in DOMAIN stack : stack[i].at >= 1

\* The stack is a path of default edges through the grey nodes, each once.
StackIsPath ==
    /\ \A n \in DefaultNodes : color[n] = "grey" <=> OnStack(n)
    /\ \A i, j \in DOMAIN stack : stack[i].node = stack[j].node => i = j
    /\ \A i \in DOMAIN stack : i < Len(stack) =>
          /\ stack[i].at - 1 \in Follows(stack[i].node)
          /\ links[stack[i].node][stack[i].at - 1].target = stack[i + 1].node

\* A default that was looked at and is not the one being followed.
Past(i, j) == j < stack[i].at /\ (i < Len(stack) => j # stack[i].at - 1)

Trapped(S) == S # {} /\ \A n \in S : \E m \in S : Leads(n, m)
Ends(S) == \E n \in S : \A m \in S : ~Leads(n, m)

\* As long as nothing was reported: what is past is black, black leads to black
\* alone, and no black nodes hold a cycle.
PastIsBlack ==
    \A i \in DOMAIN stack : \A j \in Follows(stack[i].node) :
        Past(i, j) => Black(links[stack[i].node][j].target)
BlackIsClosed ==
    \A n \in DefaultNodes : Black(n) => \A j \in Follows(n) : Black(links[n][j].target)
BlackEnds == \A S \in SUBSET DefaultNodes : S # {} /\ (\A n \in S : Black(n)) => Ends(S)

DefaultInv ==
    /\ DefaultTypes
    /\ StackIsPath
    /\ cycles = {} => PastIsBlack /\ BlackIsClosed /\ BlackEnds
    /\ cycles # {} => \E S \in SUBSET DefaultNodes : Trapped(S)

LEMMA DefaultInitially == DefaultInit => DefaultInv
<1> SUFFICES ASSUME DefaultInit PROVE DefaultInv
  OBVIOUS
<1>1. links = <<>> /\ color = <<>> /\ stack = <<>> /\ cycles = {}
  BY DEF DefaultInit
<1>2. DefaultNodes = {}
  BY <1>1 DEF DefaultNodes
<1>3. DefaultTypes
  BY <1>1, <1>2 DEF DefaultTypes, IsLinks, DefaultNodes
<1>4. StackIsPath /\ PastIsBlack /\ BlackIsClosed /\ BlackEnds
  BY <1>1, <1>2 DEF StackIsPath, PastIsBlack, BlackIsClosed, BlackEnds
<1> QED
  BY <1>1, <1>3, <1>4 DEF DefaultInv

LEMMA BeginKeeps ==
  ASSUME NEW g, IsLinks(g), BeginDefaults(g)
  PROVE  DefaultInv'
<1>1. links' = g /\ color' = [n \in DOMAIN g |-> "white"] /\ stack' = <<>> /\ cycles' = {}
  BY DEF BeginDefaults
<1>2. DefaultTypes'
  BY <1>1 DEF DefaultTypes, IsLinks, DefaultNodes, Colors
<1>3. \A n \in DefaultNodes' : color'[n] = "white"
  BY <1>1 DEF DefaultNodes
<1>4. StackIsPath' /\ PastIsBlack'
  BY <1>1, <1>3 DEF StackIsPath, PastIsBlack, OnStack
<1>5. BlackIsClosed' /\ BlackEnds'
  BY <1>3 DEF BlackIsClosed, BlackEnds, Black
<1> QED
  BY <1>1, <1>2, <1>4, <1>5 DEF DefaultInv

LEMMA TopFacts ==
  ASSUME DefaultTypes, stack # <<>>
  PROVE  /\ Len(stack) \in Nat /\ Len(stack) >= 1
         /\ DOMAIN stack = 1..Len(stack)
         /\ \A i \in DOMAIN stack :
               stack[i].node \in DefaultNodes /\ stack[i].at \in Nat /\ stack[i].at >= 1
         /\ TopFrame.node \in DefaultNodes /\ TopFrame.at \in Nat /\ TopFrame.at >= 1
<1>1. stack \in Seq(Frames) /\ \A i \in DOMAIN stack : stack[i].at >= 1
  BY DEF DefaultTypes
<1>2. Len(stack) \in Nat /\ Len(stack) >= 1 /\ DOMAIN stack = 1..Len(stack)
  BY <1>1
<1>3. ASSUME NEW i \in DOMAIN stack
      PROVE  stack[i].node \in DefaultNodes /\ stack[i].at \in Nat /\ stack[i].at >= 1
  <2>1. stack[i] \in Frames
    BY <1>1, <1>2, <1>3
  <2> QED
    BY <1>1, <1>3, <2>1 DEF Frames
<1>4. Len(stack) \in DOMAIN stack
  BY <1>2
<1> QED
  BY <1>2, <1>3, <1>4 DEF TopFrame

LEMMA LinkFacts ==
  ASSUME DefaultTypes, NEW n \in DefaultNodes
  PROVE  /\ Len(links[n]) \in Nat /\ Follows(n) = 1..Len(links[n])
         /\ \A j \in Follows(n) : links[n][j].target \in DefaultNodes
<1> DEFINE T == [key : STRING, target : DefaultNodes]
<1>1. links \in Seq(Seq(T)) /\ n \in DOMAIN links
  BY DEF DefaultTypes, IsLinks, DefaultNodes
<1> HIDE DEF T
<1>2. links[n] \in Seq(T)
  BY <1>1
<1> DEFINE l == links[n]
<1>3. l \in Seq(T)
  BY <1>2
<1> HIDE DEF l
<1>4. Len(l) \in Nat /\ DOMAIN l = 1..Len(l) /\ \A j \in DOMAIN l : l[j] \in T
  BY <1>3
<1>5. \A j \in DOMAIN l : l[j].target \in DefaultNodes
  BY <1>4 DEF T
<1> QED
  BY <1>4, <1>5 DEF l, Follows

LEMMA LookingFacts ==
  ASSUME DefaultTypes, Looking
  PROVE  stack # <<>> /\ TopFrame.at \in Follows(TopFrame.node) /\ Link.target \in DefaultNodes
<1>1. stack # <<>> /\ TopFrame.at \in Follows(TopFrame.node)
  BY DEF Looking
<1> QED
  BY <1>1, TopFacts, LinkFacts DEF Link

\* The stack after the edge on top was looked at.
LEMMA AdvancedFacts ==
  ASSUME DefaultTypes, Looking
  PROVE  /\ Advanced \in Seq(Frames)
         /\ Len(Advanced) = Len(stack)
         /\ \A i \in DOMAIN stack : Advanced[i].node = stack[i].node
         /\ \A i \in DOMAIN stack : i # Len(stack) => Advanced[i].at = stack[i].at
         /\ Advanced[Len(stack)].at = TopFrame.at + 1
<1>1. stack # <<>> /\ stack \in Seq(Frames)
  BY DEF Looking, DefaultTypes
<1>2. Len(stack) \in Nat /\ Len(stack) \in DOMAIN stack
  BY <1>1
<1> DEFINE last == stack[Len(stack)]
           top == [last EXCEPT !.at = last.at + 1]
<1>3. last \in Frames
  BY <1>1, <1>2
<1>4. Advanced = [stack EXCEPT ![Len(stack)] = top] /\ last = TopFrame
  BY DEF Advanced, TopFrame
<1> HIDE DEF last
<1>5. top \in Frames /\ top.node = last.node /\ top.at = last.at + 1
  BY <1>3 DEF Frames
<1> HIDE DEF top
<1>6. Advanced \in Seq(Frames) /\ Len(Advanced) = Len(stack)
  BY <1>1, <1>2, <1>4, <1>5
<1>7. \A i \in DOMAIN stack : Advanced[i] = IF i = Len(stack) THEN top ELSE stack[i]
  BY <1>1, <1>4
<1> QED
  BY <1>2, <1>4, <1>5, <1>6, <1>7 DEF TopFrame

LEMMA AdvanceKeepsPath ==
  ASSUME DefaultTypes, StackIsPath, Looking, stack' = Advanced, UNCHANGED <<links, color>>
  PROVE  DefaultTypes' /\ StackIsPath'
<1>1. /\ stack' \in Seq(Frames) /\ Len(stack') = Len(stack) /\ Len(stack) \in Nat
      /\ DOMAIN stack = 1..Len(stack) /\ DOMAIN stack' = DOMAIN stack
  BY AdvancedFacts, LookingFacts, TopFacts
<1>2. \A i \in DOMAIN stack : stack'[i].node = stack[i].node
  BY AdvancedFacts
<1>3. \A i \in DOMAIN stack : i < Len(stack) => stack'[i].at = stack[i].at
  BY AdvancedFacts, <1>1
<1>4. stack'[Len(stack)].at >= 1
  BY AdvancedFacts, LookingFacts, TopFacts
<1>5. \A i \in DOMAIN stack' : stack'[i].at >= 1
  BY <1>1, <1>3, <1>4 DEF DefaultTypes
<1>6. DefaultTypes'
  BY <1>1, <1>5 DEF DefaultTypes, DefaultNodes, Frames, IsLinks
<1>7. \A n \in DefaultNodes : OnStack(n)' <=> OnStack(n)
  BY <1>1, <1>2 DEF OnStack
<1>8. \A n \in DefaultNodes' : color'[n] = "grey" <=> OnStack(n)'
  BY <1>7 DEF StackIsPath, DefaultNodes
<1>9. \A i, j \in DOMAIN stack' : stack'[i].node = stack'[j].node => i = j
  BY <1>1, <1>2 DEF StackIsPath
<1>10. ASSUME NEW i \in DOMAIN stack', i < Len(stack')
       PROVE  /\ stack'[i].at - 1 \in DOMAIN links'[stack'[i].node]
              /\ links'[stack'[i].node][stack'[i].at - 1].target = stack'[i + 1].node
  <2>1. i \in DOMAIN stack /\ i + 1 \in DOMAIN stack
    BY <1>1, <1>10
  <2>2. stack'[i].node = stack[i].node /\ stack'[i].at = stack[i].at
        /\ stack'[i + 1].node = stack[i + 1].node
    BY <1>1, <1>2, <1>3, <1>10, <2>1
  <2> QED
    BY <1>1, <1>10, <2>1, <2>2 DEF StackIsPath, Follows
<1> QED
  BY <1>6, <1>8, <1>9, <1>10 DEF StackIsPath, Follows

LEMMA PassByKeeps ==
  ASSUME DefaultInv, PassBy
  PROVE  DefaultInv'
<1>1. /\ DefaultTypes /\ StackIsPath /\ Looking /\ stack' = Advanced
      /\ links' = links /\ color' = color /\ cycles' = cycles
      /\ color[Link.target] = "black"
  BY DEF DefaultInv, PassBy
<1>2. DefaultTypes' /\ StackIsPath'
  BY <1>1, AdvanceKeepsPath
<1>3. ASSUME PastIsBlack PROVE PastIsBlack'
  <2> SUFFICES ASSUME NEW i \in DOMAIN stack', NEW j \in DOMAIN links[stack'[i].node],
                      Past(i, j)'
               PROVE  color[links[stack'[i].node][j].target] = "black"
    BY <1>1 DEF PastIsBlack, Black, Follows
  <2>1. /\ Len(stack') = Len(stack) /\ Len(stack) \in Nat
        /\ DOMAIN stack = 1..Len(stack) /\ i \in DOMAIN stack
        /\ stack'[i].node = stack[i].node /\ j \in Follows(stack[i].node)
        /\ stack[i].node \in DefaultNodes /\ stack[i].at \in Nat
    BY <1>1, AdvancedFacts, LookingFacts, TopFacts DEF Follows
  <2>2. j \in Nat
    BY <1>1, <2>1, LinkFacts
  <2>3. CASE i < Len(stack)
    <3>1. stack'[i].at = stack[i].at
      BY <1>1, <2>1, <2>3, AdvancedFacts
    <3>2. Past(i, j)
      BY <2>1, <2>3, <3>1 DEF Past
    <3> QED
      BY <1>3, <2>1, <3>2 DEF PastIsBlack, Black
  <2>4. CASE i = Len(stack)
    <3>1. stack'[i].at = stack[i].at + 1 /\ stack[i] = TopFrame
      BY <1>1, <2>4, AdvancedFacts DEF TopFrame
    <3>2. j < stack[i].at \/ j = stack[i].at
      BY <2>1, <2>2, <3>1 DEF Past
    <3>3. CASE j < stack[i].at
      <4>1. Past(i, j)
        BY <2>1, <2>4, <3>3 DEF Past
      <4> QED
        BY <1>3, <2>1, <4>1 DEF PastIsBlack, Black
    <3>4. CASE j = stack[i].at
      BY <1>1, <2>1, <3>1, <3>4 DEF Link
    <3> QED
      BY <3>2, <3>3, <3>4
  <2> QED
    BY <2>1, <2>3, <2>4
<1>4. BlackIsClosed => BlackIsClosed'
  BY <1>1 DEF BlackIsClosed, DefaultNodes, Follows, Black
<1>5. BlackEnds => BlackEnds'
  BY <1>1 DEF BlackEnds, DefaultNodes, Ends, Leads, Follows, Black
<1>6. \A S : Trapped(S)' <=> Trapped(S)
  BY <1>1 DEF Trapped, Leads, Follows
<1>7. cycles' # {} => \E S \in SUBSET DefaultNodes' : Trapped(S)'
  BY <1>1, <1>6 DEF DefaultInv, DefaultNodes
<1> QED
  BY <1>1, <1>2, <1>3, <1>4, <1>5, <1>7 DEF DefaultInv

LEMMA CloseCycleKeeps ==
  ASSUME DefaultInv, CloseCycle
  PROVE  DefaultInv'
<1>1. /\ DefaultTypes /\ StackIsPath /\ Looking /\ stack' = Advanced
      /\ links' = links /\ color' = color
      /\ color[Link.target] = "grey"
  BY DEF DefaultInv, CloseCycle
<1>2. DefaultTypes' /\ StackIsPath'
  BY <1>1, AdvanceKeepsPath
<1>3. cycles' # {}
  BY DEF CloseCycle
<1>4. stack # <<>> /\ TopFrame.at \in Follows(TopFrame.node) /\ Link.target \in DefaultNodes
  BY <1>1, LookingFacts
<1>5. PICK k \in DOMAIN stack : stack[k].node = Link.target
  BY <1>1, <1>4 DEF StackIsPath, OnStack
<1>6. /\ Len(stack) \in Nat /\ DOMAIN stack = 1..Len(stack) /\ k \in Nat /\ k <= Len(stack)
      /\ \A i \in DOMAIN stack : stack[i].node \in DefaultNodes
  BY <1>1, <1>4, TopFacts
<1> DEFINE S == {stack[i].node : i \in k..Len(stack)}
<1>7. S \in SUBSET DefaultNodes /\ S # {}
  BY <1>6
<1>8. ASSUME NEW n \in S PROVE \E m \in S : Leads(n, m)
  <2>1. PICK i \in k..Len(stack) : n = stack[i].node
    BY <1>8
  <2>2. CASE i = Len(stack)
    <3>1. Leads(n, Link.target)
      BY <1>4, <2>1, <2>2 DEF Leads, Link, TopFrame
    <3>2. Link.target \in S
      BY <1>5, <1>6
    <3> QED
      BY <3>1, <3>2
  <2>3. CASE i < Len(stack)
    <3>1. i \in DOMAIN stack /\ i + 1 \in k..Len(stack)
      BY <1>6, <2>1, <2>3
    <3>2. Leads(n, stack[i + 1].node)
      BY <1>1, <2>1, <2>3, <3>1 DEF StackIsPath, Leads
    <3> QED
      BY <3>1, <3>2
  <2>4. i = Len(stack) \/ i < Len(stack)
    BY <1>6, <2>1
  <2> QED
    BY <2>2, <2>3, <2>4
<1>9. PICK U \in SUBSET DefaultNodes : Trapped(U)
  BY <1>7, <1>8 DEF Trapped
<1>10. Trapped(U)' /\ U \in SUBSET DefaultNodes'
  BY <1>1, <1>9 DEF Trapped, Leads, Follows, DefaultNodes
<1> QED
  BY <1>2, <1>3, <1>10 DEF DefaultInv

LEMMA EnterKeeps ==
  ASSUME DefaultInv, Enter
  PROVE  DefaultInv'
<1> DEFINE t == Link.target
           len == Len(stack)
<1>1. /\ DefaultTypes /\ StackIsPath /\ Looking
      /\ links' = links /\ cycles' = cycles
      /\ stack' = Append(Advanced, [node |-> t, at |-> 1])
      /\ color' = [color EXCEPT ![t] = "grey"] /\ color[t] = "white"
  BY DEF DefaultInv, Enter
<1>2. /\ t \in DefaultNodes /\ len \in Nat /\ len >= 1 /\ DOMAIN stack = 1..len
      /\ TopFrame.at \in Follows(TopFrame.node)
      /\ \A i \in DOMAIN stack : stack[i].node \in DefaultNodes /\ stack[i].at \in Nat
      /\ color \in [DefaultNodes -> Colors]
  BY <1>1, LookingFacts, TopFacts DEF DefaultTypes
<1>3. /\ stack' \in Seq(Frames) /\ Len(stack') = len + 1 /\ DOMAIN stack' = 1..(len + 1)
      /\ stack'[len + 1] = [node |-> t, at |-> 1]
      /\ \A i \in 1..len : stack'[i] = Advanced[i]
  <2>1. Advanced \in Seq(Frames) /\ Len(Advanced) = len
    BY <1>1, AdvancedFacts
  <2>2. [node |-> t, at |-> 1] \in Frames
    BY <1>2 DEF Frames
  <2> HIDE DEF t
  <2> QED
    BY <1>1, <1>2, <2>1, <2>2
<1>4. /\ \A i \in 1..len : stack'[i].node = stack[i].node
      /\ \A i \in 1..len : i < len => stack'[i].at = stack[i].at
      /\ stack'[len].at = TopFrame.at + 1
      /\ stack'[len + 1].node = t /\ stack'[len + 1].at = 1
  <2>1. /\ \A i \in 1..len : Advanced[i].node = stack[i].node
        /\ \A i \in 1..len : i # len => Advanced[i].at = stack[i].at
        /\ Advanced[len].at = TopFrame.at + 1
    BY <1>1, <1>2, AdvancedFacts
  <2>2. len \in 1..len /\ \A i \in 1..len : i < len => i # len
    BY <1>2
  <2> HIDE DEF t, len
  <2> QED
    BY <1>3, <2>1, <2>2
<1>5. \A n \in DefaultNodes : color'[n] = IF n = t THEN "grey" ELSE color[n]
  BY <1>1, <1>2
<1>6. DefaultTypes'
  <2>1. color' \in [DefaultNodes -> Colors]
    BY <1>1, <1>2 DEF Colors
  <2>2. ASSUME NEW i \in DOMAIN stack' PROVE stack'[i].at >= 1
    <3>1. i \in 1..len => stack[i].at >= 1
      BY <1>1, <1>2 DEF DefaultTypes
    <3> QED
      BY <1>2, <1>3, <1>4, <3>1 DEF TopFrame
  <2> QED
    BY <1>1, <1>3, <2>1, <2>2 DEF DefaultTypes, DefaultNodes, Frames, IsLinks
<1>7. \A i \in 1..len : stack[i].node # t
  BY <1>1, <1>2 DEF StackIsPath, OnStack
<1>8. StackIsPath'
  <2>1. ASSUME NEW n \in DefaultNodes PROVE color'[n] = "grey" <=> OnStack(n)'
    <3>1. OnStack(n)' <=> n = t \/ OnStack(n)
      BY <1>2, <1>3, <1>4 DEF OnStack
    <3> QED
      BY <1>1, <1>5, <3>1 DEF StackIsPath
  <2>2. ASSUME NEW i \in DOMAIN stack', NEW j \in DOMAIN stack', stack'[i].node = stack'[j].node
        PROVE  i = j
    <3>1. (i \in 1..len \/ i = len + 1) /\ (j \in 1..len \/ j = len + 1)
      BY <1>2, <1>3
    <3>2. CASE i \in 1..len /\ j \in 1..len
      BY <1>1, <1>2, <1>4, <2>2, <3>2 DEF StackIsPath
    <3> QED
      BY <1>4, <1>7, <2>2, <3>1, <3>2
  <2>3. ASSUME NEW i \in DOMAIN stack', i < Len(stack')
        PROVE  /\ stack'[i].at - 1 \in DOMAIN links'[stack'[i].node]
               /\ links'[stack'[i].node][stack'[i].at - 1].target = stack'[i + 1].node
    <3>1. i \in 1..len /\ (i = len \/ i < len)
      BY <1>2, <1>3, <2>3
    <3>2. CASE i = len
      <4>1. stack'[i].at - 1 = TopFrame.at /\ stack'[i].node = TopFrame.node
        BY <1>2, <1>4, <3>1, <3>2 DEF TopFrame
      <4> QED
        BY <1>1, <1>2, <1>4, <3>2, <4>1 DEF Link, Follows
    <3>3. CASE i < len
      <4>1. i + 1 \in 1..len
        BY <1>2, <3>1, <3>3
      <4>2. /\ stack'[i].at = stack[i].at /\ stack'[i].node = stack[i].node
            /\ stack'[i + 1].node = stack[i + 1].node
        BY <1>4, <3>1, <3>3, <4>1
      <4> QED
        BY <1>1, <1>2, <3>1, <3>3, <4>2 DEF StackIsPath, Follows
    <3> QED
      BY <3>1, <3>2, <3>3
  <2> QED
    BY <1>1, <2>1, <2>2, <2>3 DEF StackIsPath, DefaultNodes, Follows
<1>9. ASSUME PastIsBlack PROVE PastIsBlack'
  <2> SUFFICES ASSUME NEW i \in DOMAIN stack', NEW j \in DOMAIN links[stack'[i].node],
                      Past(i, j)'
               PROVE  color'[links[stack'[i].node][j].target] = "black"
    BY <1>1 DEF PastIsBlack, Black, Follows
  <2>1. i \in 1..len \/ i = len + 1
    BY <1>2, <1>3
  <2>2. CASE i \in 1..len
    <3>1. /\ stack'[i].node = stack[i].node /\ stack[i].node \in DefaultNodes
          /\ j \in Follows(stack[i].node) /\ j \in Nat
      <4>1. /\ stack'[i].node = stack[i].node /\ stack[i].node \in DefaultNodes
            /\ j \in Follows(stack[i].node)
        BY <1>2, <1>4, <2>2 DEF Follows
      <4> QED
        BY <1>1, <4>1, LinkFacts
    <3>2. Past(i, j)
      <4>1. i < Len(stack')
        BY <1>2, <1>3, <2>2
      <4>2. j < stack'[i].at /\ j # stack'[i].at - 1
        BY <4>1 DEF Past
      <4>3. CASE i = len
        BY <1>2, <1>4, <3>1, <4>2, <4>3 DEF Past, TopFrame
      <4>4. CASE i < len
        BY <1>4, <2>2, <4>2, <4>4 DEF Past
      <4> QED
        BY <1>2, <2>2, <4>3, <4>4
    <3>3. color[links[stack[i].node][j].target] = "black"
      BY <1>2, <1>9, <2>2, <3>1, <3>2 DEF PastIsBlack, Black
    <3>4. links[stack[i].node][j].target \in DefaultNodes
      BY <1>1, <3>1, LinkFacts
    <3> QED
      BY <1>1, <1>5, <3>1, <3>3, <3>4
  <2>3. CASE i = len + 1
    <3>1. j < 1
      BY <1>4, <2>3 DEF Past
    <3>2. j \in Nat /\ j >= 1
      BY <1>1, <1>2, <1>4, <2>3, LinkFacts DEF Follows
    <3> QED
      BY <3>1, <3>2
  <2> QED
    BY <2>1, <2>2, <2>3
<1>10. \A n \in DefaultNodes : color'[n] = "black" <=> color[n] = "black"
  BY <1>1, <1>5
<1>11. ASSUME BlackIsClosed PROVE BlackIsClosed'
  <2>1. \A n \in DefaultNodes : \A j \in Follows(n) : links[n][j].target \in DefaultNodes
    BY <1>1, LinkFacts
  <2> QED
    BY <1>1, <1>10, <1>11, <2>1 DEF BlackIsClosed, DefaultNodes, Follows, Black
<1>12. ASSUME BlackEnds PROVE BlackEnds'
  <2> SUFFICES ASSUME NEW S \in SUBSET DefaultNodes, S # {}, \A n \in S : color'[n] = "black"
               PROVE  Ends(S)'
    BY <1>1 DEF BlackEnds, DefaultNodes, Black
  <2>1. Ends(S)
    BY <1>10, <1>12 DEF BlackEnds, Black
  <2> QED
    BY <1>1, <2>1 DEF Ends, Leads, Follows
<1>13. cycles' # {} => \E S \in SUBSET DefaultNodes' : Trapped(S)'
  <2>1. \A S : Trapped(S)' <=> Trapped(S)
    BY <1>1 DEF Trapped, Leads, Follows
  <2> QED
    BY <1>1, <2>1 DEF DefaultInv, DefaultNodes
<1> QED
  BY <1>1, <1>6, <1>8, <1>9, <1>11, <1>12, <1>13 DEF DefaultInv

LEMMA StartAtKeeps ==
  ASSUME DefaultInv, NEW r \in DefaultNodes, StartAt(r)
  PROVE  DefaultInv'
<1>1. /\ DefaultTypes /\ StackIsPath /\ stack = <<>> /\ color[r] = "white"
      /\ stack' = <<[node |-> r, at |-> 1]>>
      /\ color' = [color EXCEPT ![r] = "grey"]
      /\ links' = links /\ cycles' = cycles
  BY DEF DefaultInv, StartAt
<1>2. /\ stack' \in Seq(Frames) /\ Len(stack') = 1 /\ DOMAIN stack' = {1}
      /\ stack'[1].node = r /\ stack'[1].at = 1
  BY <1>1 DEF Frames
<1>3. /\ color \in [DefaultNodes -> Colors] /\ color' \in [DefaultNodes -> Colors]
      /\ \A n \in DefaultNodes : color'[n] = IF n = r THEN "grey" ELSE color[n]
  BY <1>1 DEF DefaultTypes, Colors
<1>4. DefaultTypes'
  BY <1>1, <1>2, <1>3 DEF DefaultTypes, DefaultNodes, Frames, IsLinks
<1>5. \A n \in DefaultNodes : color'[n] = "grey" <=> OnStack(n)'
  BY <1>1, <1>2, <1>3 DEF StackIsPath, OnStack
<1>6. StackIsPath'
  BY <1>1, <1>2, <1>5 DEF StackIsPath, DefaultNodes
<1>7. PastIsBlack'
  <2> SUFFICES ASSUME NEW i \in DOMAIN stack', NEW j \in DOMAIN links[r], Past(i, j)'
               PROVE  FALSE
    BY <1>1, <1>2 DEF PastIsBlack, Follows
  <2>1. j < 1
    BY <1>2 DEF Past
  <2>2. j >= 1 /\ j \in Nat
    BY <1>1, LinkFacts DEF Follows
  <2> QED
    BY <2>1, <2>2
<1>8. \A n \in DefaultNodes : color'[n] = "black" <=> color[n] = "black"
  BY <1>1, <1>3
<1>9. ASSUME BlackIsClosed PROVE BlackIsClosed'
  <2>1. \A n \in DefaultNodes : \A j \in Follows(n) : links[n][j].target \in DefaultNodes
    BY <1>1, LinkFacts
  <2> QED
    BY <1>1, <1>8, <1>9, <2>1 DEF BlackIsClosed, DefaultNodes, Follows, Black
<1>10. ASSUME BlackEnds PROVE BlackEnds'
  <2> SUFFICES ASSUME NEW S \in SUBSET DefaultNodes, S # {}, \A n \in S : color'[n] = "black"
               PROVE  Ends(S)'
    BY <1>1 DEF BlackEnds, DefaultNodes, Black
  <2>1. Ends(S)
    BY <1>8, <1>10 DEF BlackEnds, Black
  <2> QED
    BY <1>1, <2>1 DEF Ends, Leads, Follows
<1>11. cycles' # {} => \E S \in SUBSET DefaultNodes' : Trapped(S)'
  <2>1. \A S : Trapped(S)' <=> Trapped(S)
    BY <1>1 DEF Trapped, Leads, Follows
  <2> QED
    BY <1>1, <2>1 DEF DefaultInv, DefaultNodes
<1> QED
  BY <1>1, <1>4, <1>6, <1>7, <1>9, <1>10, <1>11 DEF DefaultInv

LEMMA LeaveKeeps ==
  ASSUME DefaultInv, Leave
  PROVE  DefaultInv'
<1> DEFINE n == TopFrame.node
           len == Len(stack)
<1>1. /\ DefaultTypes /\ StackIsPath /\ stack # <<>>
      /\ TopFrame.at \notin Follows(n)
      /\ links' = links /\ cycles' = cycles
      /\ stack' = SubSeq(stack, 1, len - 1)
      /\ color' = [color EXCEPT ![n] = "black"]
  BY DEF DefaultInv, Leave
<1>2. /\ len \in Nat /\ len >= 1 /\ DOMAIN stack = 1..len /\ stack \in Seq(Frames)
      /\ n \in DefaultNodes /\ TopFrame.at \in Nat /\ TopFrame.at >= 1
      /\ \A i \in DOMAIN stack : stack[i].node \in DefaultNodes /\ stack[i].at \in Nat
      /\ color \in [DefaultNodes -> Colors]
  BY <1>1, TopFacts DEF DefaultTypes
<1>3. /\ stack' \in Seq(Frames) /\ Len(stack') = len - 1 /\ DOMAIN stack' = 1..(len - 1)
      /\ \A i \in 1..(len - 1) : stack'[i] = stack[i] /\ i \in 1..len /\ i < len
  BY <1>1, <1>2
<1>4. /\ color' \in [DefaultNodes -> Colors]
      /\ \A m \in DefaultNodes : color'[m] = IF m = n THEN "black" ELSE color[m]
  BY <1>1, <1>2 DEF Colors
<1>5. len \in DOMAIN stack /\ stack[len].node = n /\ OnStack(n) /\ color[n] = "grey"
  BY <1>1, <1>2 DEF StackIsPath, OnStack, TopFrame
<1>6. DefaultTypes'
  BY <1>1, <1>2, <1>3, <1>4 DEF DefaultTypes, DefaultNodes, Frames, IsLinks
<1>7. StackIsPath'
  <2>1. ASSUME NEW m \in DefaultNodes PROVE color'[m] = "grey" <=> OnStack(m)'
    <3>1. OnStack(m)' <=> \E i \in 1..(len - 1) : stack[i].node = m
      BY <1>3 DEF OnStack
    <3>2. m # n /\ OnStack(m) => \E i \in 1..(len - 1) : stack[i].node = m
      BY <1>2, <1>5 DEF OnStack
    <3>3. ASSUME NEW i \in 1..(len - 1) PROVE stack[i].node # n
      <4>1. i \in 1..len /\ i < len
        BY <1>3
      <4>2. i \in DOMAIN stack /\ i # len
        <5>1. len \in Nat /\ DOMAIN stack = 1..len
          BY <1>2
        <5> HIDE DEF len
        <5> QED
          BY <4>1, <5>1
      <4> QED
        BY <1>1, <1>5, <4>2 DEF StackIsPath
    <3>4. CASE m = n
      BY <1>4, <3>1, <3>3, <3>4
    <3>5. CASE m # n
      BY <1>1, <1>2, <1>3, <1>4, <3>1, <3>2, <3>5 DEF StackIsPath, OnStack
    <3> QED
      BY <3>4, <3>5
  <2>2. \A i, j \in DOMAIN stack' : stack'[i].node = stack'[j].node => i = j
    BY <1>1, <1>2, <1>3 DEF StackIsPath
  <2>3. ASSUME NEW i \in DOMAIN stack', i < Len(stack')
        PROVE  /\ stack'[i].at - 1 \in DOMAIN links'[stack'[i].node]
               /\ links'[stack'[i].node][stack'[i].at - 1].target = stack'[i + 1].node
    <3>1. i \in DOMAIN stack /\ i < len /\ i + 1 \in 1..(len - 1)
      BY <1>2, <1>3, <2>3
    <3>2. stack'[i] = stack[i] /\ stack'[i + 1] = stack[i + 1]
      BY <1>3, <2>3, <3>1
    <3> QED
      BY <1>1, <3>1, <3>2 DEF StackIsPath, Follows
  <2> QED
    BY <1>1, <2>1, <2>2, <2>3 DEF StackIsPath, DefaultNodes, Follows
<1>8. ASSUME PastIsBlack
      PROVE  \A j \in Follows(n) : color[links[n][j].target] = "black"
  <2> SUFFICES ASSUME NEW j \in Follows(n) PROVE color[links[n][j].target] = "black"
    OBVIOUS
  <2>1. j < TopFrame.at
    BY <1>1, <1>2, LinkFacts
  <2>2. Past(len, j)
    BY <1>2, <2>1 DEF Past, TopFrame
  <2> QED
    BY <1>5, <1>8, <2>2 DEF PastIsBlack, Black
<1>9. \A m \in DefaultNodes : color[m] = "black" => color'[m] = "black"
  BY <1>4
<1>10. \A m \in DefaultNodes : \A j \in Follows(m) : links[m][j].target \in DefaultNodes
  BY <1>1, LinkFacts
<1>11. ASSUME PastIsBlack PROVE PastIsBlack'
  <2> SUFFICES ASSUME NEW i \in DOMAIN stack', NEW j \in DOMAIN links[stack'[i].node],
                      Past(i, j)'
               PROVE  color'[links[stack'[i].node][j].target] = "black"
    BY <1>1 DEF PastIsBlack, Black, Follows
  <2>1. /\ i \in DOMAIN stack /\ i < len /\ stack'[i] = stack[i]
        /\ stack[i].node \in DefaultNodes /\ j \in Follows(stack[i].node)
    BY <1>2, <1>3 DEF Follows
  <2>2. CASE Past(i, j)
    BY <1>9, <1>10, <1>11, <2>1, <2>2 DEF PastIsBlack, Black
  <2>3. CASE ~Past(i, j)
    <3>1. j = stack[i].at - 1
      BY <2>1, <2>3 DEF Past
    <3>2. ~(i < Len(stack'))
      BY <2>1, <3>1 DEF Past
    <3>3. i + 1 = len
      BY <1>2, <1>3, <2>1, <3>2
    <3>4. links[stack[i].node][j].target = n
      BY <1>1, <1>5, <2>1, <3>1, <3>3 DEF StackIsPath
    <3> QED
      BY <1>2, <1>4, <2>1, <3>4
  <2> QED
    BY <2>2, <2>3
<1>12. ASSUME PastIsBlack, BlackIsClosed PROVE BlackIsClosed'
  <2> SUFFICES ASSUME NEW m \in DefaultNodes, color'[m] = "black", NEW j \in Follows(m)
               PROVE  color'[links[m][j].target] = "black"
    BY <1>1 DEF BlackIsClosed, DefaultNodes, Follows, Black
  <2>1. CASE m = n
    BY <1>8, <1>9, <1>10, <1>12, <2>1
  <2>2. CASE m # n
    BY <1>4, <1>9, <1>10, <1>12, <2>2 DEF BlackIsClosed, Black
  <2> QED
    BY <2>1, <2>2
<1>13. ASSUME PastIsBlack, BlackIsClosed, BlackEnds PROVE BlackEnds'
  <2> SUFFICES ASSUME NEW S \in SUBSET DefaultNodes, S # {}, \A m \in S : color'[m] = "black"
               PROVE  Ends(S)'
    BY <1>1 DEF BlackEnds, DefaultNodes, Black
  <2> SUFFICES Ends(S)
    BY <1>1 DEF Ends, Leads, Follows
  <2>1. \A m \in S \ {n} : color[m] = "black"
    BY <1>4
  <2>2. ASSUME NEW m \in S PROVE ~Leads(m, n)
    <3> SUFFICES ASSUME NEW j \in Follows(m), links[m][j].target = n PROVE FALSE
      BY DEF Leads
    <3>1. color[links[m][j].target] = "black"
      BY <1>8, <1>13, <2>1 DEF BlackIsClosed, Black
    <3> QED
      BY <1>5, <3>1
  <2>3. CASE S = {n}
    BY <2>2, <2>3 DEF Ends
  <2>4. CASE S # {n}
    <3>1. S \ {n} # {}
      BY <2>4
    <3>2. Ends(S \ {n})
      BY <1>13, <2>1, <3>1 DEF BlackEnds, Black
    <3> QED
      BY <2>2, <3>2 DEF Ends
  <2> QED
    BY <2>3, <2>4
<1>14. cycles' # {} => \E S \in SUBSET DefaultNodes' : Trapped(S)'
  <2>1. \A S : Trapped(S)' <=> Trapped(S)
    BY <1>1 DEF Trapped, Leads, Follows
  <2> QED
    BY <1>1, <2>1 DEF DefaultInv, DefaultNodes
<1> QED
  BY <1>1, <1>6, <1>7, <1>11, <1>12, <1>13, <1>14 DEF DefaultInv

LEMMA DefaultInvHolds == DefaultSpec => []DefaultInv
<1>1. DefaultInv /\ [DefaultNext]_defaultVars => DefaultInv'
  <2> SUFFICES ASSUME DefaultInv, [DefaultNext]_defaultVars PROVE DefaultInv'
    OBVIOUS
  <2>1. CASE \E r \in DefaultNodes : StartAt(r)
    BY <2>1, StartAtKeeps
  <2>2. CASE CloseCycle
    BY <2>2, CloseCycleKeeps
  <2>3. CASE Enter
    BY <2>3, EnterKeeps
  <2>4. CASE PassBy
    BY <2>4, PassByKeeps
  <2>5. CASE Leave
    BY <2>5, LeaveKeeps
  <2>6. ASSUME NEW g, IsLinks(g), BeginDefaults(g) PROVE DefaultInv'
    BY <2>6, BeginKeeps
  <2>7. CASE UNCHANGED defaultVars
    <3>1. links' = links /\ color' = color /\ stack' = stack /\ cycles' = cycles
      BY <2>7 DEF defaultVars
    <3>2. DefaultTypes' /\ StackIsPath'
      BY <3>1 DEF DefaultInv, DefaultTypes, StackIsPath, DefaultNodes, OnStack, Frames, IsLinks,
                  Follows
    <3>3. PastIsBlack => PastIsBlack'
      BY <3>1 DEF PastIsBlack, Past, Black, Follows
    <3>4. (BlackIsClosed => BlackIsClosed') /\ (BlackEnds => BlackEnds')
      <4>1. BlackIsClosed => BlackIsClosed'
        BY <3>1 DEF BlackIsClosed, DefaultNodes, Black, Follows
      <4>2. \A S : Ends(S)' <=> Ends(S)
        BY <3>1 DEF Ends, Leads, Follows
      <4>3. BlackEnds => BlackEnds'
        BY <3>1, <4>2 DEF BlackEnds, DefaultNodes, Black
      <4> QED
        BY <4>1, <4>3
    <3>5. \A S : Trapped(S)' <=> Trapped(S)
      BY <3>1 DEF Trapped, Leads, Follows
    <3>6. cycles' # {} => \E S \in SUBSET DefaultNodes' : Trapped(S)'
      BY <3>1, <3>5 DEF DefaultInv, DefaultNodes
    <3> QED
      BY <3>1, <3>2, <3>3, <3>4, <3>6 DEF DefaultInv
  <2> QED
    BY <2>1, <2>2, <2>3, <2>4, <2>5, <2>6, <2>7 DEF DefaultNext, DefaultStep
<1> QED
  BY <1>1, DefaultInitially, PTL DEF DefaultSpec

\* A graph with a default include that would expand forever is refused and one
\* without is not, for every graph (checkDefaultCycles).
THEOREM DefaultCyclesReported == DefaultSpec => []CyclesAreReported
<1>1. DefaultInv => CyclesAreReported
  <2> SUFFICES ASSUME DefaultInv, DefaultsDone PROVE cycles = {} <=> DefaultsEnd
    BY DEF CyclesAreReported
  <2>1. \A n \in DefaultNodes : color[n] = "black"
    BY DEF DefaultInv, DefaultsDone, DefaultTypes, StackIsPath, OnStack, Colors
  <2>2. cycles = {} => DefaultsEnd
    BY <2>1 DEF DefaultInv, BlackEnds, Ends, DefaultsEnd, Black
  <2>3. DefaultsEnd => cycles = {}
    BY DEF DefaultInv, DefaultsEnd, Trapped
  <2> QED
    BY <2>2, <2>3
<1> QED
  BY <1>1, DefaultInvHolds, PTL

-----------------------------------------------------------------------------
(* checkFetchers. *)

Queued(n) == \E i \in DOMAIN queue : queue[i] = n

FetchTypes ==
    /\ IsLoads(loads)
    /\ seeds \subseteq FetchNodes
    /\ visited \subseteq FetchNodes
    /\ queue \in Seq(FetchNodes)
    /\ at \in Nat /\ at >= 1

\* An edge the walk is done with: of a node that has left the queue, or before
\* the one to look at next.
Walked(n, i) ==
    /\ n \in visited
    /\ Queued(n) => n = Walking /\ queue # <<>> /\ i < at

\* Only what is reachable is visited, and only for visited nodes are fetchers
\* asked for; and all of that was done where the walk is done.
FetchInv ==
    /\ FetchTypes
    /\ \A n \in FetchNodes : Queued(n) => n \in visited
    /\ seeds \subseteq visited
    /\ \A S \in SUBSET FetchNodes : seeds \subseteq S /\ Closed(S) => visited \subseteq S
    /\ \A n \in FetchNodes : \A i \in LoadsOf(n) :
          LET e == loads[n][i] IN
          /\ Walked(n, i) =>
                /\ e.target \in visited
                /\ AsksIDs(e) => <<n, e.target, i>> \in needIDs
                /\ AsksParents(e) => <<n, e.target, i>> \in needParents
          /\ <<n, e.target, i>> \in needIDs => n \in visited /\ AsksIDs(e)
          /\ <<n, e.target, i>> \in needParents => n \in visited /\ AsksParents(e)

LEMMA LoadsFacts ==
  ASSUME FetchTypes, NEW n \in FetchNodes
  PROVE  /\ Len(loads[n]) \in Nat /\ LoadsOf(n) = 1..Len(loads[n])
         /\ \A j \in LoadsOf(n) : loads[n][j].target \in FetchNodes
<1> DEFINE T == [target : FetchNodes, reverse : BOOLEAN, served : BOOLEAN]
<1>1. loads \in Seq(Seq(T)) /\ n \in DOMAIN loads
  BY DEF FetchTypes, IsLoads, FetchNodes
<1> HIDE DEF T
<1>2. loads[n] \in Seq(T)
  BY <1>1
<1> DEFINE l == loads[n]
<1>3. l \in Seq(T)
  BY <1>2
<1> HIDE DEF l
<1>4. Len(l) \in Nat /\ DOMAIN l = 1..Len(l) /\ \A j \in DOMAIN l : l[j] \in T
  BY <1>3
<1>5. \A j \in DOMAIN l : l[j].target \in FetchNodes
  BY <1>4 DEF T
<1> QED
  BY <1>4, <1>5 DEF l, LoadsOf

LEMMA FetchInitially == FetchInit => FetchInv
<1> SUFFICES ASSUME FetchInit PROVE FetchInv
  OBVIOUS
<1>1. loads = <<>> /\ seeds = {} /\ visited = {} /\ queue = <<>> /\ at = 1
  BY DEF FetchInit
<1>2. FetchNodes = {}
  BY <1>1 DEF FetchNodes
<1>3. FetchTypes
  BY <1>1, <1>2 DEF FetchTypes, IsLoads, FetchNodes
<1> QED
  BY <1>1, <1>2, <1>3 DEF FetchInv

LEMMA BeginFetchersKeeps ==
  ASSUME NEW g, NEW roots, IsLoads(g), IsRoots(roots, g), BeginFetchers(g, roots)
  PROVE  FetchInv'
<1> DEFINE R == {roots[i] : i \in DOMAIN roots}
<1>1. /\ loads' = g /\ seeds' = R /\ visited' = R /\ queue' = roots /\ at' = 1
      /\ needIDs' = {} /\ needParents' = {}
  BY DEF BeginFetchers
<1>2. roots \in Seq(DOMAIN g) /\ R \subseteq DOMAIN g
  BY DEF IsRoots
<1>3. FetchTypes'
  BY <1>1, <1>2 DEF FetchTypes, FetchNodes, IsLoads
<1>4. \A n : Queued(n)' <=> n \in R
  BY <1>1 DEF Queued
<1>5. ASSUME NEW n \in FetchNodes', NEW i \in LoadsOf(n)' PROVE ~Walked(n, i)'
  <2>1. i \in DOMAIN g[n] /\ g[n] \in Seq([target : DOMAIN g, reverse : BOOLEAN, served : BOOLEAN])
    BY <1>1, <1>5 DEF LoadsOf, FetchNodes, IsLoads
  <2>2. i >= 1 /\ i \in Nat
    BY <2>1
  <2> QED
    BY <1>1, <1>4, <2>2 DEF Walked
<1> HIDE DEF R
<1> QED
  BY <1>1, <1>3, <1>4, <1>5 DEF FetchInv, FetchNodes

LEMMA NextNodeKeeps ==
  ASSUME FetchInv, NextNode
  PROVE  FetchInv'
<1>1. /\ FetchTypes /\ queue # <<>> /\ at \notin LoadsOf(Walking)
      /\ queue' = Tail(queue) /\ at' = 1
      /\ loads' = loads /\ seeds' = seeds /\ visited' = visited
      /\ needIDs' = needIDs /\ needParents' = needParents
  BY DEF FetchInv, NextNode
<1>2. /\ queue \in Seq(FetchNodes) /\ Len(queue) \in Nat /\ Len(queue) >= 1
      /\ DOMAIN queue = 1..Len(queue) /\ Walking = queue[1] /\ Walking \in FetchNodes
  BY <1>1 DEF FetchTypes, Walking
<1>3. /\ queue' \in Seq(FetchNodes) /\ DOMAIN queue' = 1..(Len(queue) - 1)
      /\ \A i \in 1..(Len(queue) - 1) : queue'[i] = queue[i + 1] /\ i + 1 \in DOMAIN queue
  BY <1>1, <1>2
<1>4. FetchTypes'
  BY <1>1, <1>3 DEF FetchTypes, FetchNodes, IsLoads
<1>5. \A n : Queued(n)' => Queued(n)
  BY <1>3 DEF Queued
<1>6. ASSUME NEW n, Queued(n), ~Queued(n)' PROVE n = Walking
  <2>1. PICK i \in DOMAIN queue : queue[i] = n
    BY <1>6 DEF Queued
  <2>2. CASE i = 1
    BY <1>2, <2>1, <2>2
  <2>3. CASE i # 1
    <3>1. i - 1 \in 1..(Len(queue) - 1) /\ (i - 1) + 1 = i
      BY <1>2, <2>1, <2>3
    <3> QED
      BY <1>3, <1>6, <2>1, <3>1 DEF Queued
  <2> QED
    BY <2>2, <2>3
<1>7. ASSUME NEW n \in FetchNodes, NEW i \in LoadsOf(n), Walked(n, i)' PROVE Walked(n, i)
  <2>1. i \in Nat /\ i >= 1
    BY <1>1, LoadsFacts
  <2>2. n \in visited /\ ~Queued(n)'
    BY <1>1, <1>7, <2>1 DEF Walked
  <2>3. n = Walking => i < at
    BY <1>1, <1>2, LoadsFacts DEF FetchTypes
  <2> QED
    BY <1>1, <1>6, <2>2, <2>3 DEF Walked
<1>8. \A S : Closed(S)' <=> Closed(S)
  BY <1>1 DEF Closed, LoadsOf
<1>9. /\ \A n \in FetchNodes' : Queued(n)' => n \in visited'
      /\ seeds' \subseteq visited'
      /\ \A S \in SUBSET FetchNodes' : seeds' \subseteq S /\ Closed(S)' => visited' \subseteq S
  BY <1>1, <1>5, <1>8 DEF FetchInv, FetchNodes
<1>10. ASSUME NEW n \in FetchNodes, NEW i \in LoadsOf(n)
       PROVE  LET e == loads[n][i] IN
              /\ Walked(n, i)' =>
                    /\ e.target \in visited
                    /\ AsksIDs(e) => <<n, e.target, i>> \in needIDs
                    /\ AsksParents(e) => <<n, e.target, i>> \in needParents
              /\ <<n, e.target, i>> \in needIDs => n \in visited /\ AsksIDs(e)
              /\ <<n, e.target, i>> \in needParents => n \in visited /\ AsksParents(e)
  BY <1>7, <1>10 DEF FetchInv
<1> QED
  BY <1>1, <1>4, <1>9, <1>10 DEF FetchInv, FetchNodes, LoadsOf

LEMMA ExamineKeeps ==
  ASSUME FetchInv, Examine
  PROVE  FetchInv'
<1> DEFINE w == Walking
           x == Examined
           d == <<w, x.target, at>>
<1>1. /\ FetchTypes /\ queue # <<>> /\ at \in LoadsOf(w) /\ x = loads[w][at]
      /\ needIDs' = IF AsksIDs(x) THEN needIDs \cup {d} ELSE needIDs
      /\ needParents' = IF AsksParents(x) THEN needParents \cup {d} ELSE needParents
      /\ visited' = visited \cup {x.target}
      /\ queue' = IF x.target \in visited THEN queue ELSE Append(queue, x.target)
      /\ at' = at + 1 /\ loads' = loads /\ seeds' = seeds
  BY DEF FetchInv, Examine, Examining, Examined
<1>2. /\ queue \in Seq(FetchNodes) /\ Len(queue) \in Nat /\ Len(queue) >= 1
      /\ DOMAIN queue = 1..Len(queue) /\ w = queue[1] /\ w \in FetchNodes
      /\ at \in Nat /\ at >= 1
  BY <1>1 DEF FetchTypes, Walking
<1>3. x.target \in FetchNodes
  BY <1>1, <1>2, LoadsFacts
<1> HIDE DEF x
<1>4. /\ queue' \in Seq(FetchNodes) /\ queue' # <<>> /\ Walking' = w
      /\ \A n : Queued(n)' <=> Queued(n) \/ (x.target \notin visited /\ n = x.target)
  <2>1. CASE x.target \in visited
    BY <1>1, <1>2, <2>1 DEF Queued, Walking
  <2>2. CASE x.target \notin visited
    <3>1. queue' = Append(queue, x.target)
      BY <1>1, <2>2
    <3>2. /\ queue' \in Seq(FetchNodes) /\ queue' # <<>> /\ DOMAIN queue' = 1..(Len(queue) + 1)
          /\ queue'[Len(queue) + 1] = x.target
          /\ \A i \in 1..Len(queue) : queue'[i] = queue[i]
      BY <1>2, <1>3, <3>1
    <3>3. Walking' = w
      BY <1>2, <3>2 DEF Walking
    <3>4. \A n : Queued(n)' <=> Queued(n) \/ n = x.target
      BY <1>2, <3>2 DEF Queued
    <3> QED
      BY <2>2, <3>2, <3>3, <3>4
  <2> QED
    BY <2>1, <2>2
<1>5. FetchTypes'
  BY <1>1, <1>2, <1>3, <1>4 DEF FetchTypes, FetchNodes, IsLoads
<1>6. w \in visited
  BY <1>2 DEF FetchInv, Queued
<1>7. ASSUME NEW S \in SUBSET FetchNodes, seeds \subseteq S, Closed(S) PROVE visited' \subseteq S
  <2>1. visited \subseteq S
    BY <1>7 DEF FetchInv
  <2>2. x.target \in S
    BY <1>1, <1>6, <1>7, <2>1 DEF Closed
  <2> QED
    BY <1>1, <2>1, <2>2
<1>8. \A S : Closed(S)' <=> Closed(S)
  BY <1>1 DEF Closed, LoadsOf
<1>9. /\ \A n \in FetchNodes' : Queued(n)' => n \in visited'
      /\ seeds' \subseteq visited'
      /\ \A S \in SUBSET FetchNodes' : seeds' \subseteq S /\ Closed(S)' => visited' \subseteq S
  BY <1>1, <1>4, <1>7, <1>8 DEF FetchInv, FetchNodes
<1>10. ASSUME NEW n \in FetchNodes, NEW i \in LoadsOf(n), Walked(n, i)'
       PROVE  Walked(n, i) \/ (n = w /\ i = at)
  <2>1. i \in Nat
    BY <1>1, LoadsFacts
  <2>2. CASE ~Queued(n)'
    <3>1. ~Queued(n) /\ (n \in visited \/ n = x.target) /\ (n = x.target => n \in visited)
      BY <1>1, <1>4, <1>10, <2>2 DEF Walked
    <3> QED
      BY <3>1 DEF Walked
  <2>3. CASE Queued(n)'
    <3>1. n = w /\ i < at + 1
      BY <1>1, <1>4, <1>10, <2>3 DEF Walked
    <3>2. i < at \/ i = at
      BY <1>2, <2>1, <3>1
    <3> QED
      BY <1>1, <1>6, <3>1, <3>2 DEF Walked
  <2> QED
    BY <2>2, <2>3
<1>11. ASSUME NEW n \in FetchNodes, NEW i \in LoadsOf(n)
       PROVE  LET e == loads[n][i] IN
              /\ Walked(n, i)' =>
                    /\ e.target \in visited'
                    /\ AsksIDs(e) => <<n, e.target, i>> \in needIDs'
                    /\ AsksParents(e) => <<n, e.target, i>> \in needParents'
              /\ <<n, e.target, i>> \in needIDs' => n \in visited' /\ AsksIDs(e)
              /\ <<n, e.target, i>> \in needParents' => n \in visited' /\ AsksParents(e)
  <2> DEFINE e == loads[n][i]
  <2>1. <<n, e.target, i>> = d => n = w /\ i = at /\ e = x
    BY <1>1
  <2>2. n = w /\ i = at => e = x /\ <<n, e.target, i>> = d
    BY <1>1
  <2>3. /\ Walked(n, i) =>
              /\ e.target \in visited
              /\ AsksIDs(e) => <<n, e.target, i>> \in needIDs
              /\ AsksParents(e) => <<n, e.target, i>> \in needParents
        /\ <<n, e.target, i>> \in needIDs => n \in visited /\ AsksIDs(e)
        /\ <<n, e.target, i>> \in needParents => n \in visited /\ AsksParents(e)
    BY DEF FetchInv
  <2> HIDE DEF e, d
  <2>4. Walked(n, i)' =>
              /\ e.target \in visited'
              /\ AsksIDs(e) => <<n, e.target, i>> \in needIDs'
              /\ AsksParents(e) => <<n, e.target, i>> \in needParents'
    BY <1>1, <1>10, <2>2, <2>3
  <2>5. /\ <<n, e.target, i>> \in needIDs' => n \in visited' /\ AsksIDs(e)
        /\ <<n, e.target, i>> \in needParents' => n \in visited' /\ AsksParents(e)
    BY <1>1, <1>6, <2>1, <2>3
  <2> QED
    BY <2>4, <2>5 DEF e
<1> QED
  BY <1>1, <1>5, <1>9, <1>11 DEF FetchInv, FetchNodes, LoadsOf

LEMMA FetchInvHolds == FetchSpec => []FetchInv
<1>1. FetchInv /\ [FetchNext]_fetchVars => FetchInv'
  <2> SUFFICES ASSUME FetchInv, [FetchNext]_fetchVars PROVE FetchInv'
    OBVIOUS
  <2>1. CASE Examine
    BY <2>1, ExamineKeeps
  <2>2. CASE NextNode
    BY <2>2, NextNodeKeeps
  <2>3. ASSUME NEW g, NEW roots, IsLoads(g), IsRoots(roots, g), BeginFetchers(g, roots)
        PROVE  FetchInv'
    BY <2>3, BeginFetchersKeeps
  <2>4. CASE UNCHANGED fetchVars
    <3>1. /\ loads' = loads /\ seeds' = seeds /\ visited' = visited /\ queue' = queue
          /\ at' = at /\ needIDs' = needIDs /\ needParents' = needParents
      BY <2>4 DEF fetchVars
    <3>2. FetchTypes'
      BY <3>1 DEF FetchInv, FetchTypes, FetchNodes, IsLoads
    <3>3. /\ \A n : Queued(n)' <=> Queued(n)
          /\ \A n, i : Walked(n, i)' <=> Walked(n, i)
          /\ \A S : Closed(S)' <=> Closed(S)
      BY <3>1 DEF Queued, Walked, Walking, Closed, LoadsOf
    <3> QED
      BY <3>1, <3>2, <3>3 DEF FetchInv, FetchNodes, LoadsOf
  <2> QED
    BY <2>1, <2>2, <2>3, <2>4 DEF FetchNext, FetchStep
<1> QED
  BY <1>1, FetchInitially, PTL DEF FetchSpec

\* Whatever the graph, a fetcher is asked for exactly where the engine can come to
\* need it (checkFetchers).
THEOREM FetchNeedsExact == FetchSpec => []NeedsAreExact
<1>1. FetchInv => NeedsAreExact
  <2> SUFFICES ASSUME FetchInv, FetchersDone,
                      NEW n \in FetchNodes, NEW i \in LoadsOf(n)
               PROVE  LET e == loads[n][i] IN
                      /\ <<n, e.target, i>> \in needIDs <=> AsksIDs(e) /\ Reaches(n)
                      /\ <<n, e.target, i>> \in needParents <=> AsksParents(e) /\ Reaches(n)
    BY DEF NeedsAreExact
  <2>1. queue = <<>> /\ \A m : ~Queued(m)
    BY DEF FetchersDone, Queued
  <2>2. \A m \in visited : \A j \in LoadsOf(m) : Walked(m, j)
    BY <2>1 DEF Walked
  <2>3. visited \subseteq FetchNodes /\ seeds \subseteq visited
    BY DEF FetchInv, FetchTypes
  <2>4. Closed(visited)
    BY <2>2, <2>3 DEF FetchInv, Closed
  <2>5. \A m \in FetchNodes : Reaches(m) <=> m \in visited
    BY <2>3, <2>4 DEF Reaches, FetchInv
  <2> QED
    BY <2>2, <2>5 DEF FetchInv
<1> QED
  BY <1>1, FetchInvHolds, PTL
=============================================================================
