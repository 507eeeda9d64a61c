------------------------- MODULE MaterializerProofs -------------------------
(***************************************************************************)
(* Proofs about Materializer, for any plans, documents, worlds, policies   *)
(* and number of calls on one Ctx.                                         *)
(*                                                                         *)
(* MInv: the row budget holds over all levels of a call, and a cancelled   *)
(* call makes at most one more fetch.                                      *)
(*                                                                         *)
(* AnswerInv: the open levels form a chain, each one at the rows of the    *)
(* edge the level below is at, with the right values for the edges it is   *)
(* through with; an edge that was come to had its fetcher at hand or asked *)
(* for nothing, and one that is resolved was judged for every row needed.  *)
(* Hence the types, the answer, the faults and the batches of a call.      *)
(*                                                                         *)
(* EstimateInv: while the edges bring no more than their multipliers, the  *)
(* rows counted are within the exact rows of the nodes passed, so that the *)
(* budget is never overrun by a call whose estimate fits it.               *)
(***************************************************************************)
EXTENDS Materializer, Induction

\* The open levels: only the innermost may still have to be entered, and only
\* the outermost is the root's.
FrameFields == {"path", "docs", "phase", "todo", "vals"}
IsLevel(f) == DOMAIN f = FrameFields /\ \E T : f.path \in Seq(T)

Levels(s) ==
    /\ \E S : s \in Seq(S)
    /\ s # <<>>
    /\ \A n \in 1..Len(s) :
          /\ IsLevel(s[n])
          /\ s[n].path = <<>> <=> n = 1
          /\ n < Len(s) => s[n].phase = "edges"

\* The root level is armed once it is entered: from then on the Ctx counts the
\* rows of the call against the call's own budget.
Unarmed == Len(stack) = 1 /\ Top.phase = "enter"

BudgetInv ==
    /\ in \in Inputs
    /\ status = "levels" => Levels(stack)
    /\ status = "start" => served = 0
    /\ status = "levels" => IF Unarmed THEN served = 0
                            ELSE served = ctxRows /\ ctxMax = in.maxRows
    /\ BudgetHolds

\* A fetch begun after the cancellation leaves a level to enter, which fails.
LateInv ==
    /\ late \in {0, 1}
    /\ late = 1 => /\ cancelled
                   /\ status # "start"
                   /\ status = "levels" => Top.phase = "enter"

MInv == BudgetInv /\ LateInv

-----------------------------------------------------------------------------
\* Three ways to change the stack.
LEMMA LastLevel ==
    ASSUME NEW s, Levels(s)
    PROVE  /\ Len(s) \in Nat \ {0}
           /\ Last(s) = s[Len(s)]
           /\ IsLevel(Last(s))
           /\ Last(s).path = <<>> <=> Len(s) = 1
<1>1. PICK S : s \in Seq(S)
  BY DEF Levels
<1>2. Len(s) \in Nat \ {0}
  BY <1>1, LenProperties, EmptySeq DEF Levels
<1>3. Last(s) = s[Len(s)] /\ Len(s) \in 1..Len(s)
  BY <1>2 DEF Last
<1>4. IsLevel(s[Len(s)]) /\ (s[Len(s)].path = <<>> <=> Len(s) = 1)
  BY <1>3 DEF Levels
<1>. QED
  BY <1>2, <1>3, <1>4

\* The root level alone is a stack of levels.
LEMMA Opened ==
    ASSUME NEW f, IsLevel(f), f.path = <<>>
    PROVE  Levels(<<f>>) /\ Len(<<f>>) = 1 /\ Last(<<f>>) = f
<1>1. <<f>> \in Seq({f}) /\ <<f>> # <<>> /\ Len(<<f>>) = 1 /\ <<f>>[1] = f
  OBVIOUS
<1> DEFINE s == <<f>>
<1>2. Last(s) = f
  BY <1>1 DEF Last
<1> HIDE DEF s
<1>3. \A n \in 1..Len(s) : n = 1 /\ s[n] = f /\ ~(n < Len(s))
  BY <1>1 DEF s
<1>4. Levels(s)
  BY <1>1, <1>3 DEF Levels, s
<1>. QED
  BY <1>1, <1>2, <1>4 DEF s

\* A level may be put on top of an entered one.
LEMMA Pushed ==
    ASSUME NEW s, Levels(s), Last(s).phase = "edges", NEW f, IsLevel(f), f.path # <<>>
    PROVE  /\ Levels(Append(s, f))
           /\ Len(Append(s, f)) = Len(s) + 1
           /\ Last(Append(s, f)) = f
<1>1. PICK S : s \in Seq(S)
  BY DEF Levels
<1>2. s \in Seq(S \cup {f}) /\ f \in S \cup {f}
  BY <1>1, SeqMonotonic
<1>3. /\ Append(s, f) \in Seq(S \cup {f})
      /\ Append(s, f) # << >>
      /\ Len(Append(s, f)) = Len(s) + 1
      /\ \A i \in 1..Len(s) : Append(s, f)[i] = s[i]
      /\ Append(s, f)[Len(s) + 1] = f
  BY <1>2, AppendProperties
<1>4. Len(s) \in Nat \ {0} /\ s[Len(s)].phase = "edges"
  BY LastLevel
<1>5. ASSUME NEW n \in 1..(Len(s) + 1)
      PROVE  /\ IsLevel(Append(s, f)[n])
             /\ Append(s, f)[n].path = <<>> <=> n = 1
             /\ n < Len(s) + 1 => Append(s, f)[n].phase = "edges"
  <2>1. CASE n = Len(s) + 1
    BY <1>3, <1>4, <2>1
  <2>2. CASE n \in 1..Len(s)
    BY <1>3, <1>4, <2>2 DEF Levels
  <2>. QED
    BY <1>4, <2>1, <2>2
<1>. QED
  BY <1>3, <1>5 DEF Levels, Last

\* A level may take the place of one and all above it.
LEMMA Replaced ==
    ASSUME NEW s, Levels(s), NEW n \in 1..Len(s),
           NEW f, IsLevel(f), f.path = s[n].path, f.phase = "edges"
    PROVE  /\ Levels(Append(SubSeq(s, 1, n - 1), f))
           /\ Len(Append(SubSeq(s, 1, n - 1), f)) = n
           /\ Last(Append(SubSeq(s, 1, n - 1), f)) = f
           /\ Append(SubSeq(s, 1, n - 1), f)[n] = f
           /\ \A i \in 1..(n - 1) : Append(SubSeq(s, 1, n - 1), f)[i] = s[i]
<1> DEFINE rest == SubSeq(s, 1, n - 1)
<1>1. PICK S : s \in Seq(S)
  BY DEF Levels
<1>2. Len(s) \in Nat /\ n \in Nat
  BY LastLevel
<1>3. \A i \in 1..(n - 1) : s[i] \in S
  BY <1>1, <1>2, ElementOfSeq
<1>4. /\ rest \in Seq(S)
      /\ Len(rest) = n - 1
      /\ \A i \in 1..(n - 1) : rest[i] = s[i]
  BY <1>2, <1>3, SubSeqProperties
<1> HIDE DEF rest
<1>5. rest \in Seq(S \cup {f}) /\ f \in S \cup {f}
  BY <1>4, SeqMonotonic
<1>6. /\ Append(rest, f) \in Seq(S \cup {f})
      /\ Append(rest, f) # << >>
      /\ Len(Append(rest, f)) = n
      /\ \A i \in 1..(n - 1) : Append(rest, f)[i] = s[i]
      /\ Append(rest, f)[n] = f
  BY <1>2, <1>4, <1>5, AppendProperties
<1>7. ASSUME NEW m \in 1..n
      PROVE  /\ IsLevel(Append(rest, f)[m])
             /\ Append(rest, f)[m].path = <<>> <=> m = 1
             /\ m < n => Append(rest, f)[m].phase = "edges"
  <2>1. CASE m = n
    BY <1>6, <2>1 DEF Levels
  <2>2. CASE m \in 1..(n - 1)
    BY <1>2, <1>6, <2>2 DEF Levels
  <2>3. m = n \/ m \in 1..(n - 1)
    BY <1>2
  <2>. QED
    BY <2>1, <2>2, <2>3
<1>8. Levels(Append(rest, f)) /\ Last(Append(rest, f)) = f
  BY <1>6, <1>7 DEF Levels, Last
<1>. QED
  BY <1>6, <1>8 DEF rest

\* The innermost level may be entered.
LEMMA Entered ==
    ASSUME NEW s, Levels(s)
    PROVE  /\ Levels([s EXCEPT ![Len(s)].phase = "edges"])
           /\ Last([s EXCEPT ![Len(s)].phase = "edges"]).phase = "edges"
           /\ Len([s EXCEPT ![Len(s)].phase = "edges"]) = Len(s)
           /\ \A j \in 1..Len(s) : [s EXCEPT ![Len(s)].phase = "edges"][j] =
                 IF j = Len(s) THEN [s[Len(s)] EXCEPT !.phase = "edges"] ELSE s[j]
<1> DEFINE f == [s[Len(s)] EXCEPT !.phase = "edges"]
           t == [s EXCEPT ![Len(s)] = f]
<1>1. PICK S : s \in Seq(S)
  BY DEF Levels
<1>2. Len(s) \in Nat \ {0} /\ IsLevel(s[Len(s)])
  BY LastLevel DEF Levels
<1>3. IsLevel(f) /\ f.path = s[Len(s)].path /\ f.phase = "edges"
  BY <1>2 DEF IsLevel, FrameFields
<1>4. t = [s EXCEPT ![Len(s)].phase = "edges"]
  OBVIOUS
<1> HIDE DEF f
<1>5. s \in Seq(S \cup {f}) /\ f \in S \cup {f} /\ Len(s) \in 1..Len(s)
  BY <1>1, <1>2, SeqMonotonic
<1>6. /\ t \in Seq(S \cup {f})
      /\ Len(t) = Len(s)
      /\ \A j \in 1..Len(s) : t[j] = IF j = Len(s) THEN f ELSE s[j]
  BY <1>5, ExceptSeq
<1> HIDE DEF t
<1>7. Levels(t)
  <2>1. t # <<>>
    BY <1>2, <1>6
  <2>2. ASSUME NEW n \in 1..Len(t)
        PROVE  /\ IsLevel(t[n])
               /\ t[n].path = <<>> <=> n = 1
               /\ n < Len(t) => t[n].phase = "edges"
    BY <1>2, <1>3, <1>6 DEF Levels
  <2>. QED
    BY <1>6, <2>1, <2>2 DEF Levels
<1>8. Last(t).phase = "edges"
  BY <1>2, <1>3, <1>6 DEF Last
<1>. QED
  BY <1>4, <1>6, <1>7, <1>8 DEF f

-----------------------------------------------------------------------------
\* A policy that objects names a failure of its own.
LEMMA FaultIsFailure ==
    ASSUME NEW p, NEW r, NEW found
    PROVE  ForwardFault(p, r, found) \in PolicyFailures \cup {"none"}
BY DEF ForwardFault, PolicyFailures

\* A call that stops keeps the invariant: it serves nothing more.
LEMMA StopKeeps ==
    ASSUME MInv, status' \notin {"start", "levels"}, in' = in, served' = served,
           late' \in {0, 1}, late' = 1 => cancelled'
    PROVE  MInv'
BY DEF MInv, BudgetInv, LateInv, BudgetHolds

\* A level that takes the value of an edge stays an entered level.
LEMMA AttachKeeps ==
    ASSUME MInv, status = "levels", late = 0, ~Unarmed,
           NEW n \in 1..Len(stack), stack[n].phase = "edges",
           NEW p, NEW rows, NEW out,
           Attach(p, stack[n], SubSeq(stack, 1, n - 1), rows, out),
           UNCHANGED <<in, ctxRows, ctxMax, served, late, cancelled>>
    PROVE  MInv'
<1>1. CASE Faults(p, stack[n], rows) # {}
  <2>1. status' \in PolicyFailures \cup {"none"}
    BY <1>1, FaultIsFailure DEF Attach, Fail
  <2>. QED
    BY <2>1, StopKeeps DEF PolicyFailures
<1>2. CASE Faults(p, stack[n], rows) = {}
  <2>1. PICK vals : /\ status' = status
                    /\ stack' = Append(SubSeq(stack, 1, n - 1),
                                       [stack[n] EXCEPT !.todo = Tail(@), !.vals = vals])
    BY <1>2 DEF Attach
  <2> DEFINE f == [stack[n] EXCEPT !.todo = Tail(@), !.vals = vals]
  <2>2. Levels(stack) /\ IsLevel(stack[n])
    BY DEF MInv, BudgetInv, Levels
  <2>3. IsLevel(f) /\ f.path = stack[n].path /\ f.phase = "edges"
    BY <2>2 DEF IsLevel, FrameFields
  <2> HIDE DEF f
  <2> DEFINE open == Append(SubSeq(stack, 1, n - 1), f)
  <2>4. Levels(open) /\ Last(open) = f
    BY <2>2, <2>3, Replaced
  <2>5. stack' = open
    BY <2>1 DEF f
  <2>6. Levels(stack') /\ Last(stack') = f
    BY <2>4, <2>5
  <2> HIDE DEF open
  <2>7. ~Unarmed'
    BY <2>3, <2>6 DEF Unarmed, Top
  <2>. QED
    BY <2>1, <2>6, <2>7 DEF MInv, BudgetInv, LateInv, BudgetHolds
<1>. QED
  BY <1>1, <1>2

\* A new level is opened above an entered one, perhaps after a last fetch.
LEMMA PushKeeps ==
    ASSUME MInv, status = "levels", Top.phase = "edges", status' = status,
           NEW docs, stack' = Append(stack, Frame(ChildPath, docs)),
           UNCHANGED <<in, ctxRows, ctxMax, served, cancelled>>,
           late' \in {0, 1}, late' = 1 => cancelled
    PROVE  MInv'
<1> DEFINE f == Frame(ChildPath, docs)
<1>1. Levels(stack) /\ IsLevel(Top)
  BY LastLevel DEF MInv, BudgetInv, Top
<1>2. PICK T : Top.path \in Seq(T)
  BY <1>1 DEF IsLevel
<1>3. /\ Top.path \in Seq(T \cup {Head(Top.todo)})
      /\ Head(Top.todo) \in T \cup {Head(Top.todo)}
  BY <1>2, SeqMonotonic
<1>4. ChildPath \in Seq(T \cup {Head(Top.todo)}) /\ ChildPath # <<>>
  BY <1>3, AppendProperties DEF ChildPath
<1>5. IsLevel(f) /\ f.path # <<>> /\ f.phase = "enter"
  BY <1>4 DEF Frame, IsLevel, FrameFields
<1> HIDE DEF f
<1>6. Levels(stack') /\ Len(stack') = Len(stack) + 1 /\ Last(stack') = f
  BY <1>1, <1>5, Pushed DEF f, Top
<1>7. Len(stack) \in Nat \ {0}
  BY <1>1, LastLevel
<1>8. ~Unarmed /\ ~Unarmed'
  BY <1>6, <1>7 DEF Unarmed
<1>9. Top'.phase = "enter"
  BY <1>5, <1>6 DEF Top
<1>. QED
  BY <1>6, <1>8, <1>9 DEF MInv, BudgetInv, LateInv, BudgetHolds

-----------------------------------------------------------------------------
\* The budget and cancellation invariant holds initially.
LEMMA InitMInv == Init => MInv
<1>. SUFFICES ASSUME Init PROVE MInv
  OBVIOUS
<1>1. in.maxRows \in Nat /\ status \in {"start", "budget"} /\ served = 0 /\ late = 0
  BY InputsAssumption DEF Init, IsInput, Begins
<1>. QED
  BY <1>1 DEF Init, MInv, BudgetInv, LateInv, BudgetHolds

\* Another call starts with nothing served and nothing fetched late.
LEMMA NextCallKeeps == ASSUME MInv, NextCall PROVE MInv'
<1>1. in' \in Inputs /\ in'.maxRows \in Nat
  BY InputsAssumption DEF NextCall, IsInput
<1>2. status' \in {"start", "budget"} /\ served' = 0 /\ late' = 0
  BY DEF NextCall, Begins
<1>. QED
  BY <1>1, <1>2 DEF MInv, BudgetInv, LateInv, BudgetHolds

\* Opening the root's level, or failing to.
LEMMA RootDocsKeeps == ASSUME MInv, RootDocs PROVE MInv'
<1>0. /\ status = "start" /\ in' = in /\ served' = served /\ cancelled' = cancelled
      /\ late = 0 /\ late' \in {0, 1} /\ (late' = 1 => cancelled)
  BY DEF RootDocs, MInv, LateInv
<1>1. CASE status' = "levels"
  <2> DEFINE f == Frame(<<>>, in.docs)
  <2>1. stack' = <<f>>
    BY <1>1 DEF RootDocs, Fail
  <2>2. IsLevel(f) /\ f.path = <<>> /\ f.phase = "enter"
    BY EmptySeq DEF Frame, IsLevel, FrameFields
  <2> HIDE DEF f
  <2>3. Levels(stack') /\ Len(stack') = 1 /\ Last(stack') = f
    BY <2>1, <2>2, Opened
  <2>. QED
    BY <1>0, <1>1, <2>2, <2>3 DEF MInv, BudgetInv, LateInv, BudgetHolds, Unarmed, Top
<1>2. CASE status' # "levels"
  BY <1>0, <1>2, StopKeeps DEF RootDocs, Fail
<1>. QED
  BY <1>1, <1>2

\* Entering a level, or failing to, counts its rows against the budget.
LEMMA EnterKeeps ==
    ASSUME MInv, EnterCancelled \/ EnterOverBudget \/ EnterLevel
    PROVE  MInv'
<1>1. CASE EnterCancelled \/ EnterOverBudget
  BY <1>1, StopKeeps DEF EnterCancelled, EnterOverBudget, Fail, MInv, LateInv
<1>2. CASE EnterLevel
  <2>0. /\ status = "levels" /\ Top.phase = "enter" /\ ~cancelled /\ late = 0
        /\ in' = in /\ late' = late /\ cancelled' = cancelled
        /\ ctxRows' = Counted /\ ctxMax' = Budget
        /\ served' = served + Len(Top.docs)
    BY <1>2 DEF EnterLevel, Entering, MInv, LateInv
  <2>1. Levels(stack) /\ (Top.path = <<>> <=> Len(stack) = 1)
    BY <2>0, LastLevel DEF MInv, BudgetInv, Top
  <2>2. served' = ctxRows' /\ ctxMax' = in.maxRows
    <3>1. CASE Len(stack) = 1
      BY <2>0, <2>1, <3>1 DEF MInv, BudgetInv, Unarmed, Counted, Budget
    <3>2. CASE Len(stack) # 1
      BY <2>0, <2>1, <3>2 DEF MInv, BudgetInv, Unarmed, Counted, Budget
    <3>. QED
      BY <3>1, <3>2
  <2>3. in.maxRows > 0 => served' <= in.maxRows
    BY <1>2, <2>0, <2>2 DEF EnterLevel, OverBudget
  <2>4. CASE LevelBroken
    <3>1. status' \in {"enrich", "serialize"}
      BY <1>2, <2>4 DEF EnterLevel, LevelBroken, Fail
    <3>. QED
      BY <2>0, <2>3, <3>1 DEF MInv, BudgetInv, LateInv, BudgetHolds
  <2>5. CASE ~LevelBroken
    <3>1. stack' = [stack EXCEPT ![Len(stack)].phase = "edges"] /\ status' = status
      BY <1>2, <2>5 DEF EnterLevel
    <3>2. Levels(stack') /\ Last(stack').phase = "edges"
      BY <2>1, <3>1, Entered
    <3>3. ~Unarmed'
      BY <3>2 DEF Unarmed, Top
    <3>. QED
      BY <2>0, <2>2, <2>3, <3>1, <3>2, <3>3 DEF MInv, BudgetInv, LateInv, BudgetHolds
  <2>. QED
    BY <2>4, <2>5
<1>. QED
  BY <1>1, <1>2

\* A batch fetch, perhaps begun after the cancellation.
LEMMA FetchEdgeKeeps == ASSUME MInv, FetchEdge PROVE MInv'
<1>0. /\ status = "levels" /\ Top.phase = "edges" /\ late = 0
      /\ UNCHANGED <<in, ctxRows, ctxMax, served, cancelled>>
  BY DEF FetchEdge, Resolving, MInv, LateInv
<1>1. late' \in {0, 1} /\ (late' = 1 => cancelled)
  BY <1>0 DEF FetchEdge
<1>2. CASE status' = status
  <2>1. stack' = Append(stack, Frame(ChildPath, NextRows(ChildPath, Top.docs)))
    BY <1>0, <1>2 DEF FetchEdge, Fail
  <2>. QED
    BY <1>0, <1>1, <1>2, <2>1, PushKeeps
<1>3. CASE status' # status
  <2>1. status' \in {"unbound", "fetch", "contract"}
    BY <1>0, <1>3 DEF FetchEdge, Fail
  <2>. QED
    BY <1>0, <1>1, <2>1, StopKeeps
<1>. QED
  BY <1>2, <1>3

\* A level without rows is opened.
LEMMA OpenEmptyKeeps == ASSUME MInv, OpenEmpty PROVE MInv'
BY PushKeeps DEF OpenEmpty, Resolving, MInv, LateInv

\* An edge nobody refers through is resolved.
LEMMA ResolveEmptyKeeps == ASSUME MInv, ResolveEmpty PROVE MInv'
<1>0. /\ status = "levels" /\ Top.phase = "edges" /\ late = 0
      /\ UNCHANGED <<in, ctxRows, ctxMax, served, late, cancelled>>
  BY DEF ResolveEmpty, Resolving, MInv, LateInv
<1>1. /\ Len(stack) \in 1..Len(stack) /\ Top = stack[Len(stack)]
      /\ Front(stack) = SubSeq(stack, 1, Len(stack) - 1)
  BY <1>0, LastLevel DEF MInv, BudgetInv, Top, Front
<1>2. ~Unarmed
  BY <1>0 DEF Unarmed
<1>. QED
  BY <1>0, <1>1, <1>2, AttachKeeps DEF ResolveEmpty

\* A finished level hands its documents down, or ends the call.
LEMMA LevelDoneKeeps == ASSUME MInv, LevelDone PROVE MInv'
<1>0. /\ status = "levels" /\ Top.phase = "edges" /\ late = 0
      /\ UNCHANGED <<in, ctxRows, ctxMax, served, late, cancelled>>
      /\ Levels(stack) /\ Len(stack) \in Nat \ {0}
  BY LastLevel DEF LevelDone, MInv, BudgetInv, LateInv
<1>1. CASE Len(stack) = 1
  BY <1>0, <1>1, StopKeeps DEF LevelDone
<1>2. CASE Len(stack) # 1
  <2>0. Len(stack) - 1 \in 1..Len(stack)
    <3>1. \A k \in Nat \ {0} : k # 1 => k - 1 \in 1..k
      OBVIOUS
    <3>2. Len(stack) \in Nat \ {0}
      BY <1>0
    <3>. QED
      BY <1>2, <3>1, <3>2
  <2>1. PICK n \in 1..Len(stack) : n = Len(stack) - 1
    BY <2>0
  <2>2. stack[n].phase = "edges" /\ Len(stack) - 2 = n - 1
    BY <1>0, <2>1 DEF Levels
  <2>3. Attach(Top.path, stack[n], SubSeq(stack, 1, n - 1), Top.docs, Assemble(Top))
    BY <1>2, <2>1, <2>2 DEF LevelDone
  <2>4. ~Unarmed
    BY <1>0 DEF Unarmed
  <2>. QED
    BY <1>0, <2>2, <2>3, <2>4, AttachKeeps
<1>. QED
  BY <1>1, <1>2

\* Every step preserves the invariant.
LEMMA NextKeeps == MInv /\ [Next]_vars => MInv'
<1>. SUFFICES ASSUME MInv, [Next]_vars PROVE MInv'
  OBVIOUS
<1>1. CASE UNCHANGED vars
  BY <1>1 DEF vars, MInv, BudgetInv, LateInv, BudgetHolds, Unarmed, Top
<1>2. CASE Cancel
  BY <1>2 DEF Cancel, MInv, BudgetInv, LateInv, BudgetHolds, Unarmed, Top
<1>3. CASE Hydrate
  BY <1>3, RootDocsKeeps, EnterKeeps, FetchEdgeKeeps, OpenEmptyKeeps, ResolveEmptyKeeps,
     LevelDoneKeeps DEF Hydrate
<1>. QED
  BY <1>1, <1>2, <1>3, NextCallKeeps DEF Next, Finished

\* The inductive invariant holds in every reachable state.
LEMMA MInvariance == Spec => []MInv
BY InitMInv, NextKeeps, PTL DEF Spec

-----------------------------------------------------------------------------
\* The rows materialized by one call, over all its levels, stay within its
\* budget, whatever earlier calls left on the Ctx.
THEOREM BudgetCapsRows == Spec => []BudgetHolds
<1>1. MInv => BudgetHolds
  BY DEF MInv, BudgetInv
<1>. QED
  BY <1>1, MInvariance, PTL

\* After its context is cancelled a call begins at most one more fetch.
THEOREM CancellationStops == Spec => []AtMostOneLateFetch
<1>1. MInv => AtMostOneLateFetch
  BY DEF MInv, LateInv, AtMostOneLateFetch
<1>. QED
  BY <1>1, MInvariance, PTL

-----------------------------------------------------------------------------
\* What the argument of a call is made of.
LEMMA CallFacts ==
    ASSUME in \in Inputs
    PROVE  /\ <<>> \in DOMAIN in.plan /\ IsFiniteSet(DOMAIN in.plan)
           /\ DOMAIN in.plan \subseteq Seq(Keys)
           /\ \A p \in DOMAIN in.plan \ {<<>>} :
                 /\ Front(p) \in DOMAIN in.plan
                 /\ EdgeOf(p) \in EdgeShape /\ Node(p).args.limit \in Nat
                 /\ Front(p) # <<>> => EdgeOf(Front(p)).kind # "computed"
           /\ World.refs \in [Rows -> [Keys -> Seq(Rows \cup {NoId})]]
           /\ World.guarded \in [Rows -> SUBSET Keys]
           /\ World.hidden \in SUBSET Rows /\ World.extra \in SUBSET Rows
           /\ World.hidden \cap World.extra = {}
           /\ in.docs \in Seq(Rows)
           /\ \A r \in Range(in.docs) : World.resource[r] = Node(<<>>).resource
<1>1. IsInput(in)
  BY InputsAssumption
<1>2. IsPlan(in.plan) /\ IsWorld(in.world) /\ in.docs \in Seq(Rows)
  BY <1>1 DEF IsInput
<1>3. \A r \in Range(in.docs) : World.resource[r] = Node(<<>>).resource
  BY <1>1 DEF IsInput, World, Node
<1>4. World.hidden \in SUBSET Rows /\ World.extra \in SUBSET Rows
  BY <1>2 DEF IsWorld, World
<1>5. QED
  BY <1>2, <1>3, <1>4 DEF IsPlan, IsWorld, World, Node, EdgeOf

\* A node of the plan below another, and the row that may stand there.
Child(p, k) == Append(p, k) \in DOMAIN in.plan /\ EdgeOf(Append(p, k)).kind # "computed"
At(p, r) == r \in Rows /\ World.resource[r] = Node(p).resource
Stand(p, docs) == docs \in Seq(Rows) /\ \A r \in Range(docs) : At(p, r)
Forward(p) == EdgeOf(p).kind \in {"toOne", "hasMany", "inArray"}

\* The children of a node are its edges but for the computed ones, each once.
LEMMA ChildrenFacts ==
    ASSUME in \in Inputs, NEW p \in Seq(Keys)
    PROVE  /\ Children(p) \in Seq(Keys) /\ IsInjective(Children(p))
           /\ Range(Children(p)) = {k \in Keys : Child(p, k)}
<1> DEFINE A == KeysOf(p, {"inArray"})
           B == KeysOf(p, {"toOne", "hasMany", "reverse"})
           a == Picked(KeyOrder, A)
           b == Picked(KeyOrder, B)
<1>1. A \subseteq Keys /\ B \subseteq Keys /\ A \cap B = {}
  BY DEF KeysOf
<1>2. /\ a \in Seq(Keys) /\ IsInjective(a) /\ Range(a) = Range(KeyOrder) \cap A
      /\ b \in Seq(Keys) /\ IsInjective(b) /\ Range(b) = Range(KeyOrder) \cap B
  BY KeyOrderAssumption, PickedFacts
<1>3. Range(a) = A /\ Range(b) = B
  BY <1>1, <1>2, KeyOrderAssumption
<1>4. A \cup B = {k \in Keys : Child(p, k)}
  <2>1. ASSUME NEW k \in Keys, Append(p, k) \in DOMAIN in.plan
        PROVE  EdgeOf(Append(p, k)).kind \in Kinds
    <3>1. Append(p, k) # <<>>
      BY AppendProperties
    <3>2. EdgeOf(Append(p, k)) \in EdgeShape
      BY <2>1, <3>1, CallFacts
    <3>3. QED
      BY <3>2 DEF EdgeShape
  <2>2. QED
    BY <2>1 DEF KeysOf, Child, Kinds
<1> HIDE DEF a, b, A, B
<1>5. /\ a \o b \in Seq(Keys) /\ IsInjective(a \o b) /\ Range(a \o b) = A \cup B
  BY <1>1, <1>2, <1>3, DistinctConcat
<1>6. QED
  BY <1>4, <1>5 DEF Children, a, b, A, B

\* An edge that is looked at is one of the four kinds, and stands below a node.
LEMMA EdgeFacts ==
    ASSUME in \in Inputs, NEW c \in Edges
    PROVE  /\ c \in DOMAIN in.plan /\ c \in Seq(Keys) /\ c # <<>>
           /\ Front(c) \in DOMAIN in.plan /\ Front(c) \in Seq(Keys)
           /\ Last(c) \in Keys /\ c = Append(Front(c), Last(c))
           /\ Len(c) = Len(Front(c)) + 1 /\ Len(Front(c)) \in Nat
           /\ EdgeOf(c) \in EdgeShape /\ Node(c).args.limit \in Nat
           /\ EdgeOf(c).kind = "reverse" \/ Forward(c)
           /\ ~(EdgeOf(c).kind = "reverse" /\ Forward(c))
<1>1. c \in DOMAIN in.plan /\ c # <<>> /\ EdgeOf(c).kind # "computed"
  BY DEF Edges
<1>2. c \in Seq(Keys)
  BY <1>1, CallFacts
<1>3. /\ Front(c) \in Seq(Keys) /\ Last(c) \in Keys /\ c = Append(Front(c), Last(c))
      /\ Len(c) \in Nat \ {0} /\ Len(Front(c)) = Len(c) - 1
  BY <1>1, <1>2, FrontFacts
<1>4. Front(c) \in DOMAIN in.plan /\ EdgeOf(c) \in EdgeShape /\ Node(c).args.limit \in Nat
  BY <1>1, CallFacts
<1>5. EdgeOf(c).kind \in Kinds
  BY <1>4 DEF EdgeShape
<1>6. EdgeOf(c).kind = "reverse" \/ Forward(c)
  BY <1>1, <1>5 DEF Kinds, Forward
<1>7. Len(c) = Len(Front(c)) + 1 /\ Len(Front(c)) \in Nat
  BY <1>3
<1>8. QED
  BY <1>1, <1>2, <1>3, <1>4, <1>6, <1>7 DEF Forward

\* The edges are the children of the nodes.
LEMMA ChildIsEdge ==
    ASSUME in \in Inputs, NEW p \in DOMAIN in.plan, NEW k \in Keys
    PROVE  /\ Child(p, k) <=> Append(p, k) \in Edges
           /\ Front(Append(p, k)) = p /\ Last(Append(p, k)) = k
           /\ p \in Seq(Keys) /\ Append(p, k) \in Seq(Keys)
<1>1. p \in Seq(Keys)
  BY CallFacts
<1>2. QED
  BY <1>1, AppendFacts DEF Child, Edges

\* The least and the greatest of two numbers.
LEMMA MinMaxOfTwo ==
    ASSUME NEW a \in Nat, NEW b \in Nat
    PROVE  Min({a, b}) \in {a, b} /\ Max({a, b}) \in {a, b}
<1>1. \E x \in {a, b} : \A y \in {a, b} : x <= y
  OBVIOUS
<1>2. \E x \in {a, b} : \A y \in {a, b} : x >= y
  OBVIOUS
<1>3. QED
  BY <1>1, <1>2 DEF Min, Max

\* The limit of an edge is a number, zero for none.
LEMMA LimitIsNatural ==
    ASSUME NEW p, EdgeOf(p) \in EdgeShape, Node(p).args.limit \in Nat
    PROVE  Limit(p) \in Nat
<1> DEFINE e == EdgeOf(p)
           a == Node(p).args
           ceiling == IF e.limit > 0 THEN e.limit ELSE DefaultLimit
<1>1. e.limit \in Nat
  BY DEF EdgeShape
<1>2. ceiling \in Nat
  BY <1>1 DEF DefaultLimit
<1>3. Max({a.limit, 1}) \in Nat
  BY MinMaxOfTwo
<1>4. Min({Max({a.limit, 1}), ceiling}) \in Nat
  <2> HIDE DEF ceiling, a
  <2>1. QED
    BY <1>2, <1>3, MinMaxOfTwo
<1>5. ResolvedLimit(e, a) \in Nat
  BY <1>2, <1>4 DEF ResolvedLimit
<1>6. QED
  BY <1>5 DEF Limit

\* Trimming leaves a prefix within the limit.
LEMMA TrimFacts ==
    ASSUME NEW p, Limit(p) \in Nat, NEW T, NEW s \in Seq(T)
    PROVE  /\ Trim(p, s) \in Seq(T) /\ Range(Trim(p, s)) \subseteq Range(s)
           /\ Len(Trim(p, s)) \in Nat
           /\ Limit(p) > 0 => Len(Trim(p, s)) <= Limit(p)
           /\ Limit(p) = 0 => Trim(p, s) = s
<1> DEFINE n == Limit(p)
<1>1. Len(s) \in Nat /\ DOMAIN s = 1..Len(s)
  BY LenProperties
<1>2. CASE n > 0 /\ Len(s) > n
  <2> DEFINE t == SubSeq(s, 1, n)
  <2>1. \A i \in 1..n : s[i] \in T /\ s[i] \in Range(s)
    BY <1>1, <1>2, ElementOfSeq DEF Range
  <2>2. t \in Seq(T) /\ Len(t) = n /\ \A i \in 1..n : t[i] = s[i]
    <3>1. /\ t \in Seq(T) /\ Len(t) = IF 1 <= n THEN n - 1 + 1 ELSE 0
          /\ \A i \in 1..(n - 1 + 1) : t[i] = s[1 + i - 1]
      BY <2>1, SubSeqProperties
    <3>2. QED
      BY <1>2, <3>1
  <2>3. Trim(p, s) = t
    BY <1>2 DEF Trim
  <2> HIDE DEF t
  <2>4. DOMAIN t = 1..n
    BY <2>2, LenProperties
  <2>5. Range(t) \subseteq Range(s)
    BY <2>1, <2>2, <2>4 DEF Range
  <2>6. QED
    BY <1>2, <2>2, <2>3, <2>5
<1>3. CASE ~(n > 0 /\ Len(s) > n)
  BY <1>1, <1>3 DEF Trim
<1>4. QED
  BY <1>2, <1>3

-----------------------------------------------------------------------------
\* What a row refers to through an edge of the node it stands at.
LEMMA RefsFacts ==
    ASSUME in \in Inputs, NEW c \in Edges, NEW r, At(Front(c), r)
    PROVE  /\ Refs(c, r) \in Seq(Rows \cup {NoId})
           /\ \A id \in Range(Refs(c, r)) \ {NoId} : At(c, id)
           /\ EdgeOf(c).kind = "reverse" => NoId \notin Range(Refs(c, r))
<1>1. IsInput(in)
  BY InputsAssumption
<1>2. c \in DOMAIN in.plan \ {<<>>} /\ Last(c) \in Keys /\ r \in Rows
  BY EdgeFacts DEF At
<1>3. World.resource[r] = in.plan[Front(c)].resource
  BY DEF At, Node
<1>4. /\ \A id \in Range(Refs(c, r)) \ {NoId} : World.resource[id] = Node(c).resource
      /\ EdgeOf(c).kind = "reverse" => NoId \notin Range(Refs(c, r))
  BY <1>1, <1>2, <1>3 DEF IsInput, Refs, World, Node, EdgeOf
<1>5. Refs(c, r) \in Seq(Rows \cup {NoId})
  BY <1>2, CallFacts DEF Refs
<1>6. Range(Refs(c, r)) \subseteq Rows \cup {NoId}
  BY <1>5, RangeOfSeq
<1>7. QED
  BY <1>4, <1>5, <1>6 DEF At

\* What is collected of one row: for a reverse edge itself, else some of what it
\* refers to, which stands at the edge.
LEMMA CollectedFacts ==
    ASSUME in \in Inputs, NEW c \in Edges, NEW r, At(Front(c), r)
    PROVE  /\ Collected(c, r) \in Seq(Rows \cup {NoId})
           /\ EdgeOf(c).kind = "reverse" => Collected(c, r) = <<r>>
           /\ Forward(c) => \A id \in Range(Collected(c, r)) \ {NoId} : At(c, id)
           /\ EdgeOf(c).kind = "toOne" => NoId \notin Range(Collected(c, r))
<1>1. /\ Refs(c, r) \in Seq(Rows \cup {NoId})
      /\ \A id \in Range(Refs(c, r)) \ {NoId} : At(c, id)
  BY RefsFacts
<1>2. EdgeOf(c).kind = "reverse" \/ Forward(c)
  BY EdgeFacts
<1>3. r \in Rows /\ Limit(c) \in Nat
  BY EdgeFacts, LimitIsNatural DEF At
<1>4. CASE EdgeOf(c).kind = "reverse"
  <2>1. Collected(c, r) = <<r>>
    BY <1>4 DEF Collected
  <2>2. <<r>> \in Seq(Rows \cup {NoId})
    BY <1>3
  <2>3. QED
    BY <1>4, <2>1, <2>2 DEF Forward
<1>5. CASE EdgeOf(c).kind = "toOne"
  <2>1. Collected(c, r) = Selected(Refs(c, r), Rows)
    BY <1>5 DEF Collected
  <2>2. /\ Collected(c, r) \in Seq(Rows \cup {NoId})
        /\ Range(Collected(c, r)) = Range(Refs(c, r)) \cap Rows
    BY <1>1, <2>1, SelectedFacts
  <2>3. QED
    BY <1>1, <1>5, <2>2, RowsAssumption
<1>6. CASE EdgeOf(c).kind = "hasMany"
  <2>1. Collected(c, r) = Trim(c, Refs(c, r))
    BY <1>6 DEF Collected
  <2>2. /\ Collected(c, r) \in Seq(Rows \cup {NoId})
        /\ Range(Collected(c, r)) \subseteq Range(Refs(c, r))
    BY <1>1, <1>3, <2>1, TrimFacts
  <2>3. QED
    BY <1>1, <1>6, <2>2
<1>7. CASE EdgeOf(c).kind = "inArray"
  <2>1. Collected(c, r) = Refs(c, r)
    BY <1>7 DEF Collected
  <2>2. QED
    BY <1>1, <1>7, <2>1
<1>8. QED
  BY <1>2, <1>4, <1>5, <1>6, <1>7 DEF Forward

\* What is kept of a parent's page are rows that stand at the edge.
LEMMA KeptFacts ==
    ASSUME in \in Inputs, NEW c \in Edges, NEW r, At(Front(c), r), EdgeOf(c).kind = "reverse"
    PROVE  Kept(c, r) \in Seq(Rows) /\ \A t \in Range(Kept(c, r)) : At(c, t)
<1>1. /\ Refs(c, r) \in Seq(Rows \cup {NoId})
      /\ \A id \in Range(Refs(c, r)) \ {NoId} : At(c, id)
      /\ NoId \notin Range(Refs(c, r))
  BY RefsFacts
<1>2. Refs(c, r) \in Seq(Rows) /\ \A id \in Range(Refs(c, r)) : At(c, id)
  <2>1. Range(Refs(c, r)) \subseteq Rows
    BY <1>1, RangeOfSeq
  <2>2. Refs(c, r) \in Seq(Range(Refs(c, r)))
    BY <1>1, SeqOfRange
  <2>3. QED
    BY <1>1, <2>1, <2>2, SeqMonotonic
<1>3. Limit(c) \in Nat
  BY EdgeFacts, LimitIsNatural
<1> DEFINE page == ByParent(c, r).rows
<1>4. page \in Seq(Rows) /\ Range(page) \subseteq Range(Refs(c, r))
  <2>1. page = IF World.over THEN Refs(c, r) ELSE Trim(c, Refs(c, r))
    BY DEF ByParent, Refs
  <2>2. QED
    BY <1>2, <1>3, <2>1, TrimFacts
<1>5. Kept(c, r) = Trim(c, page)
  BY DEF Kept
<1> HIDE DEF page
<1>6. Kept(c, r) \in Seq(Rows) /\ Range(Kept(c, r)) \subseteq Range(page)
  BY <1>3, <1>4, <1>5, TrimFacts
<1>7. QED
  BY <1>2, <1>4, <1>6

\* The ids of a level are what its rows outside the guard hold.
LEMMA CollectFacts ==
    ASSUME NEW c, NEW docs
    PROVE  \A x : x \in Collect(c, docs) <=>
                 /\ x # NoId
                 /\ \E r \in Range(docs) : ~Guarded(c, r) /\ x \in Range(Collected(c, r))
<1> DEFINE Held == UNION {Range(Collected(c, docs[i])) : i \in {j \in DOMAIN docs : ~Guarded(c, docs[j])}}
<1>1. ASSUME NEW x
      PROVE  x \in Held <=> \E r \in Range(docs) : ~Guarded(c, r) /\ x \in Range(Collected(c, r))
  <2> DEFINE Ids(i) == Range(Collected(c, docs[i]))
             Open == {j \in DOMAIN docs : ~Guarded(c, docs[j])}
  <2>1. Held = UNION {Ids(i) : i \in Open}
    OBVIOUS
  <2>2. (\E i \in Open : x \in Ids(i))
          <=> \E r \in Range(docs) : ~Guarded(c, r) /\ x \in Range(Collected(c, r))
    BY DEF Range
  <2> HIDE DEF Ids, Open, Held
  <2>3. x \in Held <=> \E i \in Open : x \in Ids(i)
    BY <2>1
  <2>4. QED
    BY <2>2, <2>3
<1>2. Collect(c, docs) = Held \ {NoId}
  BY DEF Collect
<1> HIDE DEF Held
<1>3. QED
  BY <1>1, <1>2

\* The parents of the request are the rows outside the guard, once each.
LEMMA ParentsFacts ==
    ASSUME NEW c, NEW docs \in Seq(Rows)
    PROVE  /\ Parents(c, docs) \in Seq(Rows) /\ IsInjective(Parents(c, docs))
           /\ Range(Parents(c, docs)) = {r \in Range(docs) : ~Guarded(c, r)}
<1>1. Range(docs) \subseteq Rows
  BY RangeOfSeq
<1>2. QED
  BY <1>1, PickedFacts DEF Parents

-----------------------------------------------------------------------------
\* The pages of a level's parents, in their order.
Pages(c, ps) == [i \in DOMAIN ps |-> Kept(c, ps[i])]

\* The pages of the parents, whose rows one after the other are the next level.
LEMMA PagesFacts ==
    ASSUME in \in Inputs, NEW c \in Edges, EdgeOf(c).kind = "reverse",
           NEW docs, Stand(Front(c), docs)
    PROVE  /\ Pages(c, Parents(c, docs)) \in Seq(Seq(Rows))
           /\ Len(Pages(c, Parents(c, docs))) = Len(Parents(c, docs))
           /\ \A i \in 1..Len(Parents(c, docs)) :
                 /\ Pages(c, Parents(c, docs))[i] = Kept(c, Parents(c, docs)[i])
                 /\ Parents(c, docs)[i] \in {r \in Range(docs) : ~Guarded(c, r)}
                 /\ \A t \in Range(Pages(c, Parents(c, docs))[i]) : At(c, t)
           /\ EndsOf(Ends(c, Parents(c, docs)), Pages(c, Parents(c, docs)))
           /\ NextRows(c, docs) = FlattenSeq(Pages(c, Parents(c, docs)))
<1> DEFINE ps == Parents(c, docs)
           ss == Pages(c, ps)
<1>1. docs \in Seq(Rows) /\ \A r \in Range(docs) : At(Front(c), r)
  BY DEF Stand
<1>2. /\ ps \in Seq(Rows) /\ Range(ps) = {r \in Range(docs) : ~Guarded(c, r)}
  BY <1>1, ParentsFacts
<1>3. Len(ps) \in Nat /\ DOMAIN ps = 1..Len(ps)
  BY <1>2, LenProperties
<1>4. NextRows(c, docs) = FlattenSeq(ss)
  BY DEF NextRows, Pages
<1> HIDE DEF ps
<1>5. ASSUME NEW i \in 1..Len(ps)
      PROVE  /\ ss[i] = Kept(c, ps[i]) /\ ps[i] \in {r \in Range(docs) : ~Guarded(c, r)}
             /\ ss[i] \in Seq(Rows) /\ \A t \in Range(ss[i]) : At(c, t)
  <2>1. ss[i] = Kept(c, ps[i])
    BY <1>3 DEF Pages
  <2>2. ps[i] \in Range(ps)
    BY <1>3 DEF Range
  <2>3. ps[i] \in {r \in Range(docs) : ~Guarded(c, r)} /\ At(Front(c), ps[i])
    BY <1>1, <1>2, <2>2
  <2>4. QED
    BY <2>1, <2>3, KeptFacts
<1>6. ss \in Seq(Seq(Rows)) /\ Len(ss) = Len(ps)
  <2>1. ss = [i \in 1..Len(ps) |-> Kept(c, ps[i])]
    BY <1>3 DEF Pages
  <2>2. \A i \in 1..Len(ps) : Kept(c, ps[i]) \in Seq(Rows)
    BY <1>5
  <2> HIDE DEF ss
  <2>3. QED
    BY <1>3, <2>1, <2>2
<1>7. EndsOf(Ends(c, ps), ss)
  <2>1. PICK e : EndsOf(e, ss)
    BY <1>6, EndsExist
  <2>0. \A n \in 0..Len(ps) : n # 0 => Len(ss[n]) = Len(Kept(c, ps[n]))
    <3>1. \A n \in 0..Len(ps) : n # 0 => n \in 1..Len(ps)
      BY <1>3
    <3>2. QED
      BY <1>5, <3>1
  <2> HIDE DEF ss
  <2>2. e = [n \in 0..Len(ps) |-> IF n = 0 THEN 0 ELSE e[n - 1] + Len(Kept(c, ps[n]))]
    BY <1>6, <2>0, <2>1 DEF EndsOf
  <2> DEFINE d == CHOOSE g : g = [n \in 0..Len(ps) |-> IF n = 0 THEN 0 ELSE g[n - 1] + Len(Kept(c, ps[n]))]
  <2>3. d = [n \in 0..Len(ps) |-> IF n = 0 THEN 0 ELSE d[n - 1] + Len(Kept(c, ps[n]))]
    BY <2>2
  <2>4. Ends(c, ps) = d
    BY DEF Ends
  <2> HIDE DEF d
  <2>5. d = [n \in 0..Len(ss) |-> IF n = 0 THEN 0 ELSE d[n - 1] + Len(ss[n])]
    BY <1>6, <2>0, <2>3
  <2>6. QED
    BY <2>4, <2>5 DEF EndsOf
<1> HIDE DEF ss
<1>8. QED
  BY <1>4, <1>5, <1>6, <1>7 DEF ss, ps

-----------------------------------------------------------------------------
\* What a forward edge's fetcher returns for a level: rows that stand at the edge,
\* among them what was asked for but for the hidden ones.
LEMMA ByIdsFacts ==
    ASSUME in \in Inputs, NEW c \in Edges, Forward(c), NEW docs, Stand(Front(c), docs)
    PROVE  /\ \A t \in ByIds(c, Collect(c, docs)) : At(c, t)
           /\ IsFiniteSet(ByIds(c, Collect(c, docs)))
           /\ \A t : t \in Rows \ World.extra =>
                 (t \in ByIds(c, Collect(c, docs))
                    <=> t \in Collect(c, docs) /\ t \notin World.hidden)
           /\ \A t : t \in Collect(c, docs) =>
                 (t \in ByIds(c, Collect(c, docs)) <=> t \notin World.hidden)
<1> DEFINE ids == Collect(c, docs)
<1>1. \A x : x \in ids <=> /\ x # NoId
                           /\ \E r \in Range(docs) : ~Guarded(c, r) /\ x \in Range(Collected(c, r))
  BY CollectFacts
<1>2. \A x \in ids : At(c, x)
  <2>1. ASSUME NEW x \in ids PROVE At(c, x)
    <3>1. PICK r \in Range(docs) : x \in Range(Collected(c, r)) /\ x # NoId
      BY <1>1
    <3>2. At(Front(c), r)
      BY DEF Stand
    <3>3. QED
      BY <3>1, <3>2, CollectedFacts
  <2>2. QED
    BY <2>1
<1> HIDE DEF ids
<1>3. /\ World.hidden \in SUBSET Rows /\ World.extra \in SUBSET Rows
      /\ World.hidden \cap World.extra = {}
  BY CallFacts
<1> DEFINE back == ByIds(c, ids)
<1>4. \A t : t \in back <=> \/ t \in ids /\ t \notin World.hidden
                            \/ t \in World.extra /\ World.resource[t] = Node(c).resource
  BY DEF ByIds
<1> HIDE DEF back
<1>5. \A t \in back : At(c, t)
  BY <1>2, <1>3, <1>4 DEF At
<1>6. back \subseteq Rows
  BY <1>5 DEF At
<1>7. IsFiniteSet(back)
  BY <1>6, RowsAssumption, FS_Subset
<1>8. QED
  BY <1>2, <1>3, <1>4, <1>5, <1>7 DEF back, ids

\* The rows of the next level stand at the edge.
LEMMA NextRowsStand ==
    ASSUME in \in Inputs, NEW c \in Edges, NEW docs, Stand(Front(c), docs)
    PROVE  Stand(c, NextRows(c, docs))
<1>1. CASE Forward(c)
  <2> DEFINE back == ByIds(c, Collect(c, docs))
  <2>1. NextRows(c, docs) = SetToSeq(back)
    BY <1>1 DEF NextRows, Forward
  <2>2. IsFiniteSet(back) /\ \A t \in back : At(c, t)
    BY <1>1, ByIdsFacts
  <2> HIDE DEF back
  <2>3. SetToSeq(back) \in Seq(back) /\ Range(SetToSeq(back)) = back
    BY <2>2, SetToSeqFacts
  <2>4. back \subseteq Rows
    BY <2>2 DEF At
  <2>5. SetToSeq(back) \in Seq(Rows)
    BY <2>3, <2>4, SeqMonotonic
  <2>6. QED
    BY <2>1, <2>2, <2>3, <2>5 DEF Stand
<1>2. CASE EdgeOf(c).kind = "reverse"
  <2> DEFINE ps == Parents(c, docs)
             ss == Pages(c, ps)
             rows == FlattenSeq(ss)
  <2>1. /\ ss \in Seq(Seq(Rows)) /\ Len(ss) = Len(ps)
        /\ \A i \in 1..Len(ps) : \A t \in Range(ss[i]) : At(c, t)
        /\ NextRows(c, docs) = rows
        /\ EndsOf(Ends(c, ps), ss)
    BY <1>2, PagesFacts
  <2> HIDE DEF ss, ps
  <2>2. /\ rows \in Seq(Rows)
        /\ \A i \in 1..Len(rows) : \E n \in 1..Len(ss) : \E j \in 1..Len(ss[n]) : rows[i] = ss[n][j]
    BY <2>1, FlattenFacts
  <2> HIDE DEF rows
  <2>3. ASSUME NEW t \in Range(rows) PROVE At(c, t)
    <3>1. PICK i \in 1..Len(rows) : t = rows[i]
      BY <2>2, LenProperties DEF Range
    <3>2. PICK n \in 1..Len(ss) : \E j \in 1..Len(ss[n]) : t = ss[n][j]
      BY <2>2, <3>1
    <3>3. PICK j \in 1..Len(ss[n]) : t = ss[n][j]
      BY <3>2
    <3>4. ss[n] \in Seq(Rows)
      BY <2>1, ElementOfSeq
    <3>5. t \in Range(ss[n])
      BY <3>3, <3>4, LenProperties DEF Range
    <3>6. QED
      BY <2>1, <3>5
  <2>4. QED
    BY <2>1, <2>2, <2>3 DEF Stand
<1>3. QED
  BY <1>1, <1>2, EdgeFacts

\* Nobody to ask for, nobody in the level of a reverse edge.
LEMMA NoParentsNoRows ==
    ASSUME in \in Inputs, NEW c \in Edges, EdgeOf(c).kind = "reverse",
           NEW docs, Stand(Front(c), docs), Collect(c, docs) = {}
    PROVE  NextRows(c, docs) = <<>>
<1> DEFINE ps == Parents(c, docs)
<1>1. ps \in Seq(Rows) /\ Range(ps) = {r \in Range(docs) : ~Guarded(c, r)}
  BY ParentsFacts DEF Stand
<1>2. ASSUME NEW r \in Range(ps) PROVE FALSE
  <2>1. r \in Range(docs) /\ ~Guarded(c, r) /\ At(Front(c), r)
    BY <1>1 DEF Stand
  <2>2. Collected(c, r) = <<r>>
    BY <2>1, CollectedFacts
  <2>3. r \in Range(<<r>>)
    <3>1. 1 \in DOMAIN <<r>> /\ <<r>>[1] = r
      OBVIOUS
    <3>2. QED
      BY <3>1 DEF Range
  <2>4. r # NoId
    BY <2>1, RowsAssumption DEF At
  <2>5. r \in Collect(c, docs)
    BY <2>1, <2>2, <2>3, <2>4, CollectFacts
  <2>6. QED
    BY <2>5
<1>3. NextRows(c, docs) = FlattenSeq(Pages(c, ps)) /\ Pages(c, ps) \in Seq(Seq(Rows)) /\ Len(Pages(c, ps)) = Len(ps)
  BY PagesFacts
<1> HIDE DEF ps
<1>4. Len(ps) = 0
  <2>1. Len(ps) \in Nat /\ DOMAIN ps = 1..Len(ps)
    BY <1>1, LenProperties
  <2>2. ASSUME Len(ps) # 0 PROVE FALSE
    <3>1. 1 \in DOMAIN ps
      BY <2>1, <2>2
    <3>2. ps[1] \in Range(ps)
      BY <3>1 DEF Range
    <3>3. QED
      BY <1>2, <3>2
  <2>3. QED
    BY <2>2
<1> DEFINE ss == Pages(c, ps)
<1>5. ss \in Seq(Seq(Rows)) /\ Len(ss) = 0 /\ NextRows(c, docs) = FlattenSeq(ss)
  BY <1>3, <1>4
<1> HIDE DEF ss
<1>6. ss = <<>>
  BY <1>5, EmptySeq
<1>7. FlattenSeq(ss) = ss
  BY <1>6 DEF FlattenSeq
<1>8. QED
  BY <1>5, <1>6, <1>7

\* Without unrequested rows the next level is made of the targets of this one.
LEMMA NextRowsTargets ==
    ASSUME in \in Inputs, NEW c \in Edges, NEW docs, Stand(Front(c), docs), Conforming
    PROVE  Range(NextRows(c, docs)) = UNION {Targets(c, r) : r \in Range(docs)}
<1> DEFINE rows == NextRows(c, docs)
           all == UNION {Targets(c, r) : r \in Range(docs)}
<1>1. \A t : t \in all <=> \E r \in Range(docs) : t \in Targets(c, r)
  OBVIOUS
<1> HIDE DEF all
<1>2. CASE Forward(c)
  <2> DEFINE back == ByIds(c, Collect(c, docs))
  <2>1. /\ rows = SetToSeq(back) /\ IsFiniteSet(back) /\ \A t \in back : At(c, t)
        /\ \A t : t \in Rows \ World.extra =>
                 (t \in back <=> t \in Collect(c, docs) /\ t \notin World.hidden)
    BY <1>2, ByIdsFacts DEF NextRows, Forward
  <2> HIDE DEF back
  <2>2. Range(rows) = back
    BY <2>1, SetToSeqFacts
  <2>3. \A t : t \in Collect(c, docs) => t \in Rows
    <3>1. ASSUME NEW t, t \in Collect(c, docs) PROVE t \in Rows
      <4>1. PICK r \in Range(docs) : t \in Range(Collected(c, r)) /\ t # NoId
        BY <3>1, CollectFacts
      <4>2. At(Front(c), r)
        BY DEF Stand
      <4>3. QED
        BY <4>1, <4>2, CollectedFacts, RangeOfSeq
    <3>2. QED
      BY <3>1
  <2>4. \A t : t \in back <=> t \in Collect(c, docs) /\ t \notin World.hidden
    BY <2>1, <2>3 DEF Conforming, At
  <2>5. \A r : \A t : t \in Targets(c, r) <=>
                /\ ~Guarded(c, r) /\ t \in Range(Collected(c, r))
                /\ t # NoId /\ t \notin World.hidden
    BY <1>2 DEF Targets, Forward
  <2>6. \A t : t \in back <=> t \in all
    BY <1>1, <2>4, <2>5, CollectFacts
  <2>7. QED
    BY <2>2, <2>6 DEF all
<1>3. CASE EdgeOf(c).kind = "reverse"
  <2> DEFINE ps == Parents(c, docs)
             ss == Pages(c, ps)
             e == Ends(c, ps)
  <2>1. /\ ss \in Seq(Seq(Rows)) /\ Len(ss) = Len(ps)
        /\ \A i \in 1..Len(ps) : /\ ss[i] = Kept(c, ps[i])
                                 /\ ps[i] \in {r \in Range(docs) : ~Guarded(c, r)}
        /\ rows = FlattenSeq(ss)
        /\ EndsOf(e, ss)
    BY <1>3, PagesFacts
  <2>2. ps \in Seq(Rows) /\ Range(ps) = {r \in Range(docs) : ~Guarded(c, r)}
    BY ParentsFacts DEF Stand
  <2> HIDE DEF ss, ps, rows, e
  <2>3. /\ rows \in Seq(Rows)
        /\ Len(rows) = e[Len(ss)]
        /\ \A n \in 1..Len(ss) : \A j \in 1..Len(ss[n]) :
              e[n - 1] + j \in 1..e[Len(ss)] /\ rows[e[n - 1] + j] = ss[n][j]
        /\ \A i \in 1..Len(rows) : \E n \in 1..Len(ss) : \E j \in 1..Len(ss[n]) : rows[i] = ss[n][j]
    <3>1. /\ FlattenSeq(ss) \in Seq(Rows)
          /\ Len(FlattenSeq(ss)) = e[Len(ss)]
          /\ \A n \in 1..Len(ss) : \A j \in 1..Len(ss[n]) :
                e[n - 1] + j \in 1..e[Len(ss)] /\ FlattenSeq(ss)[e[n - 1] + j] = ss[n][j]
          /\ \A i \in 1..Len(FlattenSeq(ss)) : \E n \in 1..Len(ss) : \E j \in 1..Len(ss[n]) : FlattenSeq(ss)[i] = ss[n][j]
      BY <2>1, FlattenFacts
    <3>2. QED
      BY <2>1, <3>1
  <2>4. \A n \in 1..Len(ss) : ss[n] \in Seq(Rows)
    BY <2>1, ElementOfSeq
  <2>5. \A r \in Range(docs) : \A t : t \in Targets(c, r) <=> ~Guarded(c, r) /\ t \in Range(Kept(c, r))
    BY <1>3 DEF Targets
  <2>6. ASSUME NEW t \in Range(rows) PROVE t \in all
    <3>1. PICK i \in 1..Len(rows) : t = rows[i]
      BY <2>3, LenProperties DEF Range
    <3>2. PICK n \in 1..Len(ss) : \E j \in 1..Len(ss[n]) : t = ss[n][j]
      BY <2>3, <3>1
    <3>3. PICK j \in 1..Len(ss[n]) : t = ss[n][j]
      BY <3>2
    <3>4. t \in Range(ss[n])
      BY <2>4, <3>3, LenProperties DEF Range
    <3>5. QED
      BY <1>1, <2>1, <2>5, <3>4
  <2>7. ASSUME NEW t \in all PROVE t \in Range(rows)
    <3>1. PICK r \in Range(docs) : ~Guarded(c, r) /\ t \in Range(Kept(c, r))
      BY <1>1, <2>5
    <3>2. r \in Range(ps)
      BY <2>2, <3>1
    <3>3. PICK n \in 1..Len(ps) : r = ps[n]
      BY <2>2, <3>2, LenProperties DEF Range
    <3>4. t \in Range(ss[n]) /\ ss[n] \in Seq(Rows)
      BY <2>1, <2>4, <3>1, <3>3
    <3>5. PICK j \in 1..Len(ss[n]) : t = ss[n][j]
      BY <3>4, LenProperties DEF Range
    <3>6. e[n - 1] + j \in 1..Len(rows) /\ rows[e[n - 1] + j] = t
      BY <2>1, <2>3, <3>5
    <3>7. DOMAIN rows = 1..Len(rows)
      BY <2>3, LenProperties
    <3>8. QED
      BY <3>6, <3>7 DEF Range
  <2>8. QED
    BY <2>6, <2>7 DEF rows, all
<1>4. QED
  BY <1>2, <1>3, EdgeFacts

-----------------------------------------------------------------------------
\* Two recursions over the paths of a plan: documents are made from the leaves up,
\* rows are needed from the root down.
Deep(S, M, n) == {p \in S : Len(p) + n > M}
IsDocs(D, S) == D = [p \in S |-> [r \in Rows |-> NaiveDoc(p, r, D)]]
Shallow(S, n) == {p \in S : Len(p) < n}
IsNeeded(N, S) == N = [p \in S |-> NeededAt(p, N)]

\* The document of a row depends on those of the paths just below.
LEMMA NaiveDocDepends ==
    ASSUME NEW p, NEW r, NEW D, NEW E,
           \A k \in Range(Children(p)) : D[Append(p, k)] = E[Append(p, k)]
    PROVE  NaiveDoc(p, r, D) = NaiveDoc(p, r, E)
<1>1. NaiveEdges(p, r, D) = NaiveEdges(p, r, E)
  BY DEF NaiveEdges
<1>2. QED
  BY <1>1 DEF NaiveDoc

\* The documents of a plan are defined from its leaves upward.
LEMMA DocsExist ==
    ASSUME in \in Inputs
    PROVE  \E D : IsDocs(D, DOMAIN in.plan)
<1> DEFINE P == DOMAIN in.plan
<1>1. P \in SUBSET Seq(Keys) /\ IsFiniteSet(P)
  BY CallFacts
<1> HIDE DEF P
<1>2. PICK M \in Nat : \A p \in P : Len(p) <= M
  BY <1>1, LengthsBounded
<1> DEFINE T == {n \in Nat : \E D : IsDocs(D, Deep(P, M, n))}
<1>3. 0 \in T
  <2>1. Deep(P, M, 0) = {}
    <3>1. \A p \in P : Len(p) \in Nat
      BY <1>1, LenProperties
    <3>2. QED
      BY <1>2, <3>1 DEF Deep
  <2> DEFINE D == [p \in {} |-> 0]
  <2>2. IsDocs(D, {})
    BY DEF IsDocs
  <2> HIDE DEF D
  <2>3. QED
    BY <2>1, <2>2
<1>4. ASSUME NEW n \in Nat, n \in T PROVE n + 1 \in T
  <2>1. PICK D : IsDocs(D, Deep(P, M, n))
    BY <1>4
  <2> DEFINE E == [p \in Deep(P, M, n + 1) |-> [r \in Rows |-> NaiveDoc(p, r, D)]]
  <2>2. Deep(P, M, n) \subseteq Deep(P, M, n + 1)
    <3>1. \A p \in P : Len(p) \in Nat
      BY <1>1, LenProperties
    <3>2. QED
      BY <3>1 DEF Deep
  <2>3. \A p \in Deep(P, M, n) : E[p] = D[p]
    BY <2>1, <2>2 DEF IsDocs
  <2> HIDE DEF E
  <2>4. ASSUME NEW p \in Deep(P, M, n + 1), NEW r
        PROVE  NaiveDoc(p, r, D) = NaiveDoc(p, r, E)
    <3>1. p \in P /\ p \in Seq(Keys) /\ Len(p) + (n + 1) > M
      BY <1>1 DEF Deep
    <3>2. ASSUME NEW k \in Range(Children(p)) PROVE Append(p, k) \in Deep(P, M, n)
      <4>1. k \in Keys /\ Append(p, k) \in P
        BY <3>1, ChildrenFacts DEF Child, P
      <4>2. Len(Append(p, k)) = Len(p) + 1 /\ Len(p) \in Nat
        BY <3>1, <4>1, AppendFacts
      <4>3. Len(Append(p, k)) + n > M
        BY <3>1, <4>2
      <4>4. QED
        BY <4>1, <4>3 DEF Deep
    <3>3. \A k \in Range(Children(p)) : D[Append(p, k)] = E[Append(p, k)]
      BY <2>3, <3>2
    <3>4. QED
      BY <3>3, NaiveDocDepends
  <2>5. IsDocs(E, Deep(P, M, n + 1))
    <3>1. E = [p \in Deep(P, M, n + 1) |-> [r \in Rows |-> NaiveDoc(p, r, D)]]
      BY DEF E
    <3>2. QED
      BY <2>4, <3>1 DEF IsDocs
  <2>6. QED
    BY <2>5
<1>5. Nat \subseteq T
  <2> HIDE DEF T
  <2>1. QED
    BY <1>3, <1>4, NaturalsByStep
<1>6. Deep(P, M, M + 1) = P
  <2>1. \A p \in P : Len(p) \in Nat
    BY <1>1, LenProperties
  <2>2. QED
    BY <2>1 DEF Deep
<1>7. M + 1 \in T
  <2> HIDE DEF T
  <2>1. QED
    BY <1>5
<1>8. QED
  BY <1>6, <1>7 DEF P

\* So the documents of a node are those its definition says.
LEMMA NaiveDocsFacts ==
    ASSUME in \in Inputs, NEW p \in DOMAIN in.plan, NEW r \in Rows
    PROVE  NaiveDocs[p][r] = NaiveDoc(p, r, NaiveDocs)
<1> DEFINE D == CHOOSE g : g = [q \in DOMAIN in.plan |-> [s \in Rows |-> NaiveDoc(q, s, g)]]
<1>1. D = [q \in DOMAIN in.plan |-> [s \in Rows |-> NaiveDoc(q, s, D)]]
  BY DocsExist DEF IsDocs
<1>2. NaiveDocs = D
  BY DEF NaiveDocs
<1> HIDE DEF D
<1>3. QED
  BY <1>1, <1>2

\* The rows a path needs depend on those of the path just above.
LEMMA NeededExists ==
    ASSUME in \in Inputs
    PROVE  \E N : IsNeeded(N, DOMAIN in.plan)
<1> DEFINE P == DOMAIN in.plan
<1>1. /\ P \in SUBSET Seq(Keys) /\ IsFiniteSet(P)
      /\ \A p \in P : p # <<>> => Front(p) \in P
  BY CallFacts
<1> HIDE DEF P
<1>2. PICK M \in Nat : \A p \in P : Len(p) <= M
  BY <1>1, LengthsBounded
<1>3. \A p \in P : Len(p) \in Nat /\ (p # <<>> => Len(Front(p)) = Len(p) - 1)
  BY <1>1, LenProperties, FrontFacts
<1> DEFINE T == {n \in Nat : \E N : IsNeeded(N, Shallow(P, n))}
<1>4. 0 \in T
  <2>1. Shallow(P, 0) = {}
    BY <1>3 DEF Shallow
  <2> DEFINE N == [p \in {} |-> 0]
  <2>2. IsNeeded(N, {})
    BY DEF IsNeeded
  <2> HIDE DEF N
  <2>3. QED
    BY <2>1, <2>2
<1>5. ASSUME NEW n \in Nat, n \in T PROVE n + 1 \in T
  <2>1. PICK N : IsNeeded(N, Shallow(P, n))
    BY <1>5
  <2> DEFINE O == [p \in Shallow(P, n + 1) |-> NeededAt(p, N)]
  <2>2. Shallow(P, n) \subseteq Shallow(P, n + 1)
    BY <1>3 DEF Shallow
  <2>3. \A p \in Shallow(P, n) : O[p] = N[p]
    BY <2>1, <2>2 DEF IsNeeded
  <2> HIDE DEF O
  <2>4. ASSUME NEW p \in Shallow(P, n + 1) PROVE NeededAt(p, N) = NeededAt(p, O)
    <3>1. p # <<>> => Front(p) \in Shallow(P, n)
      BY <1>1, <1>3 DEF Shallow
    <3>2. p # <<>> => O[Front(p)] = N[Front(p)]
      BY <2>3, <3>1
    <3>3. QED
      BY <3>2 DEF NeededAt
  <2>5. IsNeeded(O, Shallow(P, n + 1))
    <3>1. O = [p \in Shallow(P, n + 1) |-> NeededAt(p, N)]
      BY DEF O
    <3>2. QED
      BY <2>4, <3>1 DEF IsNeeded
  <2>6. QED
    BY <2>5
<1>6. Nat \subseteq T
  <2> HIDE DEF T
  <2>1. QED
    BY <1>4, <1>5, NaturalsByStep
<1>7. Shallow(P, M + 1) = P
  BY <1>2, <1>3 DEF Shallow
<1>8. M + 1 \in T
  <2> HIDE DEF T
  <2>1. QED
    BY <1>6
<1>9. QED
  BY <1>7, <1>8 DEF P

\* So the rows a node is asked for are those its definition says.
LEMMA NeededFacts ==
    ASSUME in \in Inputs
    PROVE  /\ Needed[<<>>] = Range(in.docs)
           /\ \A c \in Edges : Needed[c] = UNION {Targets(c, r) : r \in Needed[Front(c)]}
           /\ \A c \in DOMAIN in.plan \ {<<>>} : c \notin Edges => Needed[c] = {}
<1> DEFINE N == CHOOSE g : g = [p \in DOMAIN in.plan |-> NeededAt(p, g)]
<1>1. IsNeeded(N, DOMAIN in.plan)
  BY NeededExists DEF IsNeeded
<1>2. Needed = N
  BY DEF Needed
<1> HIDE DEF N
<1>3. \A p \in DOMAIN in.plan : Needed[p] = NeededAt(p, Needed)
  BY <1>1, <1>2 DEF IsNeeded
<1>4. <<>> \in DOMAIN in.plan
  BY CallFacts
<1>5. QED
  BY <1>3, <1>4 DEF NeededAt, Edges

-----------------------------------------------------------------------------
\* The rows a level's edge is resolved with: what was asked for but for the hidden
\* ones, whatever else the fetcher returned; of a reverse edge, the next level.
Answers(c, docs, rows) ==
    /\ rows \in Seq(Rows)
    /\ EdgeOf(c).kind = "reverse" => rows = NextRows(c, docs)
    /\ Forward(c) => \A id \in Collect(c, docs) : id \in Range(rows) <=> id \notin World.hidden

\* The rows of an edge's level answer what the level below asked for.
LEMMA NextRowsAnswer ==
    ASSUME in \in Inputs, NEW c \in Edges, NEW docs, Stand(Front(c), docs)
    PROVE  Answers(c, docs, NextRows(c, docs))
<1>1. NextRows(c, docs) \in Seq(Rows)
  BY NextRowsStand DEF Stand
<1>2. ASSUME Forward(c), NEW id \in Collect(c, docs)
      PROVE  id \in Range(NextRows(c, docs)) <=> id \notin World.hidden
  <2> DEFINE back == ByIds(c, Collect(c, docs))
  <2>1. /\ NextRows(c, docs) = SetToSeq(back) /\ IsFiniteSet(back)
        /\ id \in back <=> id \notin World.hidden
    BY <1>2, ByIdsFacts DEF NextRows, Forward
  <2> HIDE DEF back
  <2>2. Range(NextRows(c, docs)) = back
    BY <2>1, SetToSeqFacts
  <2>3. QED
    BY <2>1, <2>2
<1>3. QED
  BY <1>1, <1>2 DEF Answers

\* No rows answer an edge nobody refers through.
LEMMA NothingAnswers ==
    ASSUME NEW c, EdgeOf(c).kind # "reverse", NEW docs, Collect(c, docs) = {}
    PROVE  Answers(c, docs, <<>>)
BY DEF Answers

\* What a row outside the guard refers to is asked for.
LEMMA AskedFor ==
    ASSUME in \in Inputs, NEW c \in Edges, Forward(c), NEW docs, Stand(Front(c), docs),
           NEW r \in Range(docs), ~Guarded(c, r),
           NEW id \in Range(Collected(c, r)), id # NoId
    PROVE  id \in Collect(c, docs) /\ id \in Rows
<1>1. At(Front(c), r)
  BY DEF Stand
<1>2. QED
  BY <1>1, CollectFacts, CollectedFacts DEF At

\* A policy judges a row alike by two sets that have the same ids of it.
LEMMA FaultAgree ==
    ASSUME in \in Inputs, NEW c \in Edges, NEW r, At(Front(c), r),
           NEW A, NEW B, NoId \notin A, NoId \notin B,
           ~Guarded(c, r) => \A id \in Range(Collected(c, r)) \ {NoId} : id \in A <=> id \in B
    PROVE  ForwardFault(c, r, A) = ForwardFault(c, r, B)
<1> DEFINE ids == IF Guarded(c, r) THEN <<>> ELSE Collected(c, r)
           Dangles(S) == \E i \in Range(ids) : i # NoId /\ i \notin S
           Resolved(S) == ids # <<>> /\ ids[1] \in S
<1>1. Collected(c, r) \in Seq(Rows \cup {NoId})
  BY CollectedFacts
<1>2. ids \in Seq(Rows \cup {NoId})
  BY <1>1
<1>3. \A id \in Range(ids) \ {NoId} : id \in A <=> id \in B
  <2>1. Range(<<>>) = {}
    BY DEF Range
  <2>2. QED
    BY <2>1
<1> HIDE DEF ids
<1>4. Dangles(A) <=> Dangles(B)
  BY <1>3
<1>5. Resolved(A) <=> Resolved(B)
  <2>1. ids # <<>> => ids[1] \in Range(ids)
    BY <1>2, EmptySeq, LenProperties DEF Range
  <2>2. QED
    BY <1>3, <2>1
<1> DEFINE Fault(S) ==
               LET dangling == IF StrictForeign(c) /\ Dangles(S) THEN "danglingFK" ELSE "none"
               IN  CASE EdgeOf(c).kind = "toOne" ->
                          IF StrictRequired(c) /\ ~Resolved(S) THEN "missingRequired" ELSE dangling
                     [] EdgeOf(c).kind = "hasMany" -> dangling
                     [] EdgeOf(c).kind = "inArray" ->
                          IF World.array[r] = Absent \/ Guarded(c, r) THEN "none"
                          ELSE IF Len(ids) # World.array[r] THEN "lengthMismatch" ELSE dangling
                     [] OTHER -> "none"
<1>6. ForwardFault(c, r, A) = Fault(A) /\ ForwardFault(c, r, B) = Fault(B)
  BY DEF ForwardFault, ids
<1> HIDE DEF Dangles, Resolved
<1>7. Fault(A) = Fault(B)
  BY <1>4, <1>5
<1>8. QED
  BY <1>6, <1>7

\* The rows of an edge stand in for all rows outside the hidden ones.
LEMMA LevelFault ==
    ASSUME in \in Inputs, NEW c \in Edges, NEW docs, Stand(Front(c), docs), NEW r \in Range(docs),
           NEW rows, Answers(c, docs, rows)
    PROVE  ForwardFault(c, r, Range(rows)) = ForwardFault(c, r, Rows \ World.hidden)
<1>1. At(Front(c), r) /\ Range(rows) \subseteq Rows
  BY RangeOfSeq DEF Stand, Answers
<1>2. CASE Forward(c)
  <2>1. ASSUME ~Guarded(c, r), NEW id \in Range(Collected(c, r)) \ {NoId}
        PROVE  id \in Range(rows) <=> id \in Rows \ World.hidden
    BY <1>2, <2>1, AskedFor DEF Answers
  <2>2. QED
    BY <1>1, <2>1, FaultAgree, RowsAssumption
<1>3. CASE EdgeOf(c).kind = "reverse"
  BY <1>3 DEF ForwardFault
<1>4. QED
  BY <1>2, <1>3, EdgeFacts

\* The index of a level's documents gives every id that resolved its document.
LEMMA IndexFacts ==
    ASSUME NEW rows \in Seq(Rows), NEW out, NEW D, \A i \in DOMAIN rows : out[i] = D[rows[i]]
    PROVE  DOMAIN Index(rows, out) = Range(rows) /\ \A t \in Range(rows) : Index(rows, out)[t] = D[t]
<1>1. ASSUME NEW t \in Range(rows) PROVE Index(rows, out)[t] = D[t]
  <2> DEFINE i == CHOOSE i \in DOMAIN rows : rows[i] = t
  <2>1. i \in DOMAIN rows /\ rows[i] = t
    BY DEF Range
  <2>2. Index(rows, out)[t] = out[i]
    BY DEF Index
  <2> HIDE DEF i
  <2>3. QED
    BY <2>1, <2>2
<1>2. QED
  BY <1>1 DEF Index

\* Two indexes that agree on what a row refers to make the same value of it.
LEMMA ForwardAgree ==
    ASSUME in \in Inputs, NEW c \in Edges, Forward(c), NEW r, At(Front(c), r),
           NEW f, NEW g, NoId \notin DOMAIN f, NoId \notin DOMAIN g,
           ~Guarded(c, r) => \A id \in Range(Collected(c, r)) \ {NoId} :
              /\ id \in DOMAIN f <=> id \in DOMAIN g
              /\ id \in DOMAIN f => f[id] = g[id],
           EdgeOf(c).kind = "inArray" /\ World.array[r] # Absent /\ ~Guarded(c, r)
              => Len(Collected(c, r)) = World.array[r]
    PROVE  ForwardValue(c, r, f) = ForwardValue(c, r, g)
<1> DEFINE ids == IF Guarded(c, r) THEN <<>> ELSE Collected(c, r)
           One(h, i) == IF i \in DOMAIN h THEN h[i] ELSE Null
<1>1. Collected(c, r) \in Seq(Rows \cup {NoId})
  BY CollectedFacts
<1>2. ids \in Seq(Rows \cup {NoId}) /\ Len(ids) \in Nat /\ DOMAIN ids = 1..Len(ids)
  BY <1>1, LenProperties
<1>3. \A id \in Range(ids) : /\ id \in DOMAIN f <=> id \in DOMAIN g
                             /\ id \in DOMAIN f => f[id] = g[id]
  <2>1. Range(<<>>) = {}
    BY DEF Range
  <2>2. QED
    BY <2>1
<1>4. \A i \in 1..Len(ids) : One(f, ids[i]) = One(g, ids[i])
  <2> HIDE DEF ids
  <2>1. \A i \in 1..Len(ids) : ids[i] \in Range(ids)
    BY <1>2 DEF Range
  <2>2. QED
    BY <1>3, <2>1
<1>5. CASE EdgeOf(c).kind = "toOne"
  <2>1. /\ ForwardValue(c, r, f) = IF ids = <<>> THEN Null ELSE One(f, ids[1])
        /\ ForwardValue(c, r, g) = IF ids = <<>> THEN Null ELSE One(g, ids[1])
    BY <1>5 DEF ForwardValue
  <2> HIDE DEF ids, One
  <2>2. ids # <<>> => One(f, ids[1]) = One(g, ids[1])
    BY <1>2, <1>4, EmptySeq
  <2>3. QED
    BY <2>1, <2>2
<1>6. CASE EdgeOf(c).kind = "hasMany"
  <2> DEFINE hitsF == Selected(ids, DOMAIN f)
             hitsG == Selected(ids, DOMAIN g)
             more == ~Guarded(c, r) /\ Len(ids) < Len(Refs(c, r))
  <2>1. /\ ForwardValue(c, r, f) = List(c, [i \in DOMAIN hitsF |-> f[hitsF[i]]], more)
        /\ ForwardValue(c, r, g) = List(c, [i \in DOMAIN hitsG |-> g[hitsG[i]]], more)
    BY <1>6 DEF ForwardValue
  <2> HIDE DEF ids, more
  <2>2. Range(ids) \cap DOMAIN f = Range(ids) \cap DOMAIN g
    BY <1>3
  <2>3. hitsF = hitsG
    BY <1>2, <2>2, SelectedAgree
  <2>4. hitsF \in Seq(Rows \cup {NoId}) /\ Range(hitsF) = Range(ids) \cap DOMAIN f
    BY <1>2, SelectedFacts
  <2> HIDE DEF hitsF, hitsG
  <2>5. \A i \in DOMAIN hitsF : f[hitsF[i]] = g[hitsF[i]]
    BY <1>3, <2>4 DEF Range
  <2>6. [i \in DOMAIN hitsF |-> f[hitsF[i]]] = [i \in DOMAIN hitsG |-> g[hitsG[i]]]
    BY <2>3, <2>5
  <2>7. QED
    BY <2>1, <2>6
<1>7. CASE EdgeOf(c).kind = "inArray"
  <2>1. /\ ForwardValue(c, r, f) = IF World.array[r] = Absent THEN Absent
                                   ELSE [i \in 1..World.array[r] |-> IF Guarded(c, r) THEN Null
                                                                     ELSE One(f, ids[i])]
        /\ ForwardValue(c, r, g) = IF World.array[r] = Absent THEN Absent
                                   ELSE [i \in 1..World.array[r] |-> IF Guarded(c, r) THEN Null
                                                                     ELSE One(g, ids[i])]
    BY <1>7 DEF ForwardValue
  <2>2. World.array[r] # Absent /\ ~Guarded(c, r) => Len(ids) = World.array[r]
    BY <1>7
  <2> HIDE DEF ids, One
  <2>3. CASE World.array[r] = Absent \/ Guarded(c, r)
    <3>1. CASE World.array[r] = Absent
      BY <2>1, <3>1
    <3>2. CASE World.array[r] # Absent /\ Guarded(c, r)
      <4>1. /\ ForwardValue(c, r, f) = [i \in 1..World.array[r] |-> Null]
            /\ ForwardValue(c, r, g) = [i \in 1..World.array[r] |-> Null]
        BY <2>1, <3>2
      <4>2. QED
        BY <4>1
    <3>3. QED
      BY <2>3, <3>1, <3>2
  <2>4. CASE World.array[r] # Absent /\ ~Guarded(c, r)
    <3>1. \A i \in 1..World.array[r] : One(f, ids[i]) = One(g, ids[i])
      BY <1>4, <2>2, <2>4
    <3>2. /\ ForwardValue(c, r, f) = [i \in 1..World.array[r] |-> One(f, ids[i])]
          /\ ForwardValue(c, r, g) = [i \in 1..World.array[r] |-> One(g, ids[i])]
      BY <2>1, <2>4
    <3>3. QED
      BY <3>1, <3>2
  <2>5. QED
    BY <2>3, <2>4
<1>8. QED
  BY <1>5, <1>6, <1>7 DEF Forward

\* The document of each target of a row, D giving those of all rows.
Below(c, r, D) == [t \in Targets(c, r) |-> D[t]]

\* Looked up in the level below, a row's forward edge has the value it should.
LEMMA ForwardRight ==
    ASSUME in \in Inputs, NEW c \in Edges, Forward(c), NEW docs, Stand(Front(c), docs),
           NEW r \in Range(docs), NEW rows, Answers(c, docs, rows),
           NEW out, NEW D, \A i \in DOMAIN rows : out[i] = D[rows[i]],
           ForwardFault(c, r, Range(rows)) = "none"
    PROVE  ForwardValue(c, r, Index(rows, out)) = NaiveValue(c, r, D)
<1> DEFINE f == Index(rows, out)
           g == Below(c, r, D)
<1>1. At(Front(c), r)
  BY DEF Stand
<1>2. Forward(c) /\ EdgeOf(c).kind # "reverse"
  BY DEF Forward
<1>3. NaiveValue(c, r, D) = ForwardValue(c, r, g)
  BY <1>2 DEF NaiveValue, Below
<1>4. DOMAIN f = Range(rows) /\ \A t \in Range(rows) : f[t] = D[t]
  BY IndexFacts DEF Answers
<1>5. DOMAIN g = Targets(c, r) /\ \A t \in DOMAIN g : g[t] = D[t]
  BY DEF Below
<1>6. \A t : t \in Targets(c, r) <=> /\ ~Guarded(c, r) /\ t \in Range(Collected(c, r))
                                     /\ t # NoId /\ t \notin World.hidden
  BY <1>2 DEF Targets
<1> HIDE DEF f, g
<1>7. Range(rows) \subseteq Rows
  BY RangeOfSeq DEF Answers
<1>8. NoId \notin DOMAIN f /\ NoId \notin DOMAIN g
  BY <1>4, <1>5, <1>6, <1>7, RowsAssumption
<1>9. ASSUME ~Guarded(c, r), NEW id \in Range(Collected(c, r)) \ {NoId}
      PROVE  (id \in DOMAIN f <=> id \in DOMAIN g) /\ (id \in DOMAIN f => f[id] = g[id])
  <2>1. id \in Range(rows) <=> id \notin World.hidden
    BY <1>9, AskedFor DEF Answers
  <2>2. id \in Targets(c, r) <=> id \notin World.hidden
    BY <1>6, <1>9
  <2>3. QED
    BY <1>4, <1>5, <2>1, <2>2
<1>10. EdgeOf(c).kind = "inArray" /\ World.array[r] # Absent /\ ~Guarded(c, r)
         => Len(Collected(c, r)) = World.array[r]
  BY DEF ForwardFault
<1>11. ForwardValue(c, r, f) = ForwardValue(c, r, g)
  BY <1>1, <1>2, <1>8, <1>9, <1>10, ForwardAgree
<1>12. QED
  BY <1>3, <1>11 DEF f

\* The window of a parent holds the documents of its page.
LEMMA ItemsRight ==
    ASSUME in \in Inputs, NEW c \in Edges, EdgeOf(c).kind = "reverse",
           NEW f, Stand(Front(c), f.docs), NEW r \in Range(f.docs), ~Guarded(c, r),
           NEW rows, rows = NextRows(c, f.docs),
           NEW out, NEW D, \A i \in DOMAIN rows : out[i] = D[rows[i]]
    PROVE  Items(c, f, out, r) = [i \in DOMAIN Kept(c, r) |-> D[Kept(c, r)[i]]]
<1> DEFINE ps == Parents(c, f.docs)
           ss == Pages(c, ps)
           e == Ends(c, ps)
           at == CHOOSE i \in DOMAIN ps : ps[i] = r
           page == Kept(c, r)
<1>1. ps \in Seq(Rows) /\ Range(ps) = {q \in Range(f.docs) : ~Guarded(c, q)}
  BY ParentsFacts DEF Stand
<1>2. r \in Range(ps)
  BY <1>1
<1>3. at \in DOMAIN ps /\ ps[at] = r
  BY <1>2 DEF Range
<1> HIDE DEF at
<1>4. /\ ss \in Seq(Seq(Rows)) /\ Len(ss) = Len(ps)
      /\ \A i \in 1..Len(ps) : ss[i] = Kept(c, ps[i])
      /\ EndsOf(e, ss)
      /\ rows = FlattenSeq(ss)
  <2>1. PICK docs : docs = f.docs
    OBVIOUS
  <2>2. Stand(Front(c), docs) /\ ps = Parents(c, docs)
    BY <2>1
  <2> DEFINE qs == Parents(c, docs)
  <2>3. /\ Pages(c, qs) \in Seq(Seq(Rows)) /\ Len(Pages(c, qs)) = Len(qs)
        /\ \A i \in 1..Len(qs) : Pages(c, qs)[i] = Kept(c, qs[i])
        /\ EndsOf(Ends(c, qs), Pages(c, qs))
        /\ NextRows(c, docs) = FlattenSeq(Pages(c, qs))
    <3> HIDE DEF ps, ss, e, page
    <3>1. QED
      BY <2>2, PagesFacts
  <2>4. QED
    BY <2>1, <2>2, <2>3
<1>5. Items(c, f, out, r) = SubSeq(out, e[at - 1] + 1, e[at])
  BY DEF Items, at
<1> HIDE DEF ps, ss, e, at
<1>6. at \in 1..Len(ps) /\ DOMAIN ps = 1..Len(ps) /\ Len(ps) \in Nat
  BY <1>1, <1>3, LenProperties
<1>7. ss[at] = page
  BY <1>3, <1>4, <1>6
<1> HIDE DEF page
<1>8. page \in Seq(Rows) /\ DOMAIN page = 1..Len(page) /\ Len(page) \in Nat
  <2>1. page \in Seq(Rows)
    BY <1>4, <1>6, <1>7, ElementOfSeq
  <2>2. QED
    BY <2>1, LenProperties
<1>9. e[at] = e[at - 1] + Len(page) /\ e[at - 1] \in Nat
  <2>1. at - 1 \in 0..Len(ss) /\ at \in 1..Len(ss)
    BY <1>4, <1>6
  <2>2. QED
    BY <1>4, <1>7, <2>1, EndsByStep
<1>10. /\ Len(rows) = e[Len(ss)] /\ rows \in Seq(Rows)
       /\ \A j \in 1..Len(page) : e[at - 1] + j \in 1..e[Len(ss)] /\ rows[e[at - 1] + j] = page[j]
  <2>1. /\ FlattenSeq(ss) \in Seq(Rows) /\ Len(FlattenSeq(ss)) = e[Len(ss)]
        /\ \A n \in 1..Len(ss) : \A j \in 1..Len(ss[n]) :
              e[n - 1] + j \in 1..e[Len(ss)] /\ FlattenSeq(ss)[e[n - 1] + j] = ss[n][j]
    BY <1>4, FlattenFacts
  <2>2. at \in 1..Len(ss)
    BY <1>4, <1>6
  <2>3. QED
    BY <1>4, <1>7, <2>1, <2>2
<1>11. DOMAIN rows = 1..Len(rows)
  BY <1>10, LenProperties
<1>12. \A j \in 1..Len(page) : out[e[at - 1] + j] = D[page[j]]
  BY <1>10, <1>11
<1> DEFINE b == e[at - 1]
<1>13. SubSeq(out, b + 1, b + Len(page)) = [j \in 1..Len(page) |-> D[page[j]]]
  <2>1. b \in Nat /\ \A j \in 1..Len(page) : out[b + j] = D[page[j]]
    BY <1>9, <1>12
  <2> HIDE DEF b
  <2> DEFINE t == SubSeq(out, b + 1, b + Len(page))
             S == {out[i] : i \in (b + 1)..(b + Len(page))}
  <2>2. \A i \in (b + 1)..(b + Len(page)) : out[i] \in S
    OBVIOUS
  <2>3. /\ b + 1 \in Int /\ b + Len(page) \in Int
        /\ (b + Len(page)) - (b + 1) + 1 = Len(page)
        /\ (IF b + 1 <= b + Len(page) THEN (b + Len(page)) - (b + 1) + 1 ELSE 0) = Len(page)
        /\ \A j \in 1..Len(page) : (b + 1) + j - 1 = b + j
    BY <1>8, <2>1
  <2> HIDE DEF S
  <2>4. /\ t \in Seq(S)
        /\ Len(t) = IF b + 1 <= b + Len(page) THEN (b + Len(page)) - (b + 1) + 1 ELSE 0
        /\ \A j \in 1..((b + Len(page)) - (b + 1) + 1) : t[j] = out[(b + 1) + j - 1]
    BY <2>2, <2>3, SubSeqProperties
  <2> HIDE DEF t
  <2>5. /\ t \in Seq(S) /\ Len(t) = Len(page)
        /\ \A j \in 1..Len(page) : t[j] = out[b + j]
    BY <2>3, <2>4
  <2>6. t = [j \in 1..Len(page) |-> D[page[j]]]
    BY <2>1, <2>5
  <2>7. QED
    BY <2>6 DEF t
<1>14. QED
  BY <1>5, <1>8, <1>9, <1>13 DEF page

\* The documents out are those that D gives for rows; the values of an edge for a
\* level, resolved one row at a time.
Gives(D, rows, out) == \A i \in DOMAIN rows : out[i] = D[rows[i]]
ValuesOf(c, docs, D) == [i \in DOMAIN docs |-> NaiveValue(c, docs[i], D)]

\* Without a fault every document of the level takes the value it should.
LEMMA ValuesRight ==
    ASSUME in \in Inputs, NEW c \in Edges, NEW f, Stand(Front(c), f.docs),
           NEW rows, Answers(c, f.docs, rows), Faults(c, f, rows) = {},
           NEW out, NEW D, Gives(D, rows, out)
    PROVE  Values(c, f, rows, out) = ValuesOf(c, f.docs, D)
<1> DEFINE docs == f.docs
           Value(i) == IF EdgeOf(c).kind = "reverse"
                       THEN ReverseValue(c, docs[i], IF Guarded(c, docs[i]) THEN <<>>
                                                     ELSE Items(c, f, out, docs[i]))
                       ELSE ForwardValue(c, docs[i], Index(rows, out))
<1>0. \A i \in DOMAIN rows : out[i] = D[rows[i]]
  BY DEF Gives
<1>1. Values(c, f, rows, out) = [i \in DOMAIN docs |-> Value(i)]
  BY DEF Values
<1>2. ASSUME NEW i \in DOMAIN docs PROVE Value(i) = NaiveValue(c, docs[i], D)
  <2> DEFINE r == docs[i]
  <2>1. r \in Range(docs)
    BY DEF Range
  <2>2. CASE Forward(c)
    <3>1. ForwardFault(c, r, Range(rows)) = "none"
      BY DEF Faults
    <3>2. Value(i) = ForwardValue(c, r, Index(rows, out))
      BY <2>2 DEF Forward
    <3> HIDE DEF r, Value
    <3>3. QED
      BY <1>0, <2>1, <2>2, <3>1, <3>2, ForwardRight DEF r
  <2>3. CASE EdgeOf(c).kind = "reverse"
    <3> DEFINE page == [j \in DOMAIN Kept(c, r) |-> D[Kept(c, r)[j]]]
    <3>1. NaiveValue(c, r, D) = ReverseValue(c, r, page)
      BY <2>3 DEF NaiveValue
    <3>2. Value(i) = ReverseValue(c, r, IF Guarded(c, r) THEN <<>> ELSE Items(c, f, out, r))
      BY <2>3
    <3>3. CASE Guarded(c, r)
      BY <3>1, <3>2, <3>3 DEF ReverseValue
    <3>4. CASE ~Guarded(c, r)
      <4> HIDE DEF r, Value
      <4>1. rows = NextRows(c, f.docs)
        BY <2>3 DEF Answers
      <4>2. Items(c, f, out, r) = page
        BY <1>0, <2>1, <2>3, <3>4, <4>1, ItemsRight
      <4>3. QED
        BY <3>1, <3>2, <3>4, <4>2 DEF r
    <3>5. QED
      BY <3>3, <3>4
  <2>4. QED
    BY <2>2, <2>3, EdgeFacts
<1>3. QED
  <2> HIDE DEF Value
  <2>1. QED
    BY <1>1, <1>2 DEF ValuesOf

\* The values of the edges of a level, as resolved one row at a time.
RightValue(p, docs, k) == ValuesOf(Append(p, k), docs, NaiveDocs[Append(p, k)])

\* A level whose edges all have their values has the documents it should.
LEMMA AssembleRight ==
    ASSUME in \in Inputs, NEW f, f.path \in DOMAIN in.plan, f.docs \in Seq(Rows),
           DOMAIN f.vals = Range(Children(f.path)),
           \A k \in DOMAIN f.vals : f.vals[k] = RightValue(f.path, f.docs, k)
    PROVE  Assemble(f) = [i \in DOMAIN f.docs |-> NaiveDocs[f.path][f.docs[i]]]
<1> DEFINE p == f.path
<1>1. ASSUME NEW i \in DOMAIN f.docs
      PROVE  [row |-> f.docs[i],
              edges |-> [k \in {j \in DOMAIN f.vals : f.vals[j][i] # Absent} |-> f.vals[k][i]]]
             = NaiveDocs[p][f.docs[i]]
  <2> DEFINE r == f.docs[i]
             edges == NaiveEdges(p, r, NaiveDocs)
  <2>1. r \in Rows
    BY LenProperties, ElementOfSeq
  <2>2. NaiveDocs[p][r] = NaiveDoc(p, r, NaiveDocs)
    BY <2>1, NaiveDocsFacts
  <2>3. NaiveDoc(p, r, NaiveDocs)
          = [row |-> r, edges |-> [k \in {j \in DOMAIN edges : edges[j] # Absent} |-> edges[k]]]
    BY DEF NaiveDoc
  <2>4. DOMAIN edges = DOMAIN f.vals /\ \A k \in DOMAIN f.vals : edges[k] = f.vals[k][i]
    BY DEF NaiveEdges, RightValue, ValuesOf
  <2> HIDE DEF edges
  <2>5. {j \in DOMAIN edges : edges[j] # Absent} = {j \in DOMAIN f.vals : f.vals[j][i] # Absent}
    BY <2>4
  <2>6. [k \in {j \in DOMAIN edges : edges[j] # Absent} |-> edges[k]]
          = [k \in {j \in DOMAIN f.vals : f.vals[j][i] # Absent} |-> f.vals[k][i]]
    BY <2>4, <2>5
  <2>7. QED
    BY <2>2, <2>3, <2>6
<1>2. QED
  BY <1>1 DEF Assemble

-----------------------------------------------------------------------------
\* The path p leads to q.
Under(p, q) == Len(p) <= Len(q) /\ \A i \in 1..Len(p) : q[i] = p[i]

\* An open level: documents that may stand at its node, those that are needed there,
\* and the right values of the edges that are no longer to do.
Aligned(f) ==
    /\ f.path \in DOMAIN in.plan /\ Stand(f.path, f.docs)
    /\ f.phase \in {"enter", "edges"}
    /\ f.todo \in Seq(Keys) /\ IsInjective(f.todo) /\ Range(f.todo) \subseteq Range(Children(f.path))
    /\ DOMAIN f.vals = Range(Children(f.path)) \ Range(f.todo)
    /\ \A k \in DOMAIN f.vals : f.vals[k] = RightValue(f.path, f.docs, k)
    /\ f.phase = "enter" => f.vals = <<>>
    /\ Conforming => Range(f.docs) = Needed[f.path]

\* A level is open for the edge the level below it is at.
Nested(g, f) ==
    /\ g.todo # <<>>
    /\ f.path = Append(g.path, Head(g.todo))
    /\ f.docs = NextRows(f.path, g.docs)

Chain(s) ==
    /\ \A n \in 1..Len(s) : Aligned(s[n])
    /\ s[1].docs = in.docs
    /\ \A n \in 1..Len(s) : n < Len(s) => Nested(s[n], s[n + 1])
    /\ \A n \in 1..Len(s) : \A m \in 1..(n - 1) :
          Under(Append(s[m].path, Head(s[m].todo)), s[n].path)

\* The edges that the open levels s have not come to yet.
Todo(s, n) == {k \in Range(s[n].todo) : n < Len(s) => k # Head(s[n].todo)}
NotYet(s, q) == \E n \in 1..Len(s) : \E k \in Todo(s, n) : Under(Append(s[n].path, k), q)
OnStack(s, q) == \E n \in 1..Len(s) : s[n].path = q

\* What is known of an edge that was come to, and of one that is resolved.
FetcherMet(e) == IsBroken(e) /\ in.broken.how \in {"fetch", "unbound"} => Wanted(e) = {}
NoFault(e) == \A r \in Needed[Front(e)] : ForwardFault(e, r, Rows \ World.hidden) = "none"
Judged(s) ==
    Conforming => \A e \in Edges :
        ~NotYet(s, e) => FetcherMet(e) /\ (~OnStack(s, e) => NoFault(e))

\* The batches so far: one per edge, for the right ids.
Batches(h) ==
    /\ \E S : h \in Seq(S)
    /\ \A i \in 1..Len(h) : h[i].path \in Edges
    /\ \A i, j \in 1..Len(h) : h[i].path = h[j].path => i = j
    /\ Conforming => \A i \in 1..Len(h) : h[i].ids = Wanted(h[i].path)

Verdict ==
    /\ status = "ok" => result = Naive
    /\ Conforming =>
          /\ status \in PolicyFailures => status \in NaiveFaults
          /\ status = "ok" => \A e \in Edges : FetcherMet(e) /\ NoFault(e)
          /\ status = "contract" => World.over

AnswerInv ==
    /\ in \in Inputs
    /\ status \in Statuses
    /\ stack = <<>> <=> status # "levels"
    /\ status = "levels" => /\ Chain(stack)
                            /\ Judged(stack)
                            /\ \A i \in 1..Len(fetches) : ~NotYet(stack, fetches[i].path)
    /\ status = "start" => fetches = <<>>
    /\ Batches(fetches)
    /\ Verdict
    /\ {ctxRows, served, spent} \subseteq Nat
    /\ calls \in 1..MaxCalls

-----------------------------------------------------------------------------
\* A level as it is opened.
LEMMA FrameAligned ==
    ASSUME in \in Inputs, NEW p \in DOMAIN in.plan, NEW docs, Stand(p, docs),
           Conforming => Range(docs) = Needed[p]
    PROVE  /\ Aligned(Frame(p, docs)) /\ IsLevel(Frame(p, docs))
           /\ Frame(p, docs).path = p /\ Frame(p, docs).docs = docs
           /\ Frame(p, docs).todo = Children(p) /\ Frame(p, docs).phase = "enter"
<1> DEFINE f == Frame(p, docs)
<1>1. p \in Seq(Keys)
  BY CallFacts
<1>2. Children(p) \in Seq(Keys) /\ IsInjective(Children(p))
  BY <1>1, ChildrenFacts
<1>3. /\ f.path = p /\ f.docs = docs /\ f.todo = Children(p) /\ f.phase = "enter"
      /\ f.vals = <<>> /\ DOMAIN f = FrameFields
  BY DEF Frame, FrameFields
<1>4. DOMAIN f.vals = {}
  BY <1>3
<1> HIDE DEF f
<1>5. Aligned(f)
  BY <1>2, <1>3, <1>4 DEF Aligned
<1>6. IsLevel(f)
  BY <1>1, <1>3 DEF IsLevel
<1>7. QED
  BY <1>3, <1>5, <1>6 DEF f

\* The edge a level is at.
LEMMA TopEdge ==
    ASSUME in \in Inputs, NEW f, Aligned(f), f.todo # <<>>
    PROVE  /\ Append(f.path, Head(f.todo)) \in Edges
           /\ Front(Append(f.path, Head(f.todo))) = f.path
           /\ Last(Append(f.path, Head(f.todo))) = Head(f.todo)
           /\ f.path \in Seq(Keys) /\ Append(f.path, Head(f.todo)) \in Seq(Keys)
           /\ Head(f.todo) \in Keys /\ Head(f.todo) \in Range(f.todo)
           /\ Range(Tail(f.todo)) = Range(f.todo) \ {Head(f.todo)}
           /\ Tail(f.todo) \in Seq(Keys) /\ IsInjective(Tail(f.todo))
<1>1. /\ f.path \in DOMAIN in.plan /\ f.todo \in Seq(Keys) /\ IsInjective(f.todo)
      /\ Range(f.todo) \subseteq Range(Children(f.path))
  BY DEF Aligned
<1> DEFINE k == Head(f.todo)
<1>2. /\ k \in Keys /\ k \in Range(f.todo) /\ Tail(f.todo) \in Seq(Keys)
      /\ IsInjective(Tail(f.todo)) /\ Range(Tail(f.todo)) = Range(f.todo) \ {k}
  BY <1>1, TailDistinct
<1> HIDE DEF k
<1>3. f.path \in Seq(Keys)
  BY <1>1, CallFacts
<1>4. Child(f.path, k)
  BY <1>1, <1>2, <1>3, ChildrenFacts
<1>5. /\ Append(f.path, k) \in Edges /\ Append(f.path, k) \in Seq(Keys)
      /\ Front(Append(f.path, k)) = f.path /\ Last(Append(f.path, k)) = k
  BY <1>1, <1>2, <1>4, ChildIsEdge
<1>6. QED
  BY <1>2, <1>3, <1>5 DEF k

\* The level below the edge a level is at.
LEMMA NextAligned ==
    ASSUME in \in Inputs, NEW f, Aligned(f), f.todo # <<>>,
           NEW c, c = Append(f.path, Head(f.todo))
    PROVE  /\ Aligned(Frame(c, NextRows(c, f.docs))) /\ IsLevel(Frame(c, NextRows(c, f.docs)))
           /\ Nested(f, Frame(c, NextRows(c, f.docs)))
<1> DEFINE rows == NextRows(c, f.docs)
<1>1. c \in Edges /\ Front(c) = f.path /\ c \in DOMAIN in.plan
  BY TopEdge, EdgeFacts
<1>2. Stand(Front(c), f.docs) /\ (Conforming => Range(f.docs) = Needed[Front(c)])
  BY <1>1 DEF Aligned
<1>3. Stand(c, rows)
  BY <1>1, <1>2, NextRowsStand
<1>4. Conforming => Range(rows) = Needed[c]
  <2>1. ASSUME Conforming PROVE Range(rows) = Needed[c]
    <3>1. Range(rows) = UNION {Targets(c, r) : r \in Range(f.docs)}
      BY <1>1, <1>2, <2>1, NextRowsTargets
    <3>2. Needed[c] = UNION {Targets(c, r) : r \in Needed[Front(c)]}
      BY <1>1, NeededFacts
    <3>3. Range(f.docs) = Needed[Front(c)]
      BY <1>2, <2>1
    <3>4. QED
      BY <3>1, <3>2, <3>3
  <2>2. QED
    BY <2>1
<1> HIDE DEF rows
<1>5. Aligned(Frame(c, rows)) /\ IsLevel(Frame(c, rows))
      /\ Frame(c, rows).path = c /\ Frame(c, rows).docs = rows
  BY <1>1, <1>3, <1>4, FrameAligned
<1>6. Nested(f, Frame(c, rows))
  BY <1>5 DEF Nested, rows
<1>7. QED
  BY <1>5, <1>6 DEF rows

\* The level f with the edge at c resolved.
Attached(f, c, rows, out) ==
    [f EXCEPT !.todo = Tail(@), !.vals = WithEdge(f, c, Values(c, f, rows, out))]

\* The edge the level f is at is c; the level g is f one edge further.
IsAt(f, c) == f.phase = "edges" /\ f.todo # <<>> /\ c = Append(f.path, Head(f.todo))
Further(f, g) ==
    g.path = f.path /\ g.docs = f.docs /\ g.phase = "edges" /\ g.todo = Tail(f.todo)

\* A level whose edge is resolved.
LEMMA AttachAligned ==
    ASSUME in \in Inputs, NEW f, Aligned(f), IsLevel(f), NEW c, IsAt(f, c),
           NEW rows, Answers(c, f.docs, rows), Faults(c, f, rows) = {},
           NEW out, Gives(NaiveDocs[c], rows, out)
    PROVE  /\ Aligned(Attached(f, c, rows, out)) /\ IsLevel(Attached(f, c, rows, out))
           /\ Further(f, Attached(f, c, rows, out))
<1>0. f.todo # <<>> /\ f.phase = "edges" /\ c = Append(f.path, Head(f.todo))
  BY DEF IsAt
<1> DEFINE g == Attached(f, c, rows, out)
<1> DEFINE k == Head(f.todo)
           vals == Values(c, f, rows, out)
           more == WithEdge(f, c, vals)
<1>1. /\ c \in Edges /\ Front(c) = f.path /\ Last(c) = k
      /\ k \in Keys /\ k \in Range(f.todo)
      /\ Range(Tail(f.todo)) = Range(f.todo) \ {k}
      /\ Tail(f.todo) \in Seq(Keys) /\ IsInjective(Tail(f.todo))
  BY <1>0, TopEdge
<1>2. /\ g.path = f.path /\ g.docs = f.docs /\ g.phase = "edges" /\ g.todo = Tail(f.todo)
      /\ g.vals = more /\ DOMAIN g = DOMAIN f
  BY <1>0 DEF Attached, IsLevel, FrameFields
<1> HIDE DEF g
<1>3. vals = RightValue(f.path, f.docs, k)
  <2>1. Stand(Front(c), f.docs)
    BY <1>1 DEF Aligned
  <2>2. vals = ValuesOf(c, f.docs, NaiveDocs[c])
    BY <1>1, <2>1, ValuesRight
  <2>3. QED
    BY <1>0, <2>2 DEF RightValue
<1> HIDE DEF vals, k
<1>4. DOMAIN more = DOMAIN f.vals \cup {k} /\ more[k] = vals
      /\ \A j \in DOMAIN f.vals : j # k => more[j] = f.vals[j]
  BY <1>1 DEF WithEdge
<1> HIDE DEF more
<1>5. DOMAIN g.vals = Range(Children(g.path)) \ Range(g.todo)
  BY <1>1, <1>2, <1>4 DEF Aligned
<1>6. \A j \in DOMAIN g.vals : g.vals[j] = RightValue(g.path, g.docs, j)
  BY <1>1, <1>2, <1>3, <1>4 DEF Aligned
<1>7. Aligned(g)
  BY <1>1, <1>2, <1>5, <1>6 DEF Aligned
<1>8. IsLevel(g)
  BY <1>2 DEF IsLevel
<1>9. QED
  BY <1>2, <1>7, <1>8 DEF g, Further

-----------------------------------------------------------------------------
\* Paths that lead to one another.
LEMMA UnderItself ==
    ASSUME NEW p \in Seq(Keys) PROVE Under(p, p)
BY LenProperties DEF Under

\* Leading to is transitive.
LEMMA UnderThrough ==
    ASSUME NEW p \in Seq(Keys), NEW q \in Seq(Keys), NEW r \in Seq(Keys), Under(p, q), Under(q, r)
    PROVE  Under(p, r)
<1>1. Len(p) \in Nat /\ Len(q) \in Nat /\ Len(r) \in Nat
  BY LenProperties
<1>2. Len(p) <= Len(r)
  BY <1>1 DEF Under
<1>3. ASSUME NEW i \in 1..Len(p) PROVE r[i] = p[i]
  <2>1. i \in 1..Len(q)
    BY <1>1 DEF Under
  <2>2. QED
    BY <2>1 DEF Under
<1>4. QED
  BY <1>2, <1>3 DEF Under

\* A path leads to its children.
LEMMA UnderChild ==
    ASSUME NEW p \in Seq(Keys), NEW k \in Keys
    PROVE  /\ Under(p, Append(p, k)) /\ Append(p, k) \in Seq(Keys)
           /\ Len(Append(p, k)) = Len(p) + 1 /\ Len(p) \in Nat
           /\ Append(p, k)[Len(p) + 1] = k
<1>1. /\ Append(p, k) \in Seq(Keys) /\ Len(Append(p, k)) = Len(p) + 1
      /\ \A i \in 1..Len(p) : Append(p, k)[i] = p[i]
      /\ Append(p, k)[Len(p) + 1] = k /\ Len(p) \in Nat
  BY AppendProperties, LenProperties
<1>2. QED
  BY <1>1 DEF Under

\* A path is below one child of a node at most.
LEMMA OneWayDown ==
    ASSUME NEW p \in Seq(Keys), NEW k \in Keys, NEW j \in Keys, NEW q,
           Under(Append(p, k), q), Under(Append(p, j), q)
    PROVE  k = j
<1>1. /\ Append(p, k)[Len(p) + 1] = k /\ Len(Append(p, k)) = Len(p) + 1
      /\ Append(p, j)[Len(p) + 1] = j /\ Len(Append(p, j)) = Len(p) + 1 /\ Len(p) \in Nat
  BY UnderChild
<1>2. QED
  BY <1>1 DEF Under

\* A child is not on the way to its parent.
LEMMA NotAboveItself ==
    ASSUME NEW p \in Seq(Keys), NEW k \in Keys PROVE ~Under(Append(p, k), p)
BY UnderChild DEF Under

\* The prefixes of a path, one step apart.
LEMMA FrontOfPrefix ==
    ASSUME NEW e \in Seq(Keys), NEW n \in 1..Len(e)
    PROVE  Front(SubSeq(e, 1, n)) = SubSeq(e, 1, n - 1)
<1> DEFINE a == SubSeq(e, 1, n)
           b == SubSeq(e, 1, n - 1)
<1>1. Len(e) \in Nat /\ n \in 0..Len(e) /\ n - 1 \in 0..Len(e) /\ n \in Nat /\ n # 0
  BY LenProperties
<1>2. /\ a \in Seq(Keys) /\ Len(a) = n /\ \A i \in 1..n : a[i] = e[i]
      /\ b \in Seq(Keys) /\ Len(b) = n - 1 /\ \A i \in 1..(n - 1) : b[i] = e[i]
  BY <1>1, PrefixFacts
<1> HIDE DEF a, b
<1>3. a # <<>>
  BY <1>1, <1>2, EmptySeq
<1>4. Front(a) \in Seq(Keys) /\ Len(Front(a)) = n - 1 /\ \A i \in 1..(n - 1) : Front(a)[i] = a[i]
  BY <1>2, <1>3, FrontFacts
<1>5. \A i \in 1..(n - 1) : Front(a)[i] = b[i]
  BY <1>1, <1>2, <1>4
<1>6. Front(a) = b
  BY <1>2, <1>4, <1>5, SeqEqual
<1>7. QED
  BY <1>6 DEF a, b

\* The prefixes of an edge are edges.
LEMMA PrefixIsEdge ==
    ASSUME in \in Inputs, NEW e \in Edges, NEW n \in 1..Len(e)
    PROVE  SubSeq(e, 1, n) \in Edges /\ SubSeq(e, 1, n) \in Seq(Keys)
           /\ Len(SubSeq(e, 1, n)) = n /\ \A i \in 1..n : SubSeq(e, 1, n)[i] = e[i]
<1> DEFINE L == Len(e) - 1
           P(m) == SubSeq(e, 1, Len(e) - m)
           T == {m \in 0..L : P(m) \in Edges}
<1>1. e \in Seq(Keys) /\ Len(e) \in Nat \ {0}
  BY EdgeFacts, LenProperties, EmptySeq
<1>2. \A m \in 0..Len(e) : /\ SubSeq(e, 1, m) \in Seq(Keys) /\ Len(SubSeq(e, 1, m)) = m
                           /\ \A i \in 1..m : SubSeq(e, 1, m)[i] = e[i]
  BY <1>1, PrefixFacts
<1>3. 0 \in T
  <2>1. SubSeq(e, 1, Len(e)) = e /\ Len(e) - 0 = Len(e) /\ 0 \in 0..L
    BY <1>1, SubSeqFull
  <2>2. QED
    BY <2>1
<1>4. ASSUME NEW m \in 0..(L - 1), m \in T PROVE m + 1 \in T
  <2> DEFINE n1 == Len(e) - m
             a == SubSeq(e, 1, n1)
             b == SubSeq(e, 1, n1 - 1)
  <2>1. /\ n1 \in 2..Len(e) /\ n1 \in 1..Len(e) /\ Len(e) - (m + 1) = n1 - 1
        /\ m + 1 \in 0..L /\ n1 - 1 \in 0..Len(e) /\ n1 - 1 # 0
    BY <1>1
  <2>2. Front(a) = b
    BY <1>1, <2>1, FrontOfPrefix
  <2>3. a \in Edges
    BY <1>4
  <2>4. Len(b) = n1 - 1
    BY <1>2, <2>1
  <2>5. P(m + 1) = b
    BY <2>1
  <2> HIDE DEF n1, P
  <2>6. b # <<>>
    BY <2>1, <2>4, EmptySeq
  <2> HIDE DEF a, b
  <2>7. Front(a) \in DOMAIN in.plan /\ a \in DOMAIN in.plan /\ a # <<>>
    BY <2>3, EdgeFacts
  <2>8. EdgeOf(b).kind # "computed"
    BY <2>2, <2>6, <2>7, CallFacts
  <2>9. b \in Edges
    BY <2>2, <2>6, <2>7, <2>8 DEF Edges
  <2>10. QED
    BY <2>1, <2>5, <2>9
<1>5. 0..L \subseteq T
  <2> HIDE DEF T
  <2>1. L \in Nat
    BY <1>1
  <2>2. QED
    BY <1>3, <1>4, <2>1, IntervalByStep
<1>6. Len(e) - n \in 0..L /\ Len(e) - (Len(e) - n) = n
  BY <1>1
<1>7. SubSeq(e, 1, n) \in Edges
  <2>1. Len(e) - n \in T
    <3> HIDE DEF T
    <3>1. QED
      BY <1>5, <1>6
  <2>2. QED
    BY <1>6, <2>1
<1>8. QED
  BY <1>1, <1>2, <1>7

\* An edge below a node is at or below one of its children.
LEMMA EdgeBelow ==
    ASSUME in \in Inputs, NEW e \in Edges, NEW p \in DOMAIN in.plan, Under(p, e), p # e
    PROVE  \E k \in Range(Children(p)) : Under(Append(p, k), e)
<1>1. e \in Seq(Keys) /\ p \in Seq(Keys) /\ Len(e) \in Nat /\ Len(p) \in Nat
  BY EdgeFacts, CallFacts, LenProperties
<1>2. Len(p) < Len(e)
  <2>1. Len(p) # Len(e)
    BY <1>1, SeqEqual DEF Under
  <2>2. QED
    BY <1>1, <2>1 DEF Under
<1> DEFINE n == Len(p) + 1
           q == SubSeq(e, 1, n)
           k == e[n]
<1>3. n \in 1..Len(e)
  BY <1>1, <1>2
<1>4. /\ q \in Edges /\ q \in Seq(Keys) /\ Len(q) = n /\ \A i \in 1..n : q[i] = e[i]
      /\ k \in Keys
  BY <1>1, <1>3, PrefixIsEdge, ElementOfSeq
<1> HIDE DEF q, k
<1>5. /\ Append(p, k) \in Seq(Keys) /\ Len(Append(p, k)) = n
      /\ \A i \in 1..Len(p) : Append(p, k)[i] = p[i]
      /\ Append(p, k)[n] = k
  BY <1>1, <1>4, AppendProperties
<1>6. \A i \in 1..n : Append(p, k)[i] = e[i]
  <2>1. \A i \in 1..n : i \in 1..Len(p) \/ i = n
    BY <1>1
  <2>2. QED
    BY <1>5, <2>1 DEF Under, k
<1>7. Append(p, k) = q
  BY <1>4, <1>5, <1>6, SeqEqual
<1>8. k \in Range(Children(p))
  BY <1>1, <1>4, <1>7, ChildIsEdge, ChildrenFacts
<1>9. Under(Append(p, k), e)
  BY <1>1, <1>3, <1>5, <1>6 DEF Under
<1>10. QED
  BY <1>8, <1>9

-----------------------------------------------------------------------------
\* Fewer levels of the same paths and documents, all but the last at the same edge.
LEMMA ChainKept ==
    ASSUME in \in Inputs, NEW s, Chain(s), Len(s) \in Nat, NEW t, Len(t) \in 1..Len(s),
           \A n \in 1..Len(t) : /\ Aligned(t[n])
                                /\ t[n].path = s[n].path /\ t[n].docs = s[n].docs
                                /\ n < Len(t) => t[n].todo = s[n].todo
    PROVE  Chain(t)
<1>1. \A n \in 1..Len(t) : n \in 1..Len(s)
  OBVIOUS
<1>2. t[1].docs = in.docs
  BY DEF Chain
<1>3. ASSUME NEW n \in 1..Len(t), n < Len(t) PROVE Nested(t[n], t[n + 1])
  <2>1. n \in 1..Len(s) /\ n < Len(s) /\ n + 1 \in 1..Len(t)
    BY <1>3
  <2>2. Nested(s[n], s[n + 1])
    BY <2>1 DEF Chain
  <2>3. QED
    BY <1>3, <2>1, <2>2 DEF Nested
<1>4. ASSUME NEW n \in 1..Len(t), NEW m \in 1..(n - 1)
      PROVE  Under(Append(t[m].path, Head(t[m].todo)), t[n].path)
  <2>1. m \in 1..Len(t) /\ m < Len(t) /\ n \in 1..Len(s)
    OBVIOUS
  <2>2. Under(Append(s[m].path, Head(s[m].todo)), s[n].path)
    BY <2>1 DEF Chain
  <2>3. t[m].path = s[m].path /\ t[m].todo = s[m].todo /\ t[n].path = s[n].path
    BY <2>1
  <2>4. QED
    BY <2>2, <2>3
<1>5. QED
  BY <1>2, <1>3, <1>4 DEF Chain

\* The root's level.
LEMMA ChainOpened ==
    ASSUME in \in Inputs
    PROVE  Chain(<<Frame(<<>>, in.docs)>>)
<1> DEFINE f == Frame(<<>>, in.docs)
           s == <<f>>
<1>0. in.docs \in Seq(Rows) /\ Range(in.docs) \subseteq Rows
  BY CallFacts, RangeOfSeq
<1>1. <<>> \in DOMAIN in.plan /\ Stand(<<>>, in.docs) /\ Needed[<<>>] = Range(in.docs)
  BY <1>0, CallFacts, NeededFacts DEF Stand, At
<1>2. Aligned(f) /\ f.docs = in.docs
  BY <1>1, FrameAligned
<1> HIDE DEF f
<1>3. s[1] = f /\ Len(s) = 1
  OBVIOUS
<1> HIDE DEF s
<1>4. Chain(s)
  BY <1>2, <1>3 DEF Chain
<1>5. QED
  BY <1>4 DEF s, f

\* One level more, for the edge the innermost one is at.
LEMMA ChainPushed ==
    ASSUME in \in Inputs, NEW s, Levels(s), Chain(s), NEW f, Aligned(f), Nested(Last(s), f)
    PROVE  Chain(Append(s, f))
<1> DEFINE t == Append(s, f)
           L == Len(s)
<1>1. PICK S : s \in Seq(S)
  BY DEF Levels
<1>2. s \in Seq(S \cup {f}) /\ f \in S \cup {f}
  BY <1>1, SeqMonotonic
<1>3. Len(t) = L + 1 /\ t[L + 1] = f /\ \A n \in 1..L : t[n] = s[n]
  BY <1>2, AppendProperties
<1>4. L \in Nat \ {0} /\ Last(s) = s[L] /\ L \in 1..L
  BY LastLevel
<1> HIDE DEF t, L
<1>5. \A n \in 1..(L + 1) : n \in 1..L \/ n = L + 1
  BY <1>4
<1>6. \A n \in 1..L : Aligned(s[n])
  BY DEF Chain, L
<1>7. \A n \in 1..Len(t) : Aligned(t[n])
  BY <1>3, <1>5, <1>6
<1>8. t[1].docs = in.docs
  BY <1>3, <1>4 DEF Chain
<1>9. ASSUME NEW n \in 1..Len(t), n < Len(t) PROVE Nested(t[n], t[n + 1])
  <2>1. CASE n = L
    BY <1>3, <1>4, <2>1
  <2>2. CASE n # L
    <3>1. n \in 1..L /\ n + 1 \in 1..L /\ n < L
      BY <1>3, <1>4, <1>9, <2>2
    <3>2. Nested(s[n], s[n + 1])
      BY <3>1 DEF Chain, L
    <3>3. QED
      BY <1>3, <3>1, <3>2
  <2>3. QED
    BY <2>1, <2>2
<1>10. ASSUME NEW n \in 1..Len(t), NEW m \in 1..(n - 1)
       PROVE  Under(Append(t[m].path, Head(t[m].todo)), t[n].path)
  <2>1. m \in 1..L /\ t[m] = s[m]
    BY <1>3, <1>4
  <2>2. CASE n \in 1..L
    <3>1. Under(Append(s[m].path, Head(s[m].todo)), s[n].path)
      BY <2>2 DEF Chain, L
    <3>2. QED
      BY <1>3, <2>1, <2>2, <3>1
  <2>3. CASE n = L + 1
    <3> DEFINE g == s[L]
    <3>1. t[n] = f /\ f.path = Append(g.path, Head(g.todo)) /\ g.todo # <<>> /\ Aligned(g)
      BY <1>3, <1>4, <1>6, <2>3 DEF Nested
    <3> HIDE DEF g
    <3>2. g.path \in Seq(Keys) /\ Head(g.todo) \in Keys /\ f.path \in Seq(Keys)
      BY <3>1, TopEdge
    <3>3. CASE m = L
      BY <2>1, <3>1, <3>2, <3>3, UnderItself DEF g
    <3>4. CASE m # L
      <4>1. L \in 1..L /\ m \in 1..(L - 1)
        BY <1>4, <2>1, <3>4
      <4>2. Under(Append(s[m].path, Head(s[m].todo)), g.path)
        BY <4>1 DEF Chain, L, g
      <4>3. Nested(s[m], s[m + 1]) /\ Aligned(s[m])
        BY <1>6, <2>1, <4>1 DEF Chain, L
      <4>4. Append(s[m].path, Head(s[m].todo)) \in Seq(Keys)
        BY <4>3, TopEdge DEF Nested
      <4>5. Under(g.path, f.path)
        BY <3>1, <3>2, UnderChild
      <4>6. QED
        BY <2>1, <3>1, <3>2, <4>2, <4>4, <4>5, UnderThrough
    <3>5. QED
      BY <3>3, <3>4
  <2>4. QED
    BY <1>3, <1>5, <2>2, <2>3
<1>11. Chain(t)
  BY <1>7, <1>8, <1>9, <1>10 DEF Chain
<1>12. QED
  BY <1>11 DEF t

-----------------------------------------------------------------------------
\* Opening a level comes to one edge, the one the innermost level was at.
LEMMA ComesToOne ==
    ASSUME in \in Inputs, NEW s, Levels(s), Chain(s),
           NEW f, Aligned(f), Nested(Last(s), f), Range(f.todo) = Range(Children(f.path)),
           NEW q \in Edges
    PROVE  /\ NotYet(Append(s, f), q) <=> NotYet(s, q) /\ q # f.path
           /\ NotYet(s, f.path)
           /\ OnStack(Append(s, f), q) <=> OnStack(s, q) \/ q = f.path
<1> DEFINE t == Append(s, f)
           L == Len(s)
           c == f.path
           g == s[L]
           k == Head(g.todo)
<1>1. PICK S : s \in Seq(S)
  BY DEF Levels
<1>2. s \in Seq(S \cup {f}) /\ f \in S \cup {f}
  BY <1>1, SeqMonotonic
<1>3. Len(t) = L + 1 /\ t[L + 1] = f /\ \A n \in 1..L : t[n] = s[n]
  BY <1>2, AppendProperties
<1>4. L \in Nat \ {0} /\ Last(s) = g /\ L \in 1..L
  BY LastLevel
<1>5. \A n \in 1..L : Aligned(s[n])
  BY DEF Chain
<1>6. Aligned(g) /\ g.todo # <<>> /\ c = Append(g.path, k)
  BY <1>4, <1>5 DEF Nested
<1>7. /\ c \in Edges /\ c \in Seq(Keys) /\ g.path \in Seq(Keys) /\ k \in Keys /\ k \in Range(g.todo)
      /\ c \in DOMAIN in.plan /\ q \in Seq(Keys)
  <2> HIDE DEF g, c, L
  <2>1. /\ Append(g.path, Head(g.todo)) \in Edges /\ Append(g.path, Head(g.todo)) \in Seq(Keys)
        /\ g.path \in Seq(Keys) /\ Head(g.todo) \in Keys /\ Head(g.todo) \in Range(g.todo)
    BY <1>6, TopEdge
  <2>2. QED
    BY <1>6, <2>1, EdgeFacts DEF Edges
<1> HIDE DEF t, L, c, g
<1>8. Todo(s, L) = Range(g.todo) /\ Todo(t, L) = Range(g.todo) \ {k}
  BY <1>3, <1>4 DEF Todo, g, L
<1>9. \A n \in 1..L : n # L => Todo(t, n) = Todo(s, n)
  BY <1>3, <1>4 DEF Todo, L
<1>10. Todo(t, L + 1) = Range(Children(c))
  BY <1>3, <1>4 DEF Todo, c
<1>11. \A n \in 1..(L + 1) : n \in 1..L \/ n = L + 1
  BY <1>4
<1>12. Range(Children(c)) \subseteq Keys
  BY <1>7, ChildrenFacts
<1>13. ASSUME NEW r \in Seq(Keys), Under(c, r) PROVE NotYet(s, r)
  BY <1>4, <1>6, <1>7, <1>8, <1>13 DEF NotYet, L, g
<1>14. NotYet(s, c)
  BY <1>7, <1>13, UnderItself
<1>15. ASSUME NotYet(t, q) PROVE NotYet(s, q)
  <2>1. PICK n \in 1..(L + 1) : \E j \in Todo(t, n) : Under(Append(t[n].path, j), q)
    BY <1>3, <1>15 DEF NotYet
  <2>2. PICK j \in Todo(t, n) : Under(Append(t[n].path, j), q)
    BY <2>1
  <2>3. CASE n = L + 1
    <3>1. j \in Keys /\ Under(Append(c, j), q)
      BY <1>3, <1>10, <1>12, <2>2, <2>3 DEF c
    <3>2. Under(c, Append(c, j)) /\ Append(c, j) \in Seq(Keys)
      BY <1>7, <3>1, UnderChild
    <3>3. Under(c, q)
      BY <1>7, <3>1, <3>2, UnderThrough
    <3>4. QED
      BY <1>7, <1>13, <3>3
  <2>4. CASE n \in 1..L
    <3>1. j \in Todo(s, n) /\ t[n] = s[n]
      BY <1>3, <1>8, <1>9, <2>2, <2>4
    <3>2. QED
      BY <2>2, <2>4, <3>1 DEF NotYet, L
  <2>5. QED
    BY <1>11, <2>3, <2>4
<1>16. ~NotYet(t, c)
  <2>1. ASSUME NEW n \in 1..(L + 1), NEW j \in Todo(t, n), Under(Append(t[n].path, j), c) PROVE FALSE
    <3>1. CASE n = L + 1
      BY <1>3, <1>7, <1>10, <1>12, <2>1, <3>1, NotAboveItself DEF c
    <3>2. CASE n = L
      <4>1. t[n] = g /\ j \in Range(g.todo) /\ j # k
        BY <1>3, <1>4, <1>8, <3>2 DEF g
      <4>2. j \in Keys
        BY <1>6, <4>1, RangeOfSeq DEF Aligned
      <4>3. Under(c, c)
        BY <1>7, UnderItself
      <4>4. QED
        BY <1>6, <1>7, <2>1, <4>1, <4>2, <4>3, OneWayDown
    <3>3. CASE n \in 1..L /\ n # L
      <4> DEFINE h == s[n]
      <4>1. /\ t[n] = h /\ Aligned(h) /\ n \in 1..(L - 1) /\ n < L
        BY <1>3, <1>4, <1>5, <3>3 DEF L
      <4>2. h.todo # <<>>
        BY <3>3, <4>1 DEF Chain, Nested, L
      <4>3. j \in Range(h.todo) /\ j # Head(h.todo)
        BY <1>9, <3>3, <4>1 DEF Todo, L
      <4>4. Under(Append(h.path, Head(h.todo)), g.path)
        BY <1>4, <4>1 DEF Chain, L, g
      <4> HIDE DEF h
      <4>5. /\ h.path \in Seq(Keys) /\ Head(h.todo) \in Keys /\ j \in Keys
            /\ Append(h.path, Head(h.todo)) \in Seq(Keys)
        <5>1. j \in Keys
          BY <4>1, <4>3, RangeOfSeq DEF Aligned
        <5>2. QED
          BY <4>1, <4>2, <5>1, TopEdge
      <4>6. Under(g.path, c)
        BY <1>6, <1>7, UnderChild
      <4>7. Under(Append(h.path, Head(h.todo)), c)
        BY <1>7, <4>4, <4>5, <4>6, UnderThrough
      <4>8. QED
        BY <2>1, <4>1, <4>3, <4>5, <4>7, OneWayDown
    <3>4. QED
      BY <1>11, <3>1, <3>2, <3>3
  <2>2. QED
    BY <1>3, <2>1 DEF NotYet
<1>17. ASSUME NotYet(s, q), q # c PROVE NotYet(t, q)
  <2>1. PICK n \in 1..L : \E j \in Todo(s, n) : Under(Append(s[n].path, j), q)
    BY <1>17 DEF NotYet, L
  <2>2. PICK j \in Todo(s, n) : Under(Append(s[n].path, j), q)
    BY <2>1
  <2>3. n \in 1..Len(t) /\ L + 1 \in 1..Len(t)
    BY <1>3, <1>4
  <2>4. CASE n # L \/ j # k
    <3>1. j \in Todo(t, n) /\ t[n] = s[n]
      BY <1>3, <1>8, <1>9, <2>2, <2>4
    <3>2. QED
      BY <2>2, <2>3, <3>1 DEF NotYet
  <2>5. CASE n = L /\ j = k
    <3>1. Under(c, q)
      BY <1>6, <2>2, <2>5 DEF g
    <3>2. PICK i \in Range(Children(c)) : Under(Append(c, i), q)
      BY <1>7, <1>17, <3>1, EdgeBelow
    <3>3. t[L + 1].path = c /\ i \in Todo(t, L + 1)
      BY <1>3, <1>10, <3>2 DEF c
    <3>4. QED
      BY <2>3, <3>2, <3>3 DEF NotYet
  <2>6. QED
    BY <2>4, <2>5
<1>18. OnStack(t, q) <=> OnStack(s, q) \/ q = c
  <2>1. \A n \in 1..L : n \in 1..Len(t)
    BY <1>3, <1>4
  <2>2. L + 1 \in 1..Len(t)
    BY <1>3, <1>4
  <2>3. QED
    BY <1>3, <1>11, <2>1, <2>2 DEF OnStack, c, L
<1>19. QED
  BY <1>14, <1>15, <1>16, <1>17, <1>18 DEF t, c

\* Resolving the edge a level is at leaves no edge undone but those below that edge.
LEMMA GoesOn ==
    ASSUME in \in Inputs, NEW s, Chain(s), Len(s) \in Nat, NEW n \in 1..Len(s), s[n].todo # <<>>,
           NEW t, Len(t) = n, \A m \in 1..n : t[m].path = s[m].path /\ (m < n => t[m].todo = s[m].todo),
           t[n].todo = Tail(s[n].todo),
           n < Len(s) => n = Len(s) - 1 /\ s[Len(s)].todo = <<>>,
           NEW q
    PROVE  /\ NotYet(t, q) => NotYet(s, q)
           /\ NotYet(s, q) /\ ~NotYet(t, q)
                 => n = Len(s) /\ Under(Append(s[n].path, Head(s[n].todo)), q)
<1> DEFINE L == Len(s)
           k == Head(s[n].todo)
<1>1. Range(t[n].todo) = Range(s[n].todo) \ {k} /\ Aligned(s[n])
  <2>1. Aligned(s[n])
    BY DEF Chain
  <2>2. QED
    BY <2>1, TopEdge
<1>2. Todo(t, n) = Range(s[n].todo) \ {k}
  BY <1>1 DEF Todo
<1>3. \A m \in 1..n : m # n => Todo(t, m) = Todo(s, m)
  BY DEF Todo
<1>4. n < L => Todo(s, n) = Range(s[n].todo) \ {k} /\ Todo(s, L) = {}
  <2>1. Range(<<>>) = {}
    BY DEF Range
  <2>2. QED
    BY <2>1 DEF Todo
<1>5. n = L => Todo(s, n) = Range(s[n].todo)
  BY DEF Todo
<1>6. \A m \in 1..n : m \in 1..L /\ t[m].path = s[m].path
  OBVIOUS
<1>7. n < L => \A m \in 1..L : m \in 1..n \/ m = L
  OBVIOUS
<1>8. \A m \in 1..n : Todo(t, m) \subseteq Todo(s, m)
  BY <1>2, <1>3, <1>4, <1>5
<1>9. NotYet(t, q) => NotYet(s, q)
  BY <1>6, <1>8 DEF NotYet
<1>10. ASSUME NotYet(s, q), ~NotYet(t, q) PROVE n = L /\ Under(Append(s[n].path, k), q)
  <2>1. PICK m \in 1..L : \E j \in Todo(s, m) : Under(Append(s[m].path, j), q)
    BY <1>10 DEF NotYet
  <2>2. PICK j \in Todo(s, m) : Under(Append(s[m].path, j), q)
    BY <2>1
  <2>3. m \in 1..n
    BY <1>4, <1>7, <2>2
  <2>4. j \notin Todo(t, m)
    BY <1>6, <1>10, <2>2, <2>3 DEF NotYet
  <2>5. m = n /\ n = L /\ j = k
    BY <1>2, <1>3, <1>4, <1>5, <2>2, <2>3, <2>4
  <2>6. QED
    BY <2>2, <2>5
<1>11. QED
  BY <1>9, <1>10

-----------------------------------------------------------------------------
\* What a level asks for is what the rows needed there hold.
LEMMA WantedIsCollected ==
    ASSUME NEW c, NEW docs, Range(docs) = Needed[Front(c)]
    PROVE  Collect(c, docs) = Wanted(c)
<1> DEFINE open == {r \in Needed[Front(c)] : ~Guarded(c, r)}
           held == UNION {Range(Collected(c, r)) : r \in open}
<1>1. \A x : x \in held <=> \E r \in open : x \in Range(Collected(c, r))
  OBVIOUS
<1>2. Wanted(c) = held \ {NoId}
  BY DEF Wanted
<1> HIDE DEF held
<1>3. \A x : x \in Wanted(c) <=> /\ x # NoId
                                 /\ \E r \in Range(docs) : ~Guarded(c, r) /\ x \in Range(Collected(c, r))
  BY <1>1, <1>2
<1>4. \A x : x \in Collect(c, docs) <=> x \in Wanted(c)
  BY <1>3, CollectFacts
<1>5. QED
  BY <1>4

\* Nothing is needed below an edge nobody refers through.
LEMMA NothingNeededBelow ==
    ASSUME in \in Inputs, NEW c \in Edges, EdgeOf(c).kind # "reverse", Wanted(c) = {},
           NEW e \in Edges, Under(c, e), e # c
    PROVE  Needed[Front(e)] = {} /\ Wanted(e) = {}
<1> DEFINE L == Len(e) - Len(c)
           P(m) == SubSeq(e, 1, Len(c) + m)
           T == {m \in 0..L : Needed[P(m)] = {}}
<1>1. /\ c \in Seq(Keys) /\ e \in Seq(Keys) /\ Len(c) \in Nat \ {0} /\ Len(e) \in Nat
      /\ Len(c) <= Len(e)
  BY EdgeFacts, LenProperties, EmptySeq DEF Under
<1>2. Needed[c] = {}
  <2>1. ASSUME NEW r \in Needed[Front(c)] PROVE Targets(c, r) = {}
    <3>1. CASE Guarded(c, r)
      BY <3>1 DEF Targets
    <3>2. CASE ~Guarded(c, r)
      <4>1. Range(Collected(c, r)) \ {NoId} \subseteq Wanted(c)
        <5> DEFINE open == {q \in Needed[Front(c)] : ~Guarded(c, q)}
                   held == UNION {Range(Collected(c, q)) : q \in open}
        <5>1. Wanted(c) = held \ {NoId}
          BY DEF Wanted
        <5>2. r \in open
          BY <3>2
        <5>3. Range(Collected(c, r)) \subseteq held
          BY <5>2
        <5> HIDE DEF held
        <5>4. QED
          BY <5>1, <5>3
      <4>2. QED
        BY <3>2, <4>1 DEF Targets
    <3>3. QED
      BY <3>1, <3>2
  <2>2. Needed[c] = UNION {Targets(c, r) : r \in Needed[Front(c)]}
    BY NeededFacts
  <2>3. QED
    BY <2>1, <2>2
<1>3. 0 \in T
  <2>1. SubSeq(e, 1, Len(c)) = c
    <3>1. Len(c) \in 0..Len(e)
      BY <1>1
    <3>2. SubSeq(e, 1, Len(c)) \in Seq(Keys) /\ Len(SubSeq(e, 1, Len(c))) = Len(c)
          /\ \A i \in 1..Len(c) : SubSeq(e, 1, Len(c))[i] = e[i]
      BY <1>1, <3>1, PrefixFacts
    <3>3. \A i \in 1..Len(c) : SubSeq(e, 1, Len(c))[i] = c[i]
      BY <3>2 DEF Under
    <3>4. QED
      BY <1>1, <3>2, <3>3, SeqEqual
  <2>2. Len(c) + 0 = Len(c) /\ 0 \in 0..L
    BY <1>1
  <2>3. QED
    BY <1>2, <2>1, <2>2
<1>4. ASSUME NEW m \in 0..(L - 1), m \in T PROVE m + 1 \in T
  <2> DEFINE n == Len(c) + (m + 1)
             q == SubSeq(e, 1, n)
  <2>1. n \in 1..Len(e) /\ n - 1 = Len(c) + m /\ m + 1 \in 0..L
    BY <1>1
  <2>2. Front(q) = SubSeq(e, 1, n - 1)
    BY <1>1, <2>1, FrontOfPrefix
  <2>3. Needed[Front(q)] = {}
    BY <1>4, <2>1, <2>2
  <2>4. q \in Edges
    BY <2>1, PrefixIsEdge
  <2> HIDE DEF q
  <2>5. Needed[q] = UNION {Targets(q, r) : r \in Needed[Front(q)]}
    BY <2>4, NeededFacts
  <2>6. Needed[q] = {}
    BY <2>3, <2>5
  <2>7. QED
    BY <2>1, <2>6 DEF q
<1>5. 0..L \subseteq T
  <2> HIDE DEF T
  <2>1. L \in Nat
    BY <1>1
  <2>2. QED
    BY <1>3, <1>4, <2>1, IntervalByStep
<1>6. Needed[Front(e)] = {}
  <2>1. Len(c) # Len(e)
    BY <1>1, SeqEqual DEF Under
  <2>2. L - 1 \in 0..L /\ Len(c) + (L - 1) = Len(e) - 1 /\ Len(e) \in 1..Len(e)
    BY <1>1, <2>1
  <2>3. Front(e) = SubSeq(e, 1, Len(e) - 1)
    BY DEF Front
  <2>4. L - 1 \in T
    <3> HIDE DEF T, L
    <3>1. QED
      BY <1>5, <2>2
  <2>5. QED
    BY <2>2, <2>3, <2>4
<1>7. Wanted(e) = {}
  <2> DEFINE open == {q \in Needed[Front(e)] : ~Guarded(e, q)}
             held == UNION {Range(Collected(e, q)) : q \in open}
  <2>1. Wanted(e) = held \ {NoId}
    BY DEF Wanted
  <2>2. open = {}
    BY <1>6
  <2>3. held = {}
    BY <2>2
  <2>4. QED
    BY <2>1, <2>3
<1>8. QED
  BY <1>6, <1>7

-----------------------------------------------------------------------------
\* Nothing is judged when the root's level opens.
LEMMA JudgedOpened ==
    ASSUME in \in Inputs
    PROVE  Judged(<<Frame(<<>>, in.docs)>>)
<1> DEFINE f == Frame(<<>>, in.docs)
           s == <<f>>
<1>1. <<>> \in DOMAIN in.plan
  BY CallFacts
<1>2. f.path = <<>> /\ f.todo = Children(<<>>)
  BY DEF Frame
<1> HIDE DEF f
<1>3. s[1] = f /\ Len(s) = 1
  OBVIOUS
<1> HIDE DEF s
<1>4. ASSUME NEW e \in Edges PROVE NotYet(s, e)
  <2>1. Under(<<>>, e) /\ <<>> # e
    <3>1. e \in Seq(Keys) /\ e # <<>> /\ Len(e) \in Nat /\ Len(<<>>) = 0 /\ 1..0 = {}
      BY EdgeFacts, LenProperties
    <3>2. QED
      BY <3>1 DEF Under
  <2>2. PICK k \in Range(Children(<<>>)) : Under(Append(<<>>, k), e)
    BY <1>1, <2>1, EdgeBelow
  <2>3. Todo(s, 1) = Range(Children(<<>>)) /\ 1 \in 1..Len(s)
    BY <1>2, <1>3 DEF Todo
  <2>4. QED
    BY <1>2, <1>3, <2>2, <2>3 DEF NotYet
<1>5. Judged(s)
  BY <1>4 DEF Judged
<1>6. QED
  BY <1>5 DEF s, f

\* A level is opened for an edge whose fetcher is at hand or not asked.
LEMMA JudgedPushed ==
    ASSUME in \in Inputs, NEW s, Levels(s), Chain(s), Judged(s),
           NEW f, Aligned(f), Nested(Last(s), f), Range(f.todo) = Range(Children(f.path)),
           Conforming => FetcherMet(f.path)
    PROVE  Judged(Append(s, f))
<1> DEFINE t == Append(s, f)
<1>1. ASSUME Conforming, NEW e \in Edges, ~NotYet(t, e)
      PROVE  FetcherMet(e) /\ (~OnStack(t, e) => NoFault(e))
  <2>1. /\ NotYet(t, e) <=> NotYet(s, e) /\ e # f.path
        /\ OnStack(t, e) <=> OnStack(s, e) \/ e = f.path
    BY ComesToOne
  <2>2. CASE e = f.path
    BY <1>1, <2>1, <2>2
  <2>3. CASE e # f.path
    BY <1>1, <2>1, <2>3 DEF Judged
  <2>4. QED
    BY <2>2, <2>3
<1>2. QED
  BY <1>1 DEF Judged

\* A policy that objects names a fault of the call; one that does not judged every
\* row that is needed.
LEMMA FaultsJudge ==
    ASSUME in \in Inputs, NEW c \in Edges, NEW f, Stand(Front(c), f.docs),
           NEW rows, Answers(c, f.docs, rows)
    PROVE  /\ Faults(c, f, rows) # {} =>
                 LET why == ForwardFault(c, f.docs[Min(Faults(c, f, rows))], Range(rows)) IN
                 /\ why \in PolicyFailures
                 /\ Range(f.docs) = Needed[Front(c)] => why \in NaiveFaults
           /\ Faults(c, f, rows) = {} /\ Range(f.docs) = Needed[Front(c)] => NoFault(c)
<1> DEFINE docs == f.docs
           bad == Faults(c, f, rows)
           Why(i) == ForwardFault(c, docs[i], Range(rows))
           Real(r) == ForwardFault(c, r, Rows \ World.hidden)
<1>1. docs \in Seq(Rows) /\ DOMAIN docs = 1..Len(docs) /\ Len(docs) \in Nat
  BY LenProperties DEF Stand
<1>2. \A i : i \in bad <=> i \in DOMAIN docs /\ Why(i) # "none"
  BY DEF Faults
<1>3. \A i \in DOMAIN docs : docs[i] \in Range(docs) /\ Why(i) = Real(docs[i])
  <2>1. \A i \in DOMAIN docs : docs[i] \in Range(docs)
    BY DEF Range
  <2>2. \A r \in Range(docs) : ForwardFault(c, r, Range(rows)) = Real(r)
    BY LevelFault
  <2>3. QED
    BY <2>1, <2>2
<1>4. ASSUME bad # {}
      PROVE  /\ Why(Min(bad)) \in PolicyFailures
             /\ Range(docs) = Needed[Front(c)] => Why(Min(bad)) \in NaiveFaults
  <2>1. Min(bad) \in bad
    <3>1. bad \in SUBSET Nat
      BY <1>1, <1>2
    <3> HIDE DEF bad
    <3>2. \E i \in bad : \A j \in bad : i <= j
      BY <1>4, <3>1, LeastNatural
    <3>3. QED
      BY <3>2 DEF Min
  <2> DEFINE i == Min(bad)
  <2>2. i \in DOMAIN docs /\ Why(i) # "none" /\ Why(i) = Real(docs[i]) /\ docs[i] \in Range(docs)
    BY <1>2, <1>3, <2>1
  <2>3. Why(i) \in PolicyFailures
    BY <2>2, FaultIsFailure
  <2> HIDE DEF i
  <2>4. ASSUME Range(docs) = Needed[Front(c)] PROVE Why(i) \in NaiveFaults
    <3> DEFINE F(p) == {ForwardFault(p, r, Rows \ World.hidden) : r \in Needed[Front(p)]}
               all == UNION {F(p) : p \in Edges}
    <3>1. NaiveFaults = all \ {"none"}
      BY DEF NaiveFaults
    <3>2. Why(i) \in F(c)
      BY <2>2, <2>4
    <3>3. Why(i) \in all
      <4> HIDE DEF F, Why
      <4>1. QED
        BY <3>2
    <3>4. QED
      <4> HIDE DEF all, Why
      <4>1. Why(i) # "none"
        BY <2>2
      <4>2. QED
        BY <3>1, <3>3, <4>1
  <2>5. QED
    BY <2>3, <2>4 DEF i
<1>5. ASSUME bad = {}, Range(docs) = Needed[Front(c)] PROVE NoFault(c)
  <2>1. ASSUME NEW r \in Needed[Front(c)] PROVE Real(r) = "none"
    <3>1. PICK i \in DOMAIN docs : r = docs[i]
      BY <1>5 DEF Range
    <3>2. Why(i) = "none" /\ Why(i) = Real(r)
      BY <1>2, <1>3, <1>5, <3>1
    <3>3. QED
      BY <3>2
  <2>2. QED
    BY <2>1 DEF NoFault
<1>6. QED
  BY <1>4, <1>5

\* The levels t come of s when the edge at c is resolved for the level n.
Resolved(s, n, c, t) ==
    /\ n \in 1..Len(s) /\ s[n].todo # <<>> /\ c = Append(s[n].path, Head(s[n].todo))
    /\ Len(t) = n
    /\ \A m \in 1..n : t[m].path = s[m].path /\ (m < n => t[m].todo = s[m].todo)
    /\ t[n].todo = Tail(s[n].todo)
    /\ n < Len(s) => n = Len(s) - 1 /\ s[Len(s)].todo = <<>> /\ s[Len(s)].path = c
    /\ n = Len(s) => EdgeOf(c).kind # "reverse" /\ (Conforming => Wanted(c) = {})

\* An edge is resolved without a fault.
LEMMA JudgedAttached ==
    ASSUME in \in Inputs, NEW s, Chain(s), Judged(s), Len(s) \in Nat,
           NEW n, NEW c, NEW t, Resolved(s, n, c, t), Conforming => NoFault(c)
    PROVE  Judged(t)
<1>0. /\ n \in 1..Len(s) /\ s[n].todo # <<>> /\ c = Append(s[n].path, Head(s[n].todo))
      /\ Len(t) = n
      /\ \A m \in 1..n : t[m].path = s[m].path /\ (m < n => t[m].todo = s[m].todo)
      /\ t[n].todo = Tail(s[n].todo)
      /\ n < Len(s) => n = Len(s) - 1 /\ s[Len(s)].todo = <<>> /\ s[Len(s)].path = c
      /\ n = Len(s) => EdgeOf(c).kind # "reverse" /\ (Conforming => Wanted(c) = {})
  BY DEF Resolved
<1>1. c \in Edges
  <2>1. Aligned(s[n])
    BY <1>0 DEF Chain
  <2>2. QED
    BY <1>0, <2>1, TopEdge
<1>2. ASSUME Conforming, NEW e \in Edges, ~NotYet(t, e)
      PROVE  FetcherMet(e) /\ (~OnStack(t, e) => NoFault(e))
  <2>1. NotYet(s, e) => n = Len(s) /\ Under(c, e)
    BY <1>0, <1>2, GoesOn
  <2>2. OnStack(s, e) => OnStack(t, e) \/ e = c
    <3>1. n < Len(s) => \A m \in 1..Len(s) : m \in 1..n \/ m = Len(s)
      BY <1>0
    <3>2. QED
      BY <1>0, <3>1 DEF OnStack
  <2>3. CASE ~NotYet(s, e)
    BY <1>2, <2>2, <2>3 DEF Judged
  <2>4. CASE NotYet(s, e)
    <3>1. /\ n = Len(s) /\ Under(c, e) /\ EdgeOf(c).kind # "reverse" /\ Wanted(c) = {}
      BY <1>0, <1>2, <2>1, <2>4
    <3>2. CASE e = c
      BY <1>2, <3>1, <3>2 DEF FetcherMet
    <3>3. CASE e # c
      <4>1. Needed[Front(e)] = {} /\ Wanted(e) = {}
        BY <1>1, <3>1, <3>3, NothingNeededBelow
      <4>2. QED
        BY <4>1 DEF FetcherMet, NoFault
    <3>4. QED
      BY <3>2, <3>3
  <2>5. QED
    BY <2>3, <2>4
<1>3. QED
  BY <1>2 DEF Judged

\* The strict fetcher contract is broken by what was not asked for only.
LEMMA ContractJudges ==
    ASSUME in \in Inputs, NEW c \in Edges, NEW docs, Stand(Front(c), docs),
           BreaksContract(c, docs), Conforming
    PROVE  World.over
<1>1. CASE EdgeOf(c).kind = "reverse"
  <2>1. PICK i \in DOMAIN docs :
            \/ Limit(c) > 0 /\ Len(ByParent(c, docs[i]).rows) > Limit(c)
            \/ Limit(c) = 0 /\ ByParent(c, docs[i]).more
    BY <1>1 DEF BreaksContract, Conforming
  <2> DEFINE r == docs[i]
             all == Refs(c, r)
  <2>2. At(Front(c), r)
    BY DEF Stand, Range
  <2>3. Limit(c) \in Nat /\ all \in Seq(Rows \cup {NoId})
    BY <2>2, RefsFacts, EdgeFacts, LimitIsNatural
  <2> HIDE DEF r
  <2>4. /\ Len(Trim(c, all)) \in Nat
        /\ Limit(c) > 0 => Len(Trim(c, all)) <= Limit(c)
        /\ Limit(c) = 0 => Trim(c, all) = all
    BY <2>3, TrimFacts
  <2>5. ~World.over => /\ ByParent(c, r).rows = Trim(c, all)
                       /\ ByParent(c, r).more = (Len(all) > Len(Trim(c, all)))
    BY DEF ByParent, Refs
  <2>6. /\ ~World.over => ByParent(c, r).rows = Trim(c, all)
        /\ ~World.over => (ByParent(c, r).more <=> Len(all) > Len(Trim(c, all)))
    BY <2>5
  <2>7. \/ Limit(c) > 0 /\ Len(ByParent(c, r).rows) > Limit(c)
        \/ Limit(c) = 0 /\ ByParent(c, r).more
    BY <2>1 DEF r
  <2> HIDE DEF all
  <2>8. QED
    BY <2>3, <2>4, <2>6, <2>7
<1>2. CASE EdgeOf(c).kind # "reverse"
  <2>1. ~(ByIds(c, Collect(c, docs)) \subseteq Collect(c, docs))
    BY <1>2 DEF BreaksContract
  <2>2. ByIds(c, Collect(c, docs)) \subseteq Collect(c, docs)
    BY DEF ByIds, Conforming
  <2>3. QED
    BY <2>1, <2>2
<1>3. QED
  BY <1>1, <1>2

-----------------------------------------------------------------------------
\* What is known of a call stays as it is while the call goes on.
LEMMA EdgesAreFixed ==
    ASSUME UNCHANGED in, NEW p
    PROVE  /\ Node(p)' = Node(p) /\ EdgeOf(p)' = EdgeOf(p) /\ World' = World
           /\ Children(p)' = Children(p) /\ Limit(p)' = Limit(p) /\ Edges' = Edges
           /\ StrictRequired(p)' = StrictRequired(p) /\ StrictForeign(p)' = StrictForeign(p)
           /\ Conforming' = Conforming /\ IsBroken(p)' = IsBroken(p)
<1>1. Node(p)' = Node(p) /\ EdgeOf(p)' = EdgeOf(p) /\ World' = World /\ IsBroken(p)' = IsBroken(p)
  BY DEF Node, EdgeOf, World, IsBroken
<1>2. ASSUME NEW kinds PROVE KeysOf(p, kinds)' = KeysOf(p, kinds)
  BY DEF KeysOf, EdgeOf
<1>3. Children(p)' = Children(p)
  BY <1>2 DEF Children
<1>4. Limit(p)' = Limit(p)
  BY DEF Limit, EdgeOf, Node
<1>5. Edges' = Edges
  BY DEF Edges, EdgeOf
<1>6. StrictRequired(p)' = StrictRequired(p) /\ StrictForeign(p)' = StrictForeign(p)
  BY DEF StrictRequired, StrictForeign, EdgeOf
<1>7. Conforming' = Conforming
  BY <1>1 DEF Conforming
<1>8. QED
  BY <1>1, <1>3, <1>4, <1>5, <1>6, <1>7

\* What the rows refer to stays as it is while the call goes on.
LEMMA RowsAreFixed ==
    ASSUME UNCHANGED in, NEW p, NEW r
    PROVE  /\ Guarded(p, r)' = Guarded(p, r) /\ Refs(p, r)' = Refs(p, r)
           /\ Collected(p, r)' = Collected(p, r) /\ Kept(p, r)' = Kept(p, r)
           /\ ByParent(p, r)' = ByParent(p, r) /\ Targets(p, r)' = Targets(p, r)
<1>1. /\ EdgeOf(p)' = EdgeOf(p) /\ World' = World /\ Limit(p)' = Limit(p)
  BY EdgesAreFixed
<1>2. Guarded(p, r)' = Guarded(p, r) /\ Refs(p, r)' = Refs(p, r)
  BY <1>1 DEF Guarded, Refs
<1>3. ASSUME NEW s PROVE Trim(p, s)' = Trim(p, s)
  BY <1>1 DEF Trim
<1>4. Trim(p, Refs(p, r))' = Trim(p, Refs(p, r))
  BY <1>1 DEF Trim, Refs
<1>5. Collected(p, r)' = Collected(p, r)
  BY <1>1, <1>2, <1>4 DEF Collected
<1>6. ByParent(p, r)' = ByParent(p, r)
  BY <1>1, <1>4 DEF ByParent, Refs
<1>7. Kept(p, r)' = Kept(p, r)
  BY <1>1, <1>6 DEF Kept, Trim
<1>8. Targets(p, r)' = Targets(p, r)
  BY <1>1, <1>2, <1>5, <1>7 DEF Targets
<1>9. QED
  BY <1>2, <1>5, <1>6, <1>7, <1>8

\* What a level asks for stays as it is while the call goes on.
LEMMA LevelsAreFixed ==
    ASSUME UNCHANGED in, NEW c, NEW docs
    PROVE  Collect(c, docs)' = Collect(c, docs) /\ NextRows(c, docs)' = NextRows(c, docs)
<1>1. EdgeOf(c)' = EdgeOf(c) /\ World' = World /\ Node(c)' = Node(c)
  BY EdgesAreFixed
<1>2. ASSUME NEW r
      PROVE  /\ Guarded(c, r)' = Guarded(c, r) /\ Collected(c, r)' = Collected(c, r)
             /\ Kept(c, r)' = Kept(c, r)
  BY RowsAreFixed
<1>3. Collect(c, docs)' = Collect(c, docs)
  BY <1>2 DEF Collect
<1>4. Parents(c, docs)' = Parents(c, docs)
  BY <1>2 DEF Parents
<1>5. ByIds(c, Collect(c, docs))' = ByIds(c, Collect(c, docs))
  BY <1>1, <1>3 DEF ByIds
<1>6. NextRows(c, docs)' = NextRows(c, docs)
  BY <1>1, <1>2, <1>4, <1>5 DEF NextRows
<1>7. QED
  BY <1>3, <1>6

\* The value of an edge and its fault stay as they are while the call goes on.
LEMMA ValuesAreFixed ==
    ASSUME UNCHANGED in, NEW c, NEW r
    PROVE  /\ \A found : ForwardFault(c, r, found)' = ForwardFault(c, r, found)
           /\ \A D : NaiveValue(c, r, D)' = NaiveValue(c, r, D)
<1>1. /\ EdgeOf(c)' = EdgeOf(c) /\ World' = World
      /\ StrictRequired(c)' = StrictRequired(c) /\ StrictForeign(c)' = StrictForeign(c)
  BY EdgesAreFixed
<1>2. /\ Guarded(c, r)' = Guarded(c, r) /\ Collected(c, r)' = Collected(c, r)
      /\ Kept(c, r)' = Kept(c, r) /\ Refs(c, r)' = Refs(c, r) /\ ByParent(c, r)' = ByParent(c, r)
      /\ Targets(c, r)' = Targets(c, r)
  BY RowsAreFixed
<1>3. ASSUME NEW found PROVE ForwardFault(c, r, found)' = ForwardFault(c, r, found)
  BY <1>1, <1>2 DEF ForwardFault
<1>4. ASSUME NEW items, NEW more PROVE List(c, items, more)' = List(c, items, more)
  BY <1>1 DEF List
<1>5. ASSUME NEW items PROVE ReverseValue(c, r, items)' = ReverseValue(c, r, items)
  BY <1>1, <1>2 DEF ReverseValue, List
<1>6. ASSUME NEW index PROVE ForwardValue(c, r, index)' = ForwardValue(c, r, index)
  BY <1>1, <1>2 DEF ForwardValue, List
<1>7. ASSUME NEW D PROVE NaiveValue(c, r, D)' = NaiveValue(c, r, D)
  BY <1>1, <1>2, <1>5, <1>6 DEF NaiveValue
<1>8. QED
  BY <1>3, <1>7

\* The answer a call should give stays as it is while the call goes on.
LEMMA AnswerIsFixed ==
    ASSUME UNCHANGED in
    PROVE  /\ NaiveDocs' = NaiveDocs /\ Needed' = Needed /\ NaiveFaults' = NaiveFaults
           /\ \A c : Wanted(c)' = Wanted(c)
           /\ Naive' = Naive
<1>1. ASSUME NEW p, NEW r, NEW D PROVE NaiveDoc(p, r, D)' = NaiveDoc(p, r, D)
  <2>1. Children(p)' = Children(p)
    BY EdgesAreFixed
  <2>2. ASSUME NEW k, NEW E PROVE NaiveValue(Append(p, k), r, E)' = NaiveValue(Append(p, k), r, E)
    BY ValuesAreFixed
  <2>3. NaiveEdges(p, r, D)' = NaiveEdges(p, r, D)
    BY <2>1, <2>2 DEF NaiveEdges
  <2>4. QED
    BY <2>3 DEF NaiveDoc
<1>2. NaiveDocs' = NaiveDocs
  BY <1>1 DEF NaiveDocs
<1>3. ASSUME NEW p, NEW r PROVE Targets(p, r)' = Targets(p, r)
  BY RowsAreFixed
<1>4. ASSUME NEW p PROVE EdgeOf(p)' = EdgeOf(p) /\ Edges' = Edges /\ World' = World
  BY EdgesAreFixed
<1>5. Needed' = Needed
  <2>1. ASSUME NEW p, NEW N PROVE NeededAt(p, N)' = NeededAt(p, N)
    <3>1. (UNION {Targets(p, r) : r \in N[Front(p)]})' = UNION {Targets(p, r) : r \in N[Front(p)]}
      BY <1>3
    <3>2. EdgeOf(p)' = EdgeOf(p)
      BY <1>4
    <3>3. QED
      BY <3>1, <3>2 DEF NeededAt
  <2>2. QED
    BY <2>1 DEF Needed
<1>6. ASSUME NEW c, NEW r, NEW A PROVE ForwardFault(c, r, A)' = ForwardFault(c, r, A)
  BY ValuesAreFixed
<1>7. NaiveFaults' = NaiveFaults
  BY <1>4, <1>5, <1>6 DEF NaiveFaults
<1>8. ASSUME NEW c PROVE Wanted(c)' = Wanted(c)
  <2>1. ASSUME NEW r PROVE Guarded(c, r)' = Guarded(c, r) /\ Collected(c, r)' = Collected(c, r)
    BY RowsAreFixed
  <2>2. QED
    BY <1>5, <2>1 DEF Wanted
<1>9. Naive' = Naive
  BY <1>2 DEF Naive
<1>10. QED
  BY <1>2, <1>5, <1>7, <1>8, <1>9

-----------------------------------------------------------------------------
\* Whether levels are right and judged does not depend on the step of the call.
LEMMA StackIsFixed ==
    ASSUME UNCHANGED in, NEW s
    PROVE  Chain(s)' = Chain(s) /\ Judged(s)' = Judged(s)
<1>1. ASSUME NEW p, NEW docs
      PROVE  /\ Stand(p, docs)' = Stand(p, docs)
             /\ Children(p)' = Children(p) /\ Conforming' = Conforming
             /\ Needed' = Needed
  <2>1. Node(p)' = Node(p) /\ World' = World
    BY EdgesAreFixed
  <2>2. Stand(p, docs)' = Stand(p, docs)
    BY <2>1 DEF Stand, At
  <2>3. QED
    BY <2>2, EdgesAreFixed, AnswerIsFixed
<1>2. ASSUME NEW p, NEW docs, NEW k PROVE RightValue(p, docs, k)' = RightValue(p, docs, k)
  <2>1. NaiveDocs' = NaiveDocs
    BY AnswerIsFixed
  <2>2. \A r, D : NaiveValue(Append(p, k), r, D)' = NaiveValue(Append(p, k), r, D)
    BY ValuesAreFixed
  <2>3. QED
    BY <2>1, <2>2 DEF RightValue, ValuesOf
<1>3. ASSUME NEW f PROVE Aligned(f)' = Aligned(f)
  BY <1>1, <1>2 DEF Aligned
<1>4. ASSUME NEW g, NEW f PROVE Nested(g, f)' = Nested(g, f)
  BY LevelsAreFixed DEF Nested
<1>5. Chain(s)' = Chain(s)
  BY <1>3, <1>4 DEF Chain
<1>6. ASSUME NEW e
      PROVE  FetcherMet(e)' = FetcherMet(e) /\ NoFault(e)' = NoFault(e)
  <2>1. /\ IsBroken(e)' = IsBroken(e) /\ World' = World /\ Wanted(e)' = Wanted(e)
        /\ Needed' = Needed
    BY EdgesAreFixed, AnswerIsFixed
  <2>2. \A r, A : ForwardFault(e, r, A)' = ForwardFault(e, r, A)
    BY ValuesAreFixed
  <2>3. QED
    BY <2>1, <2>2 DEF FetcherMet, NoFault
<1>7. Edges' = Edges /\ Conforming' = Conforming
  BY EdgesAreFixed
<1>8. Judged(s)' = Judged(s)
  BY <1>6, <1>7 DEF Judged
<1>9. QED
  BY <1>5, <1>8

\* Nor does whether the batches were right.
LEMMA HistoryIsFixed ==
    ASSUME UNCHANGED in, NEW h
    PROVE  Batches(h)' = Batches(h)
<1>1. Edges' = Edges /\ Conforming' = Conforming /\ \A c : Wanted(c)' = Wanted(c)
  BY EdgesAreFixed, AnswerIsFixed
<1>2. QED
  BY <1>1 DEF Batches

-----------------------------------------------------------------------------
\* What an edge was found to be stays so while the call goes on.
LEMMA FindingsAreFixed ==
    ASSUME UNCHANGED in, NEW e
    PROVE  FetcherMet(e)' = FetcherMet(e) /\ NoFault(e)' = NoFault(e)
<1>1. /\ IsBroken(e)' = IsBroken(e) /\ World' = World /\ Wanted(e)' = Wanted(e)
      /\ Needed' = Needed
  BY EdgesAreFixed, AnswerIsFixed
<1>2. \A r, A : ForwardFault(e, r, A)' = ForwardFault(e, r, A)
  BY ValuesAreFixed
<1>3. QED
  BY <1>1, <1>2 DEF FetcherMet, NoFault

\* A step of a call, from what it leaves behind.
LEMMA Carried ==
    ASSUME in \in Inputs, UNCHANGED <<in, calls>>, calls \in 1..MaxCalls,
           NEW st, stack' = st, NEW h, fetches' = h, NEW w \in Statuses, status' = w,
           st = <<>> <=> w # "levels", w = "start" => h = <<>>,
           w = "levels" => /\ Chain(st) /\ Judged(st)
                           /\ \A i \in 1..Len(h) : ~NotYet(st, h[i].path),
           Batches(h),
           w = "ok" => /\ result' = Naive
                       /\ Conforming => \A e \in Edges : FetcherMet(e) /\ NoFault(e),
           Conforming => /\ w \in PolicyFailures => w \in NaiveFaults
                         /\ w = "contract" => World.over,
           {ctxRows', served', spent'} \subseteq Nat
    PROVE  AnswerInv'
<1>1. Chain(st)' = Chain(st) /\ Judged(st)' = Judged(st) /\ Batches(h)' = Batches(h)
  BY StackIsFixed, HistoryIsFixed
<1>2. (status = "levels" => /\ Chain(stack) /\ Judged(stack)
                            /\ \A i \in 1..Len(fetches) : ~NotYet(stack, fetches[i].path))'
  BY <1>1
<1>3. Batches(fetches)'
  BY <1>1
<1>4. /\ Conforming' = Conforming /\ Edges' = Edges /\ World' = World
      /\ Naive' = Naive /\ NaiveFaults' = NaiveFaults
  BY EdgesAreFixed, AnswerIsFixed
<1>5. \A e : FetcherMet(e)' = FetcherMet(e) /\ NoFault(e)' = NoFault(e)
  BY FindingsAreFixed
<1>6. Verdict'
  BY <1>4, <1>5 DEF Verdict
<1>7. QED
  BY <1>2, <1>3, <1>6 DEF AnswerInv

\* A failure that no policy and no contract names.
LEMMA Stopped ==
    ASSUME AnswerInv, UNCHANGED <<in, calls, fetches>>, stack' = <<>>,
           status' \in Failures \ (PolicyFailures \cup {"contract"}),
           {ctxRows', served', spent'} \subseteq Nat
    PROVE  AnswerInv'
<1>1. PICK w : w = status'
  OBVIOUS
<1>2. PICK h : h = fetches
  OBVIOUS
<1>3. /\ w \in Statuses /\ w \notin {"start", "levels", "ok", "contract"} \cup PolicyFailures
  BY <1>1 DEF Statuses, Failures, PolicyFailures
<1>4. in \in Inputs /\ Batches(h) /\ calls \in 1..MaxCalls
  BY <1>2 DEF AnswerInv
<1> DEFINE st == <<>>
<1>5. stack' = st /\ (st = <<>> <=> w # "levels")
  BY <1>3
<1> HIDE DEF st
<1>6. QED
  BY <1>1, <1>2, <1>3, <1>4, <1>5, Carried

-----------------------------------------------------------------------------
\* Before a call there is nothing to be wrong about.
LEMMA InitAnswer == Init => AnswerInv
<1> SUFFICES ASSUME Init PROVE AnswerInv
  OBVIOUS
<1>1. status \in {"start", "budget"} /\ status \in Statuses /\ stack = <<>> /\ fetches = <<>>
  BY DEF Init, Begins, Statuses, Failures
<1>2. calls \in 1..MaxCalls /\ {ctxRows, served, spent} \subseteq Nat
  BY BoundAssumption DEF Init
<1>3. fetches \in Seq({}) /\ Len(fetches) = 0 /\ 1..0 = {}
  BY <1>1
<1>4. Batches(fetches)
  BY <1>3 DEF Batches
<1>5. Verdict
  BY <1>1 DEF Verdict, PolicyFailures
<1>6. QED
  BY <1>1, <1>2, <1>4, <1>5 DEF Init, AnswerInv

\* Between two calls there is nothing to be wrong about.
LEMMA NextCallAnswer == ASSUME AnswerInv, NextCall PROVE AnswerInv'
<1>1. /\ status' \in {"start", "budget"} /\ status' \in Statuses /\ status # "levels"
      /\ stack' = <<>> /\ fetches' = <<>> /\ in' \in Inputs
  BY InputsAssumption DEF NextCall, Begins, Statuses, Failures, Ended, AnswerInv
<1>2. calls' \in 1..MaxCalls /\ {ctxRows', served', spent'} \subseteq Nat
  BY BoundAssumption DEF NextCall, AnswerInv
<1>3. fetches' \in Seq({}) /\ Len(fetches') = 0 /\ 1..0 = {}
  BY <1>1
<1>4. Batches(fetches)'
  BY <1>3 DEF Batches
<1>5. Verdict'
  BY <1>1 DEF Verdict, PolicyFailures
<1>6. QED
  BY <1>1, <1>2, <1>4, <1>5 DEF AnswerInv

-----------------------------------------------------------------------------
\* The root's level is opened with the documents of the call.
LEMMA RootDocsAnswer == ASSUME AnswerInv, RootDocs PROVE AnswerInv'
<1>0. /\ status = "start" /\ fetches = <<>> /\ fetches' = fetches /\ calls' = calls /\ in' = in
      /\ in \in Inputs /\ calls \in 1..MaxCalls /\ Batches(fetches)
      /\ {ctxRows', served', spent'} \subseteq Nat
  BY DEF RootDocs, AnswerInv
<1>1. CASE status' = "levels"
  <2> DEFINE st == <<Frame(<<>>, in.docs)>>
  <2>1. stack' = st /\ st # <<>>
    BY <1>1 DEF RootDocs, Fail
  <2>2. Chain(st) /\ Judged(st)
    BY <1>0, ChainOpened, JudgedOpened
  <2> HIDE DEF st
  <2>3. PICK t : t = st
    OBVIOUS
  <2>4. PICK h : h = fetches
    OBVIOUS
  <2>5. Len(h) = 0 /\ 1..0 = {}
    BY <1>0, <2>4
  <2> DEFINE w == "levels"
  <2>6. w \in Statuses /\ w \notin {"start", "ok", "contract"} \cup PolicyFailures
    BY DEF Statuses, PolicyFailures
  <2>7. QED
    BY <1>0, <1>1, <2>1, <2>2, <2>3, <2>4, <2>5, <2>6, Carried
<1>2. CASE status' # "levels"
  <2>1. status' \in {"rootFetch", "notFound"} /\ stack' = <<>>
    BY <1>2 DEF RootDocs, Fail
  <2>2. status' \in Failures \ (PolicyFailures \cup {"contract"})
    BY <2>1 DEF Failures, PolicyFailures
  <2>3. QED
    BY <1>0, <2>1, <2>2, Stopped
<1>3. QED
  BY <1>1, <1>2

-----------------------------------------------------------------------------
\* The invariants of a call at its levels.
LEMMA Open ==
    ASSUME MInv, AnswerInv, status = "levels"
    PROVE  /\ in \in Inputs /\ calls \in 1..MaxCalls /\ Batches(fetches)
           /\ Levels(stack) /\ Chain(stack) /\ Judged(stack)
           /\ \A i \in 1..Len(fetches) : ~NotYet(stack, fetches[i].path)
           /\ Len(stack) \in Nat \ {0} /\ Len(stack) \in 1..Len(stack)
           /\ Top = stack[Len(stack)] /\ Last(stack) = Top
           /\ Aligned(Top) /\ IsLevel(Top)
           /\ \A n \in 1..Len(stack) : Aligned(stack[n]) /\ IsLevel(stack[n])
           /\ {ctxRows, served, spent} \subseteq Nat
<1>1. /\ in \in Inputs /\ calls \in 1..MaxCalls /\ Batches(fetches)
      /\ Levels(stack) /\ Chain(stack) /\ Judged(stack)
      /\ \A i \in 1..Len(fetches) : ~NotYet(stack, fetches[i].path)
      /\ {ctxRows, served, spent} \subseteq Nat
  BY DEF MInv, BudgetInv, AnswerInv
<1>2. Len(stack) \in Nat \ {0} /\ Last(stack) = stack[Len(stack)]
  BY <1>1, LastLevel
<1>3. Len(stack) \in 1..Len(stack)
  BY <1>2
<1>4. \A n \in 1..Len(stack) : Aligned(stack[n]) /\ IsLevel(stack[n])
  BY <1>1 DEF Chain, Levels
<1>5. QED
  BY <1>1, <1>2, <1>3, <1>4 DEF Top

\* Levels of the same paths with the same work to do leave the same edges undone.
LEMMA SameWay ==
    ASSUME NEW s, NEW t, Len(t) = Len(s),
           \A n \in 1..Len(s) : t[n].path = s[n].path /\ t[n].todo = s[n].todo,
           NEW q
    PROVE  (NotYet(t, q) <=> NotYet(s, q)) /\ (OnStack(t, q) <=> OnStack(s, q))
<1>1. \A n \in 1..Len(s) : Todo(t, n) = Todo(s, n)
  BY DEF Todo
<1>2. QED
  BY <1>1 DEF NotYet, OnStack

\* Entering a level changes neither its documents nor its edges.
LEMMA EnterAnswer ==
    ASSUME MInv, AnswerInv, EnterCancelled \/ EnterOverBudget \/ EnterLevel
    PROVE  AnswerInv'
<1>0. /\ status = "levels" /\ in' = in /\ calls' = calls /\ fetches' = fetches /\ spent' = spent
  BY DEF EnterCancelled, EnterOverBudget, EnterLevel, Entering
<1>1. /\ in \in Inputs /\ calls \in 1..MaxCalls /\ Batches(fetches)
      /\ Levels(stack) /\ Chain(stack) /\ Judged(stack)
      /\ \A i \in 1..Len(fetches) : ~NotYet(stack, fetches[i].path)
      /\ Len(stack) \in Nat \ {0} /\ Len(stack) \in 1..Len(stack)
      /\ Top = stack[Len(stack)] /\ Aligned(Top) /\ IsLevel(Top)
      /\ \A n \in 1..Len(stack) : Aligned(stack[n])
      /\ {ctxRows, served, spent} \subseteq Nat
  BY <1>0, Open
<1>2. Len(Top.docs) \in Nat
  <2>1. Top.docs \in Seq(Rows)
    BY <1>1 DEF Aligned, Stand
  <2>2. QED
    BY <2>1, LenProperties
<1>3. Counted \in Nat
  BY <1>1, <1>2 DEF Counted
<1>4. {ctxRows', served', spent'} \subseteq Nat
  BY <1>0, <1>1, <1>2, <1>3 DEF EnterCancelled, EnterOverBudget, EnterLevel
<1>5. CASE EnterCancelled \/ EnterOverBudget
  <2>1. status' \in {"cancelled", "budget"} /\ stack' = <<>>
    BY <1>5 DEF EnterCancelled, EnterOverBudget, Fail
  <2>2. status' \in Failures \ (PolicyFailures \cup {"contract"})
    BY <2>1 DEF Failures, PolicyFailures
  <2>3. QED
    BY <1>0, <1>4, <2>1, <2>2, Stopped
<1>6. CASE EnterLevel /\ LevelBroken
  <2>1. status' \in {"enrich", "serialize"} /\ stack' = <<>>
    BY <1>6 DEF EnterLevel, LevelBroken, Fail
  <2>2. status' \in Failures \ (PolicyFailures \cup {"contract"})
    BY <2>1 DEF Failures, PolicyFailures
  <2>3. QED
    BY <1>0, <1>4, <2>1, <2>2, Stopped
<1>7. CASE EnterLevel /\ ~LevelBroken
  <2> DEFINE L == Len(stack)
             t == [stack EXCEPT ![Len(stack)].phase = "edges"]
             g == [stack[L] EXCEPT !.phase = "edges"]
  <2>1. stack' = t /\ status' = "levels"
    BY <1>0, <1>7 DEF EnterLevel
  <2>2. Levels(t) /\ Len(t) = L /\ \A n \in 1..L : t[n] = IF n = L THEN g ELSE stack[n]
    BY <1>1, Entered
  <2>3. /\ g.path = Top.path /\ g.docs = Top.docs /\ g.todo = Top.todo /\ g.vals = Top.vals
        /\ g.phase = "edges"
    BY <1>1 DEF IsLevel, FrameFields
  <2>4. t # <<>>
    BY <2>2 DEF Levels
  <2> HIDE DEF g, t
  <2>5. Aligned(g)
    BY <1>1, <2>3 DEF Aligned
  <2>6. \A n \in 1..L : /\ Aligned(t[n]) /\ t[n].path = stack[n].path
                        /\ t[n].docs = stack[n].docs /\ t[n].todo = stack[n].todo
    BY <1>1, <2>2, <2>3, <2>5
  <2>7. Chain(t)
    <3>1. Len(t) \in 1..Len(stack) /\ Len(stack) \in Nat
      BY <1>1, <2>2
    <3>2. QED
      BY <1>1, <2>2, <2>6, <3>1, ChainKept
  <2>8. \A q : (NotYet(t, q) <=> NotYet(stack, q)) /\ (OnStack(t, q) <=> OnStack(stack, q))
    BY <2>2, <2>6, SameWay
  <2>9. Judged(t)
    BY <1>1, <2>8 DEF Judged
  <2>10. PICK st : st = t
    OBVIOUS
  <2>11. PICK h : h = fetches
    OBVIOUS
  <2> DEFINE w == "levels"
  <2>12. w \in Statuses /\ w \notin {"start", "ok", "contract"} \cup PolicyFailures
    BY DEF Statuses, PolicyFailures
  <2>13. \A i \in 1..Len(h) : ~NotYet(st, h[i].path)
    BY <1>1, <2>8, <2>10, <2>11
  <2> HIDE DEF w
  <2>14. stack' = st /\ fetches' = h /\ status' = w /\ st # <<>> /\ Batches(h) /\ Chain(st)
         /\ Judged(st) /\ w = "levels"
    BY <1>0, <1>1, <2>1, <2>4, <2>7, <2>9, <2>10, <2>11 DEF w
  <2>15. QED
    BY <1>0, <1>1, <1>4, <2>12, <2>13, <2>14, Carried
<1>8. QED
  BY <1>5, <1>6, <1>7

-----------------------------------------------------------------------------
\* A batch for an edge that had none.
LEMMA BatchAppended ==
    ASSUME NEW h, Batches(h), NEW c \in Edges, \A i \in 1..Len(h) : h[i].path # c,
           NEW ids, Conforming => ids = Wanted(c)
    PROVE  /\ Batches(Append(h, [path |-> c, ids |-> ids]))
           /\ \A i \in 1..Len(Append(h, [path |-> c, ids |-> ids])) :
                 \/ Append(h, [path |-> c, ids |-> ids])[i].path = c
                 \/ \E j \in 1..Len(h) :
                        Append(h, [path |-> c, ids |-> ids])[i].path = h[j].path
<1> DEFINE e == [path |-> c, ids |-> ids]
           g == Append(h, e)
<1>1. PICK S : h \in Seq(S)
  BY DEF Batches
<1>2. h \in Seq(S \cup {e}) /\ e \in S \cup {e}
  BY <1>1, SeqMonotonic
<1>3. e.path = c /\ e.ids = ids
  OBVIOUS
<1> HIDE DEF e
<1>4. /\ g \in Seq(S \cup {e}) /\ Len(g) = Len(h) + 1 /\ Len(h) \in Nat
      /\ g[Len(h) + 1] = e /\ \A i \in 1..Len(h) : g[i] = h[i]
  BY <1>2, AppendProperties, LenProperties
<1> HIDE DEF g
<1>5. \A i \in 1..Len(g) : i \in 1..Len(h) \/ i = Len(h) + 1
  BY <1>4
<1>6. \A i \in 1..Len(g) : g[i].path \in Edges
  BY <1>3, <1>4, <1>5 DEF Batches
<1>7. \A i, j \in 1..Len(g) : g[i].path = g[j].path => i = j
  BY <1>3, <1>4, <1>5 DEF Batches
<1>8. Conforming => \A i \in 1..Len(g) : g[i].ids = Wanted(g[i].path)
  BY <1>3, <1>4, <1>5 DEF Batches
<1>9. Batches(g)
  BY <1>4, <1>6, <1>7, <1>8 DEF Batches
<1>10. \A i \in 1..Len(g) : g[i].path = c \/ \E j \in 1..Len(h) : g[i].path = h[j].path
  BY <1>3, <1>4, <1>5
<1>11. QED
  BY <1>9, <1>10 DEF g, e

\* The level of the edge the innermost level is at.
LEMMA PushAnswer ==
    ASSUME MInv, AnswerInv, Resolving, NEW c, c = ChildPath, Conforming => FetcherMet(c),
           status' = status, stack' = Append(stack, Frame(c, NextRows(c, Top.docs))),
           NEW h, fetches' = h, Batches(h),
           \A i \in 1..Len(h) : h[i].path = c \/ ~NotYet(stack, h[i].path),
           UNCHANGED <<in, calls>>, {ctxRows', served', spent'} \subseteq Nat
    PROVE  AnswerInv'
<1> DEFINE f == Frame(c, NextRows(c, Top.docs))
           t == Append(stack, f)
<1>1. status = "levels" /\ Top.todo # <<>> /\ Top.phase = "edges"
  BY DEF Resolving
<1>2. /\ in \in Inputs /\ calls \in 1..MaxCalls /\ Levels(stack) /\ Chain(stack) /\ Judged(stack)
      /\ Last(stack) = Top /\ Aligned(Top)
  BY <1>1, Open
<1>3. /\ Aligned(f) /\ IsLevel(f) /\ Nested(Top, f)
  BY <1>1, <1>2, NextAligned DEF ChildPath
<1>4. f.path = c /\ f.todo = Children(c)
  BY DEF Frame
<1> HIDE DEF f
<1>5. Chain(t)
  BY <1>2, <1>3, ChainPushed
<1>6. Judged(t)
  BY <1>2, <1>3, <1>4, JudgedPushed
<1>7. ASSUME NEW i \in 1..Len(h) PROVE ~NotYet(t, h[i].path)
  <2>1. h[i].path \in Edges
    BY DEF Batches
  <2>2. NotYet(t, h[i].path) <=> NotYet(stack, h[i].path) /\ h[i].path # c
    BY <1>2, <1>3, <1>4, <2>1, ComesToOne
  <2>3. QED
    BY <2>2
<1>8. t # <<>>
  <2>1. PICK S : stack \in Seq(S)
    BY <1>2 DEF Levels
  <2>2. stack \in Seq(S \cup {f}) /\ f \in S \cup {f}
    BY <2>1, SeqMonotonic
  <2>3. QED
    BY <2>2, AppendProperties
<1> HIDE DEF t
<1>9. PICK st : st = t
  OBVIOUS
<1> DEFINE w == "levels"
<1>10. w \in Statuses /\ w \notin {"start", "ok", "contract"} \cup PolicyFailures
  BY DEF Statuses, PolicyFailures
<1> HIDE DEF w
<1>11. stack' = st /\ status' = w /\ st # <<>> /\ Chain(st) /\ Judged(st) /\ w = "levels"
       /\ \A i \in 1..Len(h) : ~NotYet(st, h[i].path)
  BY <1>1, <1>5, <1>6, <1>7, <1>8, <1>9 DEF w, t, f
<1>12. QED
  BY <1>2, <1>10, <1>11, Carried

\* The innermost level has not come to the edge it is at.
LEMMA TopNotYet ==
    ASSUME MInv, AnswerInv, Resolving
    PROVE  /\ ChildPath \in Edges /\ NotYet(stack, ChildPath)
           /\ Front(ChildPath) = Top.path /\ Stand(Front(ChildPath), Top.docs)
           /\ Conforming => /\ Range(Top.docs) = Needed[Front(ChildPath)]
                            /\ Collect(ChildPath, Top.docs) = Wanted(ChildPath)
<1> DEFINE c == ChildPath
           f == Frame(c, NextRows(c, Top.docs))
<1>1. status = "levels" /\ Top.todo # <<>>
  BY DEF Resolving
<1>2. /\ in \in Inputs /\ Levels(stack) /\ Chain(stack) /\ Last(stack) = Top /\ Aligned(Top)
  BY <1>1, Open
<1>3. c \in Edges /\ Front(c) = Top.path
  BY <1>1, <1>2, TopEdge DEF ChildPath
<1>4. /\ Aligned(f) /\ IsLevel(f) /\ Nested(Top, f)
  BY <1>1, <1>2, NextAligned DEF ChildPath
<1>5. f.path = c /\ f.todo = Children(c)
  BY DEF Frame
<1> HIDE DEF f, c
<1>6. NotYet(stack, c)
  BY <1>2, <1>3, <1>4, <1>5, ComesToOne
<1>7. Stand(Front(c), Top.docs) /\ (Conforming => Range(Top.docs) = Needed[Front(c)])
  BY <1>2, <1>3 DEF Aligned
<1>8. Conforming => Collect(c, Top.docs) = Wanted(c)
  BY <1>7, WantedIsCollected
<1>9. QED
  BY <1>3, <1>6, <1>7, <1>8 DEF c

-----------------------------------------------------------------------------
\* A batch fetch asks for the right ids, once, and its rows open the right level.
LEMMA FetchEdgeAnswer == ASSUME MInv, AnswerInv, FetchEdge PROVE AnswerInv'
<1> DEFINE c == ChildPath
           ids == Collect(c, Top.docs)
           why == IF in.broken.path = c THEN in.broken.how ELSE "none"
<1>0. /\ Resolving /\ status = "levels" /\ in' = in /\ calls' = calls
      /\ ctxRows' = ctxRows /\ served' = served /\ spent' = spent /\ ids # {}
      /\ fetches' = IF why = "unbound" THEN fetches
                    ELSE Append(fetches, [path |-> c, ids |-> ids])
      /\ IF why \in {"unbound", "fetch"} THEN Fail(why)
         ELSE IF in.fetcherContract = "strict" /\ BreaksContract(c, Top.docs)
         THEN Fail("contract")
         ELSE stack' = Append(stack, Frame(c, NextRows(c, Top.docs))) /\ UNCHANGED status
  BY DEF FetchEdge, Resolving
<1>1. /\ in \in Inputs /\ calls \in 1..MaxCalls /\ Batches(fetches)
      /\ \A i \in 1..Len(fetches) : ~NotYet(stack, fetches[i].path)
      /\ {ctxRows', served', spent'} \subseteq Nat
  BY <1>0, Open
<1>2. /\ c \in Edges /\ NotYet(stack, c) /\ Front(c) = Top.path /\ Stand(Front(c), Top.docs)
      /\ Conforming => Range(Top.docs) = Needed[Front(c)] /\ ids = Wanted(c)
  BY <1>0, TopNotYet
<1> HIDE DEF c, ids
<1>3. \A i \in 1..Len(fetches) : fetches[i].path # c
  BY <1>1, <1>2
<1>4. PICK h : h = fetches'
  OBVIOUS
<1>5. Batches(h) /\ \A i \in 1..Len(h) : h[i].path = c \/ ~NotYet(stack, h[i].path)
  <2>1. CASE why = "unbound"
    BY <1>0, <1>1, <1>4, <2>1
  <2>2. CASE why # "unbound"
    <3>1. h = Append(fetches, [path |-> c, ids |-> ids])
      BY <1>0, <1>4, <2>2
    <3>2. /\ Batches(h)
          /\ \A i \in 1..Len(h) : h[i].path = c \/ \E j \in 1..Len(fetches) : h[i].path = fetches[j].path
      BY <1>1, <1>2, <1>3, <3>1, BatchAppended
    <3>3. QED
      BY <1>1, <3>2
  <2>3. QED
    BY <2>1, <2>2
<1>6. CASE why \in {"unbound", "fetch"} \/ (in.fetcherContract = "strict" /\ BreaksContract(c, Top.docs))
  <2>1. status' \in {"unbound", "fetch", "contract"} /\ stack' = <<>>
    BY <1>0, <1>6 DEF Fail
  <2>2. status' = "contract" /\ Conforming => World.over
    <3>1. ASSUME status' = "contract", Conforming PROVE World.over
      <4>1. BreaksContract(c, Top.docs)
        BY <1>0, <1>6, <3>1 DEF Fail
      <4>2. QED
        BY <1>1, <1>2, <3>1, <4>1, ContractJudges
    <3>2. QED
      BY <3>1
  <2>3. PICK w : w = status'
    OBVIOUS
  <2>4. /\ w \in Statuses /\ w \notin {"start", "levels", "ok"} \cup PolicyFailures
        /\ w = "contract" /\ Conforming => World.over
    BY <2>1, <2>2, <2>3 DEF Statuses, Failures, PolicyFailures
  <2> DEFINE st == <<>>
  <2>5. stack' = st /\ (st = <<>> <=> w # "levels")
    BY <2>1, <2>4
  <2> HIDE DEF st
  <2>6. QED
    BY <1>0, <1>1, <1>4, <1>5, <2>3, <2>4, <2>5, Carried
<1>7. CASE why \notin {"unbound", "fetch"} /\ ~(in.fetcherContract = "strict" /\ BreaksContract(c, Top.docs))
  <2>1. stack' = Append(stack, Frame(c, NextRows(c, Top.docs))) /\ status' = status
    BY <1>0, <1>7
  <2>2. FetcherMet(c)
    BY <1>7 DEF FetcherMet, IsBroken
  <2>3. QED
    BY <1>0, <1>1, <1>4, <1>5, <2>1, <2>2, PushAnswer DEF c
<1>8. QED
  BY <1>6, <1>7

\* A reverse edge without parents opens the level of no rows.
LEMMA OpenEmptyAnswer == ASSUME MInv, AnswerInv, OpenEmpty PROVE AnswerInv'
<1> DEFINE c == ChildPath
<1>0. /\ Resolving /\ status = "levels" /\ in' = in /\ calls' = calls /\ fetches' = fetches
      /\ ctxRows' = ctxRows /\ served' = served /\ spent' = spent /\ status' = status
      /\ EdgeOf(c).kind = "reverse" /\ Collect(c, Top.docs) = {}
      /\ stack' = Append(stack, Frame(c, <<>>))
  BY DEF OpenEmpty, Resolving
<1>1. /\ in \in Inputs /\ Batches(fetches)
      /\ \A i \in 1..Len(fetches) : ~NotYet(stack, fetches[i].path)
      /\ {ctxRows', served', spent'} \subseteq Nat
  BY <1>0, Open
<1>2. /\ c \in Edges /\ Front(c) = Top.path /\ Stand(Front(c), Top.docs)
      /\ Conforming => Collect(c, Top.docs) = Wanted(c)
  BY <1>0, TopNotYet
<1> HIDE DEF c
<1>3. NextRows(c, Top.docs) = <<>>
  BY <1>0, <1>1, <1>2, NoParentsNoRows
<1>4. stack' = Append(stack, Frame(c, NextRows(c, Top.docs)))
  BY <1>0, <1>3
<1>5. Conforming => FetcherMet(c)
  BY <1>0, <1>2 DEF FetcherMet
<1>6. PICK h : h = fetches
  OBVIOUS
<1>7. QED
  BY <1>0, <1>1, <1>4, <1>5, <1>6, PushAnswer DEF c

-----------------------------------------------------------------------------
\* An edge is resolved, at the innermost level or at the one below a finished level.
Resolves(n, c, rows, out) ==
    /\ n \in 1..Len(stack) /\ stack[n].phase = "edges" /\ stack[n].todo # <<>>
    /\ c = Append(stack[n].path, Head(stack[n].todo))
    /\ Answers(c, stack[n].docs, rows)
    /\ Gives(NaiveDocs[c], rows, out)
    /\ n < Len(stack) => /\ n = Len(stack) - 1 /\ stack[Len(stack)].todo = <<>>
                         /\ stack[Len(stack)].path = c
    /\ n = Len(stack) => EdgeOf(c).kind # "reverse" /\ Collect(c, stack[n].docs) = {}

\* An edge takes its values, or a policy objects to one of them.
LEMMA AttachAnswer ==
    ASSUME MInv, AnswerInv, status = "levels", NEW n, NEW c, NEW rows, NEW out,
           Resolves(n, c, rows, out), Attach(c, stack[n], SubSeq(stack, 1, n - 1), rows, out),
           UNCHANGED <<in, calls, fetches, ctxRows, served, spent>>
    PROVE  AnswerInv'
<1>0. /\ n \in 1..Len(stack) /\ stack[n].phase = "edges" /\ stack[n].todo # <<>>
      /\ c = Append(stack[n].path, Head(stack[n].todo))
      /\ Answers(c, stack[n].docs, rows)
      /\ Gives(NaiveDocs[c], rows, out)
      /\ n < Len(stack) => /\ n = Len(stack) - 1 /\ stack[Len(stack)].todo = <<>>
                           /\ stack[Len(stack)].path = c
      /\ n = Len(stack) => EdgeOf(c).kind # "reverse" /\ Collect(c, stack[n].docs) = {}
  BY DEF Resolves
<1>1. /\ in \in Inputs /\ calls \in 1..MaxCalls /\ Batches(fetches)
      /\ Levels(stack) /\ Chain(stack) /\ Judged(stack) /\ Len(stack) \in Nat
      /\ \A i \in 1..Len(fetches) : ~NotYet(stack, fetches[i].path)
      /\ Aligned(stack[n]) /\ IsLevel(stack[n])
      /\ \A m \in 1..Len(stack) : Aligned(stack[m])
      /\ {ctxRows', served', spent'} \subseteq Nat
  BY <1>0, Open
<1>2. PICK f : f = stack[n]
  OBVIOUS
<1>3. c \in Edges /\ Front(c) = f.path
  BY <1>0, <1>1, <1>2, TopEdge
<1>4. /\ Stand(Front(c), f.docs) /\ Answers(c, f.docs, rows)
      /\ Conforming => Range(f.docs) = Needed[Front(c)]
  BY <1>0, <1>1, <1>2, <1>3 DEF Aligned
<1>5. PICK h : h = fetches
  OBVIOUS
<1>6. CASE Faults(c, f, rows) # {}
  <2> DEFINE why == ForwardFault(c, f.docs[Min(Faults(c, f, rows))], Range(rows))
  <2>1. status' = why /\ stack' = <<>>
    BY <1>2, <1>6 DEF Attach, Fail
  <2>2. why \in PolicyFailures /\ (Conforming => why \in NaiveFaults)
    BY <1>1, <1>3, <1>4, <1>6, FaultsJudge
  <2> HIDE DEF why
  <2>3. PICK w : w = why
    OBVIOUS
  <2>4. /\ w \in Statuses /\ w \notin {"start", "levels", "ok", "contract"}
        /\ Conforming => w \in NaiveFaults
    BY <2>2, <2>3 DEF Statuses, Failures, PolicyFailures
  <2> DEFINE st == <<>>
  <2>5. stack' = st /\ (st = <<>> <=> w # "levels")
    BY <2>1, <2>4
  <2> HIDE DEF st
  <2>6. QED
    BY <1>1, <1>5, <2>1, <2>3, <2>4, <2>5, Carried
<1>7. CASE Faults(c, f, rows) = {}
  <2> DEFINE g == Attached(f, c, rows, out)
             t == Append(SubSeq(stack, 1, n - 1), g)
  <2>0. /\ f.todo # <<>> /\ f.phase = "edges" /\ c = Append(f.path, Head(f.todo))
        /\ Aligned(f) /\ IsLevel(f)
    BY <1>0, <1>1, <1>2
  <2>1. stack' = t /\ status' = "levels"
    BY <1>2, <1>7 DEF Attach, Attached
  <2>2. Aligned(g) /\ IsLevel(g) /\ Further(f, g)
    <3>1. Gives(NaiveDocs[c], rows, out)
      BY <1>0
    <3>2. in \in Inputs /\ Answers(c, f.docs, rows) /\ Faults(c, f, rows) = {}
      BY <1>1, <1>4, <1>7
    <3>3. IsAt(f, c) /\ Aligned(f) /\ IsLevel(f)
      BY <2>0 DEF IsAt
    <3>4. QED
      BY <3>1, <3>2, <3>3, AttachAligned
  <2> HIDE DEF g
  <2>2a. /\ g.path = f.path /\ g.docs = f.docs /\ g.phase = "edges" /\ g.todo = Tail(f.todo)
    BY <2>2 DEF Further
  <2>3. /\ Levels(t) /\ Len(t) = n /\ t[n] = g /\ \A m \in 1..(n - 1) : t[m] = stack[m]
    BY <1>0, <1>1, <1>2, <2>2, <2>2a, Replaced
  <2>4. t # <<>>
    BY <2>3 DEF Levels
  <2> HIDE DEF t
  <2>5. \A m \in 1..n : /\ Aligned(t[m]) /\ t[m].path = stack[m].path /\ t[m].docs = stack[m].docs
                        /\ m < n => t[m].todo = stack[m].todo
    <3>1. \A m \in 1..n : m = n \/ (m \in 1..(n - 1) /\ m \in 1..Len(stack))
      BY <1>0, <1>1
    <3>2. /\ Aligned(t[n]) /\ t[n].path = stack[n].path /\ t[n].docs = stack[n].docs
      BY <1>2, <2>2, <2>2a, <2>3
    <3>3. \A m \in 1..(n - 1) : t[m] = stack[m]
      BY <2>3
    <3>4. QED
      BY <1>1, <3>1, <3>2, <3>3
  <2>6. t[n].todo = Tail(stack[n].todo)
    BY <1>2, <2>2, <2>2a, <2>3
  <2>7. Chain(t)
    BY <1>0, <1>1, <2>3, <2>5, ChainKept
  <2>8. Conforming => NoFault(c)
    BY <1>1, <1>3, <1>4, <1>7, FaultsJudge
  <2>9. Resolved(stack, n, c, t)
    <3>1. n = Len(stack) => EdgeOf(c).kind # "reverse" /\ (Conforming => Wanted(c) = {})
      BY <1>0, <1>2, <1>4, WantedIsCollected
    <3>2. /\ \A m \in 1..n : t[m].path = stack[m].path /\ (m < n => t[m].todo = stack[m].todo)
          /\ Len(t) = n
      BY <2>3, <2>5
    <3>3. QED
      BY <1>0, <2>6, <3>1, <3>2 DEF Resolved
  <2>10. Judged(t)
    BY <1>1, <2>8, <2>9, JudgedAttached
  <2>11. ASSUME NEW q, NotYet(t, q) PROVE NotYet(stack, q)
    <3>1. /\ \A m \in 1..n : t[m].path = stack[m].path /\ (m < n => t[m].todo = stack[m].todo)
          /\ Len(t) = n
          /\ n < Len(stack) => n = Len(stack) - 1 /\ stack[Len(stack)].todo = <<>>
      BY <1>0, <2>3, <2>5
    <3>2. QED
      BY <1>0, <1>1, <2>6, <2>11, <3>1, GoesOn
  <2>12. PICK st : st = t
    OBVIOUS
  <2> DEFINE w == "levels"
  <2>13. w \in Statuses /\ w \notin {"start", "ok", "contract"} \cup PolicyFailures
    BY DEF Statuses, PolicyFailures
  <2> HIDE DEF w
  <2>14. stack' = st /\ status' = w /\ st # <<>> /\ Chain(st) /\ Judged(st) /\ w = "levels"
         /\ Batches(h) /\ fetches' = h
         /\ \A i \in 1..Len(h) : ~NotYet(st, h[i].path)
    BY <1>1, <1>5, <2>1, <2>4, <2>7, <2>10, <2>11, <2>12 DEF w
  <2>15. QED
    BY <1>1, <2>13, <2>14, Carried
<1>8. QED
  BY <1>6, <1>7

\* An edge nobody refers through takes its values and needs no fetcher.
LEMMA ResolveEmptyAnswer == ASSUME MInv, AnswerInv, ResolveEmpty PROVE AnswerInv'
<1> DEFINE c == ChildPath
<1>0. /\ status = "levels" /\ Top.phase = "edges" /\ Top.todo # <<>>
      /\ EdgeOf(c).kind # "reverse" /\ Collect(c, Top.docs) = {}
      /\ Attach(c, Top, Front(stack), <<>>, <<>>)
      /\ UNCHANGED <<in, calls, fetches, ctxRows, served, spent>>
  BY DEF ResolveEmpty, Resolving
<1>1. Len(stack) \in 1..Len(stack) /\ Len(stack) \in Nat /\ Top = stack[Len(stack)]
  BY <1>0, Open
<1>2. PICK n \in 1..Len(stack) : n = Len(stack)
  BY <1>1
<1>3. Top = stack[n] /\ Front(stack) = SubSeq(stack, 1, n - 1)
  BY <1>1, <1>2 DEF Front
<1>4. c = Append(stack[n].path, Head(stack[n].todo))
  BY <1>3 DEF ChildPath
<1> HIDE DEF c
<1>5. Answers(c, stack[n].docs, <<>>)
  BY <1>0, <1>3, NothingAnswers
<1> DEFINE none == <<>>
<1>6. Gives(NaiveDocs[c], none, none)
  BY DEF Gives
<1>7. /\ stack[n].phase = "edges" /\ stack[n].todo # <<>> /\ ~(n < Len(stack))
      /\ EdgeOf(c).kind # "reverse" /\ Collect(c, stack[n].docs) = {}
  BY <1>0, <1>1, <1>2, <1>3
<1>8. Attach(c, stack[n], SubSeq(stack, 1, n - 1), none, none) /\ Answers(c, stack[n].docs, none)
  BY <1>0, <1>3, <1>5
<1>9. Resolves(n, c, none, none)
  BY <1>2, <1>4, <1>6, <1>7, <1>8 DEF Resolves
<1> HIDE DEF none
<1>10. QED
  BY <1>0, <1>8, <1>9, AttachAnswer

\* A finished level gives the edge below its values; the root gives the answer.
LEMMA LevelDoneAnswer == ASSUME MInv, AnswerInv, LevelDone PROVE AnswerInv'
<1>0. /\ status = "levels" /\ Top.phase = "edges" /\ Top.todo = <<>>
      /\ UNCHANGED <<in, calls, fetches, ctxRows, served, spent>>
  BY DEF LevelDone
<1>1. /\ in \in Inputs /\ calls \in 1..MaxCalls /\ Batches(fetches)
      /\ Levels(stack) /\ Chain(stack) /\ Judged(stack) /\ Len(stack) \in Nat \ {0}
      /\ Top = stack[Len(stack)] /\ Last(stack) = Top /\ Aligned(Top)
      /\ \A m \in 1..Len(stack) : Aligned(stack[m])
      /\ {ctxRows', served', spent'} \subseteq Nat
  BY <1>0, Open
<1> DEFINE p == Top.path
           out == Assemble(Top)
<1>2. /\ p \in DOMAIN in.plan /\ Top.docs \in Seq(Rows)
      /\ out = [i \in DOMAIN Top.docs |-> NaiveDocs[p][Top.docs[i]]]
  <2>1. p \in DOMAIN in.plan /\ Top.docs \in Seq(Rows)
    BY <1>1 DEF Aligned, Stand
  <2>2. DOMAIN Top.vals = Range(Children(p))
    <3>1. Range(Top.todo) = {}
      BY <1>0 DEF Range
    <3>2. QED
      BY <1>1, <3>1 DEF Aligned
  <2>3. \A k \in DOMAIN Top.vals : Top.vals[k] = RightValue(p, Top.docs, k)
    BY <1>1 DEF Aligned
  <2>4. QED
    BY <1>1, <2>1, <2>2, <2>3, AssembleRight
<1> HIDE DEF p, out
<1>3. CASE Len(stack) = 1
  <2>1. result' = out /\ status' = "ok" /\ stack' = <<>>
    BY <1>3 DEF LevelDone, out
  <2>2. p = <<>> /\ Top = stack[1] /\ Top.docs = in.docs
    BY <1>1, <1>3, LastLevel DEF Chain, p
  <2>3. out = Naive
    BY <1>2, <2>2 DEF Naive
  <2>4. ASSUME NEW e \in Edges PROVE ~NotYet(stack, e) /\ ~OnStack(stack, e)
    <3>1. 1..Len(stack) = {1}
      BY <1>3
    <3>2. Todo(stack, 1) = {}
      BY <1>0, <2>2 DEF Todo, Range
    <3>3. e # <<>> /\ stack[1].path = <<>>
      BY <1>1, <2>2, EdgeFacts DEF p
    <3>4. QED
      BY <3>1, <3>2, <3>3 DEF NotYet, OnStack
  <2>5. Conforming => \A e \in Edges : FetcherMet(e) /\ NoFault(e)
    BY <1>1, <2>4 DEF Judged
  <2>6. PICK h : h = fetches
    OBVIOUS
  <2> DEFINE st == <<>>
             w == "ok"
  <2>7. w \in Statuses /\ w \notin {"start", "levels", "contract"} \cup PolicyFailures
    BY DEF Statuses, PolicyFailures
  <2>8. stack' = st /\ st = <<>> /\ status' = w /\ fetches' = h /\ Batches(h) /\ result' = Naive
    BY <1>0, <1>1, <2>1, <2>3, <2>6
  <2> HIDE DEF st, w
  <2>9. QED
    BY <1>0, <1>1, <2>5, <2>7, <2>8, Carried
<1>4. CASE Len(stack) # 1
  <2>0. Len(stack) - 1 \in 1..Len(stack)
    <3>1. \A k \in Nat \ {0} : k # 1 => k - 1 \in 1..k
      OBVIOUS
    <3>2. QED
      BY <1>1, <1>4, <3>1
  <2>1. PICK n \in 1..Len(stack) : n = Len(stack) - 1
    BY <2>0
  <2>2. /\ stack[n].phase = "edges" /\ Len(stack) - 2 = n - 1 /\ n < Len(stack)
        /\ n + 1 = Len(stack) /\ n # Len(stack)
    BY <1>1, <2>1 DEF Levels
  <2>3. Attach(p, stack[n], SubSeq(stack, 1, n - 1), Top.docs, out)
    BY <1>4, <2>1, <2>2 DEF LevelDone, p, out
  <2>4. Nested(stack[n], Top)
    BY <1>1, <2>2 DEF Chain
  <2>5. /\ stack[n].todo # <<>> /\ p = Append(stack[n].path, Head(stack[n].todo))
        /\ Top.docs = NextRows(p, stack[n].docs)
    BY <2>4 DEF Nested, p
  <2>6. Answers(p, stack[n].docs, Top.docs)
    <3>1. Aligned(stack[n])
      BY <1>1
    <3>2. p \in Edges /\ Front(p) = stack[n].path
      BY <1>1, <2>5, <3>1, TopEdge
    <3>3. Stand(Front(p), stack[n].docs)
      BY <3>1, <3>2 DEF Aligned
    <3>4. QED
      BY <1>1, <2>5, <3>2, <3>3, NextRowsAnswer
  <2>7. Gives(NaiveDocs[p], Top.docs, out)
    BY <1>2 DEF Gives
  <2>8. stack[Len(stack)].todo = <<>> /\ stack[Len(stack)].path = p
    BY <1>0, <1>1 DEF p
  <2>9. n < Len(stack) => /\ n = Len(stack) - 1 /\ stack[Len(stack)].todo = <<>>
                          /\ stack[Len(stack)].path = p
    BY <2>1, <2>8
  <2>10. Resolves(n, p, Top.docs, out)
    BY <2>1, <2>2, <2>5, <2>6, <2>7, <2>9 DEF Resolves
  <2>11. QED
    BY <1>0, <2>3, <2>10, AttachAnswer
<1>5. QED
  BY <1>3, <1>4

-----------------------------------------------------------------------------
\* A step that is none of the call's own.
LEMMA Stays ==
    ASSUME AnswerInv,
           UNCHANGED <<in, status, stack, ctxRows, result, fetches, served, spent, calls>>
    PROVE  AnswerInv'
<1>1. PICK st : st = stack
  OBVIOUS
<1>2. PICK h : h = fetches
  OBVIOUS
<1>3. PICK w : w = status
  OBVIOUS
<1>4. /\ in \in Inputs /\ calls \in 1..MaxCalls /\ w \in Statuses /\ Batches(h)
      /\ st = <<>> <=> w # "levels"
      /\ w = "start" => h = <<>>
      /\ w = "levels" => /\ Chain(st) /\ Judged(st)
                         /\ \A i \in 1..Len(h) : ~NotYet(st, h[i].path)
      /\ {ctxRows', served', spent'} \subseteq Nat
  BY <1>1, <1>2, <1>3 DEF AnswerInv
<1>5. /\ w = "ok" => /\ result' = Naive
                     /\ Conforming => \A e \in Edges : FetcherMet(e) /\ NoFault(e)
      /\ Conforming => /\ w \in PolicyFailures => w \in NaiveFaults
                       /\ w = "contract" => World.over
  BY <1>3 DEF AnswerInv, Verdict
<1>6. QED
  BY <1>1, <1>2, <1>3, <1>4, <1>5, Carried

\* Every step preserves the invariant.
LEMMA NextAnswer == MInv /\ AnswerInv /\ [Next]_vars => AnswerInv'
<1> SUFFICES ASSUME MInv, AnswerInv, [Next]_vars PROVE AnswerInv'
  OBVIOUS
<1>1. CASE UNCHANGED vars \/ Cancel
  BY <1>1, Stays DEF vars, Cancel
<1>2. CASE Hydrate
  BY <1>2, RootDocsAnswer, EnterAnswer, FetchEdgeAnswer, OpenEmptyAnswer, ResolveEmptyAnswer,
     LevelDoneAnswer DEF Hydrate
<1>3. QED
  BY <1>1, <1>2, NextCallAnswer DEF Next, Finished

\* The inductive invariants hold in every reachable state.
LEMMA AnswerInvariance == Spec => [](MInv /\ AnswerInv)
BY InitMInv, InitAnswer, NextKeeps, NextAnswer, PTL DEF Spec

-----------------------------------------------------------------------------
\* The open levels are aligned with the plan and their edges' values with their
\* documents, whatever the plan.
THEOREM TypesHold == Spec => []TypeOK
<1>1. ASSUME MInv, AnswerInv PROVE TypeOK
  <2>1. IsInput(in) /\ status \in Statuses /\ ((stack = <<>>) = (status # "levels"))
    BY <1>1, InputsAssumption DEF AnswerInv
  <2>2. ctxRows \in Nat /\ served \in Nat /\ spent \in Nat /\ late \in Nat /\ calls \in 1..MaxCalls
    BY <1>1 DEF AnswerInv, MInv, LateInv
  <2>3. ASSUME NEW n \in DOMAIN stack
        PROVE  /\ n = 1 => stack[n].path = <<>>
               /\ n > 1 => stack[n].path = Append(stack[n - 1].path, Head(stack[n - 1].todo))
               /\ Range(stack[n].docs) \subseteq Rows
               /\ \A r \in Range(stack[n].docs) : World.resource[r] = Node(stack[n].path).resource
               /\ \A k \in DOMAIN stack[n].vals : Len(stack[n].vals[k]) = Len(stack[n].docs)
               /\ stack[n].phase = "enter" => n = Len(stack) /\ stack[n].vals = <<>>
    <3>1. status = "levels"
      <4>1. stack # <<>>
        <5>1. DOMAIN <<>> = {}
          OBVIOUS
        <5>2. QED
          BY <2>3, <5>1
      <4>2. QED
        BY <1>1, <4>1 DEF AnswerInv
    <3>2. Levels(stack) /\ Chain(stack) /\ Len(stack) \in Nat \ {0}
      BY <1>1, <3>1, Open
    <3>3. n \in 1..Len(stack)
      <4>1. PICK S : stack \in Seq(S)
        BY <3>2 DEF Levels
      <4>2. QED
        BY <2>3, <4>1, LenProperties
    <3>4. PICK f : f = stack[n]
      OBVIOUS
    <3>5. Aligned(f) /\ f.docs \in Seq(Rows)
      BY <3>2, <3>3, <3>4 DEF Chain, Aligned, Stand
    <3>6. n = 1 => f.path = <<>>
      BY <3>2, <3>3, <3>4 DEF Levels
    <3>7. n > 1 => f.path = Append(stack[n - 1].path, Head(stack[n - 1].todo))
      <4>1. ASSUME n > 1
            PROVE  f.path = Append(stack[n - 1].path, Head(stack[n - 1].todo))
        <5>1. PICK m \in 1..Len(stack) : m = n - 1
          BY <3>2, <3>3, <4>1
        <5>2. Nested(stack[m], stack[m + 1])
          BY <3>2, <3>3, <5>1 DEF Chain
        <5>3. m + 1 = n
          BY <3>3, <5>1
        <5>4. QED
          BY <3>4, <5>1, <5>2, <5>3 DEF Nested
      <4>2. QED
        BY <4>1
    <3>8. Range(f.docs) \subseteq Rows /\ \A r \in Range(f.docs) : World.resource[r] = Node(f.path).resource
      BY <3>5, RangeOfSeq DEF Aligned, Stand, At
    <3>9. \A k \in DOMAIN f.vals : Len(f.vals[k]) = Len(f.docs)
      <4>1. ASSUME NEW k \in DOMAIN f.vals PROVE Len(f.vals[k]) = Len(f.docs)
        <5> DEFINE V(i) == NaiveValue(Append(f.path, k), f.docs[i], NaiveDocs[Append(f.path, k)])
                   v == [i \in DOMAIN f.docs |-> V(i)]
        <5>1. f.vals[k] = v
          BY <3>5, <4>1 DEF Aligned, RightValue, ValuesOf
        <5>2. DOMAIN f.docs = 1..Len(f.docs) /\ Len(f.docs) \in Nat
          BY <3>5, LenProperties
        <5> HIDE DEF V
        <5>3. DOMAIN v = 1..Len(f.docs)
          BY <5>2
        <5> HIDE DEF v
        <5>4. Len(v) = Len(f.docs)
          BY <5>2, <5>3
        <5>5. QED
          BY <5>1, <5>4
      <4>2. QED
        BY <4>1
    <3>10. f.phase = "enter" => n = Len(stack) /\ f.vals = <<>>
      <4>1. f.phase = "enter" => ~(n < Len(stack))
        BY <3>2, <3>3, <3>4 DEF Levels
      <4>2. QED
        BY <3>2, <3>3, <3>5, <4>1 DEF Aligned
    <3>11. QED
      BY <3>4, <3>6, <3>7, <3>8, <3>9, <3>10
  <2>4. QED
    BY <2>1, <2>2, <2>3 DEF TypeOK
<1>2. QED
  BY <1>1, AnswerInvariance, PTL

\* Level batching is invisible: the batches, the index and the windows of every
\* level give what resolving one document and one reference at a time would.
THEOREM BatchingIsInvisible == Spec => []BatchedEqualsNaive
<1>1. AnswerInv => BatchedEqualsNaive
  BY DEF AnswerInv, Verdict, BatchedEqualsNaive
<1>2. QED
  BY <1>1, AnswerInvariance, PTL

\* A policy that fails a call has its reason in the rows the call needed, and a
\* call that answers had none: every edge was judged for every row.
THEOREM FailuresHaveReasons == Spec => []FailsForAReason
<1>1. ASSUME AnswerInv PROVE FailsForAReason
  <2>1. ASSUME Conforming, status = "ok" PROVE NaiveFaults = {}
    <3> DEFINE F(p) == {ForwardFault(p, r, Rows \ World.hidden) : r \in Needed[Front(p)]}
               all == UNION {F(p) : p \in Edges}
    <3>1. NaiveFaults = all \ {"none"}
      BY DEF NaiveFaults
    <3>2. \A p \in Edges : F(p) \subseteq {"none"}
      BY <1>1, <2>1 DEF AnswerInv, Verdict, NoFault
    <3> HIDE DEF F
    <3>3. all \subseteq {"none"}
      BY <3>2
    <3> HIDE DEF all
    <3>4. QED
      BY <3>1, <3>3
  <2>2. QED
    BY <1>1, <2>1 DEF AnswerInv, Verdict, FailsForAReason, FetcherMet
<1>2. QED
  BY <1>1, AnswerInvariance, PTL

\* A batch asks once per edge, for all and only the ids its parents hold within
\* the limit and past the guard.
THEOREM BatchesAreWarranted == Spec => []FetchesAreWarranted
<1>1. ASSUME AnswerInv PROVE FetchesAreWarranted
  <2>1. Batches(fetches)
    BY <1>1 DEF AnswerInv
  <2>2. DOMAIN fetches = 1..Len(fetches)
    BY <2>1, LenProperties DEF Batches
  <2>3. QED
    BY <2>1, <2>2 DEF Batches, FetchesAreWarranted
<1>2. QED
  BY <1>1, AnswerInvariance, PTL

-----------------------------------------------------------------------------
\* The multiplier of an edge is a number, and a limited edge's is its limit.
LEMMA MultiplierFacts ==
    ASSUME in \in Inputs, NEW c \in DOMAIN in.plan \ {<<>>}
    PROVE  /\ Multiplier(Node(c)) \in Nat
           /\ EdgeOf(c).kind = "toOne" => Multiplier(Node(c)) = 1
           /\ EdgeOf(c).kind \in {"hasMany", "reverse"} /\ ~EdgeOf(c).bare =>
                 Limit(c) = Multiplier(Node(c)) /\ Limit(c) > 0
<1> DEFINE e == EdgeOf(c)
           a == Node(c).args
           ceiling == IF e.limit > 0 THEN e.limit ELSE DefaultLimit
           asked == Max({a.limit, 1})
<1>1. /\ e.kind \in Kinds /\ e.limit \in Nat /\ e.est \in Nat /\ e.bare \in BOOLEAN /\ a.limit \in Nat
      /\ Node(c).edge = e
  BY CallFacts DEF EdgeShape, EdgeOf, Node
<1>2. ceiling \in Nat /\ ceiling > 0
  BY <1>1 DEF DefaultLimit
<1>3. a.limit # 0 => asked \in Nat /\ asked > 0
  <2>1. PICK x : x = a.limit
    OBVIOUS
  <2>2. Max({x, 1}) \in {x, 1}
    BY <1>1, <2>1, MinMaxOfTwo
  <2>3. QED
    BY <1>1, <2>1, <2>2
<1>4. a.limit # 0 => Min({asked, ceiling}) \in {asked, ceiling}
  <2> HIDE DEF ceiling, asked
  <2>1. QED
    BY <1>2, <1>3, MinMaxOfTwo
<1>5. ResolvedLimit(e, a) \in Nat /\ ResolvedLimit(e, a) > 0
  <2>1. ResolvedLimit(e, a) = IF a.limit = 0 THEN ceiling ELSE Min({asked, ceiling})
    BY DEF ResolvedLimit
  <2> HIDE DEF ceiling, asked
  <2>2. QED
    BY <1>2, <1>3, <1>4, <2>1
<1> HIDE DEF e, a
<1>6. Multiplier(Node(c)) =
        CASE e.kind = "computed" -> 0
          [] e.kind = "toOne" -> 1
          [] e.kind = "inArray" \/ (e.kind \in ManyKinds /\ e.bare) ->
                 IF e.est > 0 THEN e.est ELSE DefaultEstimate
          [] OTHER -> ResolvedLimit(e, a)
  BY <1>1 DEF Multiplier, a
<1>7. Limit(c) = IF e.bare THEN 0 ELSE ResolvedLimit(e, a)
  BY DEF Limit, e, a
<1>8. CASE e.kind = "computed"
  BY <1>6, <1>8 DEF ManyKinds, e
<1>9. CASE e.kind = "toOne"
  BY <1>6, <1>9 DEF ManyKinds, e
<1>10. CASE e.kind = "inArray"
  BY <1>1, <1>6, <1>10 DEF DefaultEstimate, e
<1>11. CASE e.kind \in {"hasMany", "reverse"}
  <2>1. CASE e.bare
    BY <1>1, <1>6, <1>11, <2>1 DEF DefaultEstimate, ManyKinds, e
  <2>2. CASE ~e.bare
    BY <1>1, <1>5, <1>6, <1>7, <1>11, <2>2 DEF e
  <2>3. QED
    BY <2>1, <2>2
<1>12. QED
  BY <1>1, <1>8, <1>9, <1>10, <1>11 DEF Kinds

\* As estimated, no row brings more rows than the multiplier of the edge.
LEMMA RowsPerParent ==
    ASSUME in \in Inputs, AsEstimated, NEW c \in Edges, NEW r, At(Front(c), r)
    PROVE  /\ Forward(c) => Cardinality(Range(Collected(c, r))) <= Multiplier(Node(c))
           /\ EdgeOf(c).kind = "reverse" => Len(Kept(c, r)) <= Multiplier(Node(c))
<1> DEFINE m == Multiplier(Node(c))
           refs == Refs(c, r)
<1>1. c \in DOMAIN in.plan \ {<<>>} /\ r \in Rows /\ Limit(c) \in Nat
  BY EdgeFacts, LimitIsNatural DEF At
<1>2. /\ m \in Nat
      /\ EdgeOf(c).kind = "toOne" => m = 1
      /\ EdgeOf(c).kind \in {"hasMany", "reverse"} /\ ~EdgeOf(c).bare => Limit(c) = m /\ Limit(c) > 0
  BY <1>1, MultiplierFacts
<1>3. refs \in Seq(Rows \cup {NoId}) /\ Len(refs) \in Nat
  BY RefsFacts, LenProperties
<1>4. /\ EdgeOf(c).kind = "inArray" => Len(refs) <= m
      /\ EdgeOf(c).kind \in {"hasMany", "reverse"} /\ EdgeOf(c).bare => Len(refs) <= m
  BY <1>1 DEF AsEstimated, ManyKinds
<1>5. EdgeOf(c).kind = "toOne" => Len(refs) <= 1
  <2>1. IsInput(in) /\ World.resource[r] = in.plan[Front(c)].resource
    BY InputsAssumption DEF At, Node
  <2>2. QED
    BY <1>1, <2>1 DEF IsInput, Refs, World, EdgeOf
<1> HIDE DEF m, refs
<1>6. ASSUME NEW T, NEW s \in Seq(T), Len(s) <= Len(refs), EdgeOf(c).kind \in {"hasMany", "reverse"}
      PROVE  Trim(c, s) \in Seq(T) /\ Len(Trim(c, s)) <= m
  <2>1. /\ Trim(c, s) \in Seq(T) /\ Len(Trim(c, s)) \in Nat /\ Len(s) \in Nat
        /\ Limit(c) > 0 => Len(Trim(c, s)) <= Limit(c)
        /\ Limit(c) = 0 => Trim(c, s) = s
    BY <1>1, TrimFacts, LenProperties
  <2>2. EdgeOf(c).bare => Limit(c) = 0
    BY DEF Limit
  <2>3. CASE EdgeOf(c).bare
    BY <1>2, <1>3, <1>4, <1>6, <2>1, <2>2, <2>3
  <2>4. CASE ~EdgeOf(c).bare
    BY <1>2, <1>6, <2>1, <2>4
  <2>5. QED
    BY <2>3, <2>4
<1>7. ASSUME Forward(c) PROVE Cardinality(Range(Collected(c, r))) <= m
  <2>1. CASE EdgeOf(c).kind = "toOne"
    <3>1. Range(Collected(c, r)) \subseteq Range(refs)
      BY <1>3, <2>1, SelectedFacts DEF Collected, refs
    <3>2. IsFiniteSet(Range(refs)) /\ Cardinality(Range(refs)) <= Len(refs) /\ Cardinality(Range(refs)) \in Nat
      BY <1>3, RangeNoLarger
    <3>3. /\ Cardinality(Range(Collected(c, r))) <= Cardinality(Range(refs))
          /\ Cardinality(Range(Collected(c, r))) \in Nat
      BY <3>1, <3>2, FS_Subset, FS_CardinalityType
    <3>4. QED
      BY <1>2, <1>3, <1>5, <2>1, <3>2, <3>3
  <2>2. CASE EdgeOf(c).kind \in {"hasMany", "inArray"}
    <3>1. Collected(c, r) \in Seq(Rows \cup {NoId})
      BY CollectedFacts
    <3>2. EdgeOf(c).kind = "hasMany" => Collected(c, r) = Trim(c, refs)
      BY DEF Collected, refs
    <3>3. EdgeOf(c).kind = "inArray" => Collected(c, r) = refs
      BY DEF Collected, refs
    <3>4. Len(Collected(c, r)) <= m
      BY <1>3, <1>4, <1>6, <2>2, <3>2, <3>3
    <3>5. QED
      BY <1>2, <3>1, <3>4, RangeNoLarger
  <2>3. QED
    BY <1>7, <2>1, <2>2 DEF Forward
<1>8. ASSUME EdgeOf(c).kind = "reverse" PROVE Len(Kept(c, r)) <= m
  <2> DEFINE page == ByParent(c, r).rows
  <2>1. page = IF World.over THEN refs ELSE Trim(c, refs)
    BY DEF ByParent, refs, Refs
  <2>2. Trim(c, refs) \in Seq(Rows \cup {NoId}) /\ Len(Trim(c, refs)) <= Len(refs)
    <3>1. /\ Trim(c, refs) \in Seq(Rows \cup {NoId})
          /\ Limit(c) = 0 => Trim(c, refs) = refs
      BY <1>1, <1>3, TrimFacts
    <3>2. Limit(c) > 0 /\ Len(refs) > Limit(c) => Len(Trim(c, refs)) <= Limit(c)
      BY <1>1, <1>3, TrimFacts
    <3>3. ~(Limit(c) > 0 /\ Len(refs) > Limit(c)) => Trim(c, refs) = refs
      BY DEF Trim
    <3>4. Len(Trim(c, refs)) \in Nat
      BY <3>1, LenProperties
    <3>5. QED
      BY <1>1, <1>3, <3>1, <3>2, <3>3, <3>4
  <2>3. page \in Seq(Rows \cup {NoId}) /\ Len(page) <= Len(refs)
    BY <1>3, <2>1, <2>2
  <2>4. Kept(c, r) = Trim(c, page)
    BY DEF Kept
  <2> HIDE DEF page
  <2>5. QED
    BY <1>6, <1>8, <2>3, <2>4
<1>9. QED
  BY <1>7, <1>8 DEF m

\* As estimated, a level has at most the multiplier of its edge for every
\* document of the level above.
LEMMA NextRowsBounded ==
    ASSUME in \in Inputs, AsEstimated, NEW c \in Edges, NEW docs, Stand(Front(c), docs)
    PROVE  Len(NextRows(c, docs)) <= Len(docs) * Multiplier(Node(c))
<1> DEFINE m == Multiplier(Node(c))
<1>1. m \in Nat
  BY EdgeFacts, MultiplierFacts
<1>2. docs \in Seq(Rows) /\ \A r \in Range(docs) : At(Front(c), r)
  BY DEF Stand
<1>3. Len(docs) \in Nat /\ DOMAIN docs = 1..Len(docs)
  BY <1>2, LenProperties
<1>4. CASE Forward(c)
  <2> DEFINE n == Len(docs)
             F == [i \in 1..n |-> IF Guarded(c, docs[i]) THEN {} ELSE Range(Collected(c, docs[i])) \ {NoId}]
             back == ByIds(c, Collect(c, docs))
  <2>1. ASSUME NEW i \in 1..n PROVE F[i] \in SUBSET Rows /\ Cardinality(F[i]) <= m
    <3>1. docs[i] \in Range(docs)
      BY <1>3 DEF Range
    <3>2. At(Front(c), docs[i])
      BY <1>2, <3>1
    <3>3. Cardinality(Range(Collected(c, docs[i]))) <= m /\ Collected(c, docs[i]) \in Seq(Rows \cup {NoId})
      BY <1>4, <3>2, RowsPerParent, CollectedFacts
    <3> DEFINE R == Range(Collected(c, docs[i]))
    <3>4. IsFiniteSet(R) /\ Cardinality(R) \in Nat /\ R \subseteq Rows \cup {NoId}
      BY <3>3, RangeNoLarger, RangeOfSeq
    <3>5. (F[i] = {} \/ F[i] = R \ {NoId}) /\ Cardinality(R) <= m
      BY <3>3
    <3> HIDE DEF R, F, m
    <3>6. Cardinality(R \ {NoId}) <= Cardinality(R) /\ Cardinality(R \ {NoId}) \in Nat
      BY <3>4, FS_Subset, FS_CardinalityType
    <3>7. F[i] \in SUBSET Rows
      BY <3>4, <3>5
    <3>8. CASE F[i] = {}
      <4>1. Cardinality(F[i]) = 0
        BY <3>8, FS_EmptySet
      <4>2. QED
        BY <1>1, <3>7, <4>1
    <3>9. CASE F[i] = R \ {NoId}
      <4>1. Cardinality(F[i]) = Cardinality(R \ {NoId})
        BY <3>9
      <4>2. QED
        BY <1>1, <3>4, <3>5, <3>6, <3>7, <4>1
    <3>10. QED
      BY <3>5, <3>8, <3>9
  <2>2. F \in [1..n -> SUBSET Rows]
    BY <2>1
  <2>3. back \subseteq UNION {F[i] : i \in 1..n}
    <3>1. ASSUME NEW t \in back PROVE \E i \in 1..n : t \in F[i]
      <4>1. t \in Collect(c, docs)
        BY DEF ByIds, AsEstimated, Conforming
      <4>2. PICK r \in Range(docs) : t # NoId /\ ~Guarded(c, r) /\ t \in Range(Collected(c, r))
        BY <4>1, CollectFacts
      <4>3. PICK i \in 1..n : docs[i] = r
        BY <1>3 DEF Range
      <4>4. QED
        BY <4>2, <4>3
    <3> HIDE DEF F, back
    <3>2. QED
      BY <3>1
  <2>4. NextRows(c, docs) = SetToSeq(back) /\ IsFiniteSet(back)
    BY <1>2, <1>4, ByIdsFacts DEF NextRows, Forward
  <2> DEFINE all == UNION {F[i] : i \in 1..n}
  <2> HIDE DEF F, back
  <2>5. Cardinality(all) <= n * m
    BY <1>1, <1>3, <2>1, <2>2, RowsAssumption, UnionBounded
  <2>6. all \subseteq Rows
    BY <2>2
  <2> HIDE DEF all
  <2>7. IsFiniteSet(all) /\ Cardinality(all) \in Nat
    BY <2>6, RowsAssumption, FS_Subset, FS_CardinalityType
  <2>8. Cardinality(back) <= Cardinality(all) /\ Cardinality(back) \in Nat
    BY <2>3, <2>4, <2>7, FS_Subset, FS_CardinalityType DEF all
  <2>9. n * m \in Nat
    BY <1>1, <1>3
  <2>10. Len(NextRows(c, docs)) = Cardinality(back)
    BY <2>4, SetToSeqLen
  <2> HIDE DEF m, n
  <2>11. Len(NextRows(c, docs)) <= n * m
    BY <2>5, <2>7, <2>8, <2>9, <2>10
  <2>12. QED
    BY <2>11 DEF m, n
<1>5. CASE EdgeOf(c).kind = "reverse"
  <2> DEFINE ps == Parents(c, docs)
             ss == Pages(c, ps)
             ends == Ends(c, ps)
  <2>1. /\ ss \in Seq(Seq(Rows)) /\ Len(ss) = Len(ps)
        /\ \A i \in 1..Len(ps) : ss[i] = Kept(c, ps[i]) /\ ps[i] \in Range(docs)
        /\ EndsOf(ends, ss) /\ NextRows(c, docs) = FlattenSeq(ss)
    BY <1>5, PagesFacts
  <2>2. ps \in Seq(Rows) /\ IsInjective(ps) /\ Range(ps) \subseteq Range(docs)
    BY <1>2, ParentsFacts
  <2>3. Len(ps) <= Len(docs) /\ Len(ps) \in Nat
    BY <1>2, <2>2, DistinctNoLonger, LenProperties
  <2>4. \A i \in 1..Len(ss) : Len(ss[i]) <= m
    BY <1>2, <1>5, <2>1, RowsPerParent
  <2> HIDE DEF m, ss, ps, ends
  <2>5. ends[Len(ss)] <= Len(ss) * m
    BY <1>1, <2>1, <2>4, EndsBounded
  <2>6. Len(FlattenSeq(ss)) = ends[Len(ss)] /\ Len(FlattenSeq(ss)) \in Nat
    BY <2>1, FlattenFacts, LenProperties
  <2>7. Len(ss) * m <= Len(docs) * m /\ Len(ss) * m \in Nat /\ Len(docs) * m \in Nat
    BY <1>1, <1>3, <2>1, <2>3, ProductGrows
  <2>8. Len(NextRows(c, docs)) <= Len(docs) * m
    BY <2>1, <2>5, <2>6, <2>7
  <2>9. QED
    BY <2>8 DEF m
<1>6. QED
  BY <1>4, <1>5, EdgeFacts

-----------------------------------------------------------------------------
\* The rows of the nodes on the way to p: what it takes for rows to be the value
\* of the recursion in RowsOf.
RowsSteps(rows, pl, p, half) ==
    rows = [n \in 0..Len(p) |->
               IF n = 0 THEN 1
               ELSE InWidth(rows[n - 1] * Multiplier(pl[SubSeq(p, 1, n)]), half)]

\* The prefixes of a node's path are nodes.
LEMMA PrefixIsNode ==
    ASSUME in \in Inputs, NEW p \in DOMAIN in.plan, p # <<>>
    PROVE  /\ p \in Seq(Keys) /\ Len(p) \in Nat \ {0}
           /\ Front(p) \in DOMAIN in.plan /\ Front(p) \in Seq(Keys)
           /\ Len(Front(p)) = Len(p) - 1
           /\ SubSeq(p, 1, Len(p)) = p
           /\ \A n \in 0..(Len(p) - 1) : SubSeq(Front(p), 1, n) = SubSeq(p, 1, n)
<1>1. p \in Seq(Keys) /\ Front(p) \in DOMAIN in.plan
  BY CallFacts
<1>2. /\ Len(p) \in Nat \ {0} /\ Front(p) \in Seq(Keys) /\ Len(Front(p)) = Len(p) - 1
      /\ \A i \in 1..(Len(p) - 1) : Front(p)[i] = p[i]
  BY <1>1, FrontFacts
<1>3. SubSeq(p, 1, Len(p)) = p
  BY <1>1, SubSeqFull
<1>4. ASSUME NEW n \in 0..(Len(p) - 1) PROVE SubSeq(Front(p), 1, n) = SubSeq(p, 1, n)
  <2> DEFINE a == SubSeq(Front(p), 1, n)
             b == SubSeq(p, 1, n)
  <2>1. n \in 0..Len(Front(p)) /\ n \in 0..Len(p)
    BY <1>2
  <2>2. /\ a \in Seq(Keys) /\ Len(a) = n /\ \A i \in 1..n : a[i] = Front(p)[i]
        /\ b \in Seq(Keys) /\ Len(b) = n /\ \A i \in 1..n : b[i] = p[i]
    BY <1>1, <1>2, <2>1, PrefixFacts
  <2>3. \A i \in 1..n : a[i] = b[i]
    BY <1>2, <2>2
  <2> HIDE DEF a, b
  <2>4. a = b
    BY <2>2, <2>3, SeqEqual
  <2>5. QED
    BY <2>4 DEF a, b
<1>5. QED
  BY <1>1, <1>2, <1>3, <1>4

\* The multipliers on a node's path are numbers.
LEMMA PathMultipliers ==
    ASSUME in \in Inputs, NEW p \in DOMAIN in.plan
    PROVE  /\ p \in Seq(Keys) /\ Len(p) \in Nat
           /\ \A n \in 1..Len(p) : Multiplier(in.plan[SubSeq(p, 1, n)]) \in Nat
<1> DEFINE T == {k \in Nat : \A q \in DOMAIN in.plan : Len(q) = k =>
                    \A n \in 1..k : SubSeq(q, 1, n) \in DOMAIN in.plan}
<1>0. \A q \in DOMAIN in.plan : q \in Seq(Keys) /\ Len(q) \in Nat
  BY CallFacts, LenProperties
<1>1. 0 \in T
  OBVIOUS
<1>2. ASSUME NEW k \in Nat, k \in T PROVE k + 1 \in T
  <2>1. ASSUME NEW q \in DOMAIN in.plan, Len(q) = k + 1, NEW n \in 1..(k + 1)
        PROVE  SubSeq(q, 1, n) \in DOMAIN in.plan
    <3>1. q # <<>>
      BY <2>1
    <3>0. /\ Front(q) \in DOMAIN in.plan /\ Len(Front(q)) = Len(q) - 1
          /\ SubSeq(q, 1, Len(q)) = q
          /\ \A j \in 0..(Len(q) - 1) : SubSeq(Front(q), 1, j) = SubSeq(q, 1, j)
      BY <3>1, PrefixIsNode
    <3>2. /\ Front(q) \in DOMAIN in.plan /\ Len(Front(q)) = k
          /\ SubSeq(q, 1, Len(q)) = q
          /\ \A j \in 0..(Len(q) - 1) : SubSeq(Front(q), 1, j) = SubSeq(q, 1, j)
      BY <2>1, <3>0
    <3>3. CASE n = k + 1
      BY <2>1, <3>2, <3>3
    <3>4. CASE n # k + 1
      <4>1. n \in 1..k /\ n \in 0..(Len(q) - 1)
        BY <2>1, <3>4
      <4>2. SubSeq(Front(q), 1, n) \in DOMAIN in.plan
        BY <1>2, <3>2, <4>1
      <4>3. QED
        BY <3>2, <4>1, <4>2
    <3>5. QED
      BY <3>3, <3>4
  <2>2. QED
    BY <2>1
<1>3. Nat \subseteq T
  <2> HIDE DEF T
  <2>1. QED
    BY <1>1, <1>2, NaturalsByStep
<1>4. ASSUME NEW n \in 1..Len(p) PROVE Multiplier(in.plan[SubSeq(p, 1, n)]) \in Nat
  <2> DEFINE q == SubSeq(p, 1, n)
  <2>1. q \in DOMAIN in.plan
    BY <1>0, <1>3
  <2>2. q # <<>>
    <3>1. n \in 0..Len(p) /\ n # 0
      BY <1>0
    <3>2. Len(q) = n
      BY <1>0, <3>1, PrefixFacts
    <3> HIDE DEF q
    <3>3. QED
      BY <3>1, <3>2
  <2> HIDE DEF q
  <2>3. Multiplier(Node(q)) \in Nat
    BY <2>1, <2>2, MultiplierFacts
  <2>4. QED
    BY <2>3 DEF Node, q
<1>5. QED
  BY <1>0, <1>4

\* A machine integer is one, whatever was computed.
LEMMA WidthFacts ==
    ASSUME NEW x \in Int
    PROVE  /\ InWidth(x, 0) = x /\ InWidth(x, IntHalf) \in Int
           /\ 0 <= x /\ x < IntHalf => InWidth(x, IntHalf) = x
<1>1. IntHalf \in Nat \ {0}
  BY IntHalfAssumption
<1>2. InWidth(x, 0) = x
  BY DEF InWidth
<1>3. InWidth(x, IntHalf) = ((x + IntHalf) % (2 * IntHalf)) - IntHalf
  BY <1>1 DEF InWidth
<1>4. (x + IntHalf) % (2 * IntHalf) \in Int
  BY <1>1
<1>5. ASSUME 0 <= x, x < IntHalf PROVE (x + IntHalf) % (2 * IntHalf) = x + IntHalf
  <2>1. PICK a \in Nat : a = x + IntHalf
    BY <1>1, <1>5
  <2>2. PICK b \in Nat : b = 2 * IntHalf
    BY <1>1
  <2>3. a < b /\ b > 0
    BY <1>1, <1>5, <2>1, <2>2
  <2>4. a % b = a
    BY <2>3
  <2>5. QED
    BY <2>1, <2>2, <2>4
<1>6. QED
  BY <1>1, <1>2, <1>3, <1>4, <1>5

\* RowsOf is the value of the recursion.
LEMMA RowsExist ==
    ASSUME in \in Inputs, NEW p \in DOMAIN in.plan, NEW half \in {0, IntHalf}
    PROVE  \E rows \in [0..Len(p) -> Int] :
              RowsSteps(rows, in.plan, p, half) /\ RowsOf(in.plan, p, half) = rows[Len(p)]
<1> DEFINE L == Len(p)
           step == [n \in 1..L |-> [v \in Int |-> InWidth(v * Multiplier(in.plan[SubSeq(p, 1, n)]), half)]]
<1>1. L \in Nat /\ \A n \in 1..L : Multiplier(in.plan[SubSeq(p, 1, n)]) \in Nat
  BY PathMultipliers
<1>2. step \in [1..L -> [Int -> Int]]
  <2>1. ASSUME NEW n \in 1..L, NEW v \in Int
        PROVE  InWidth(v * Multiplier(in.plan[SubSeq(p, 1, n)]), half) \in Int
    <3>1. v * Multiplier(in.plan[SubSeq(p, 1, n)]) \in Int
      BY <1>1
    <3>2. QED
      BY <3>1, WidthFacts
  <2>2. QED
    BY <2>1
<1>3. \E g \in [0..L -> Int] : Stepwise(g, L, 1, step)
  <2>1. 1 \in Int
    OBVIOUS
  <2> HIDE DEF L, step
  <2>2. QED
    BY <1>1, <1>2, <2>1, StepwiseExists
<1>4. PICK g \in [0..L -> Int] : Stepwise(g, L, 1, step)
  BY <1>3
<1>5. \A n \in 0..L : n # 0 => n \in 1..L /\ n - 1 \in 0..L
  BY <1>1
<1>6. g = [n \in 0..L |-> IF n = 0 THEN 1 ELSE InWidth(g[n - 1] * Multiplier(in.plan[SubSeq(p, 1, n)]), half)]
  <2>1. g = [n \in 0..L |-> IF n = 0 THEN 1 ELSE step[n][g[n - 1]]]
    BY <1>4 DEF Stepwise
  <2>2. \A n \in 0..L : n # 0 => step[n][g[n - 1]] = InWidth(g[n - 1] * Multiplier(in.plan[SubSeq(p, 1, n)]), half)
    BY <1>5
  <2> HIDE DEF step, L
  <2>3. QED
    BY <2>1, <2>2
<1>7. RowsSteps(g, in.plan, p, half)
  BY <1>6 DEF RowsSteps
<1> DEFINE c == CHOOSE f : RowsSteps(f, in.plan, p, half)
<1>8. RowsSteps(c, in.plan, p, half)
  BY <1>7
<1>9. RowsOf(in.plan, p, half) = c[Len(p)]
  BY DEF RowsOf, RowsSteps
<1> HIDE DEF c, step
<1>10. \A n \in 0..L : c[n] = IF n = 0 THEN 1 ELSE InWidth(c[n - 1] * Multiplier(in.plan[SubSeq(p, 1, n)]), half)
  BY <1>8 DEF RowsSteps
<1> DEFINE T == {n \in 0..L : c[n] \in Int}
<1>11. 0 \in T
  BY <1>1, <1>10
<1>12. ASSUME NEW n \in 0..(L - 1), n \in T PROVE n + 1 \in T
  <2>1. n + 1 \in 0..L /\ n + 1 \in 1..L /\ (n + 1) - 1 = n /\ n + 1 # 0
    BY <1>1
  <2>2. c[n + 1] = InWidth(c[n] * Multiplier(in.plan[SubSeq(p, 1, n + 1)]), half)
    BY <1>10, <2>1
  <2>3. c[n] * Multiplier(in.plan[SubSeq(p, 1, n + 1)]) \in Int
    BY <1>1, <1>12, <2>1
  <2>4. QED
    BY <2>1, <2>2, <2>3, WidthFacts
<1>13. 0..L \subseteq T
  <2> HIDE DEF T, L
  <2>1. QED
    BY <1>1, <1>11, <1>12, IntervalByStep
<1>14. c \in [0..L -> Int]
  <2>1. c = [n \in 0..L |-> IF n = 0 THEN 1 ELSE InWidth(c[n - 1] * Multiplier(in.plan[SubSeq(p, 1, n)]), half)]
    BY <1>8 DEF RowsSteps
  <2>2. \A n \in 0..L : c[n] \in Int
    BY <1>13
  <2> HIDE DEF L
  <2>3. QED
    BY <2>1, <2>2
<1>15. QED
  BY <1>8, <1>9, <1>14

\* The rows of a node from those of the node above it.
LEMMA RowsByStep ==
    ASSUME in \in Inputs, NEW half \in {0, IntHalf}
    PROVE  /\ RowsOf(in.plan, <<>>, half) = 1
           /\ \A p \in DOMAIN in.plan : RowsOf(in.plan, p, half) \in Int
           /\ \A p \in DOMAIN in.plan \ {<<>>} :
                 RowsOf(in.plan, p, half) = InWidth(RowsOf(in.plan, Front(p), half) * Multiplier(Node(p)), half)
<1>1. RowsOf(in.plan, <<>>, half) = 1
  <2> DEFINE none == <<>>
  <2>1. none \in DOMAIN in.plan /\ Len(none) = 0
    BY CallFacts
  <2> HIDE DEF none
  <2>2. PICK g : RowsSteps(g, in.plan, none, half) /\ RowsOf(in.plan, none, half) = g[Len(none)]
    BY <2>1, RowsExist
  <2>3. g[0] = 1
    BY <2>1, <2>2 DEF RowsSteps
  <2>4. QED
    BY <2>1, <2>2, <2>3 DEF none
<1>2. ASSUME NEW p \in DOMAIN in.plan PROVE RowsOf(in.plan, p, half) \in Int
  <2>1. PICK g \in [0..Len(p) -> Int] : RowsOf(in.plan, p, half) = g[Len(p)]
    BY RowsExist
  <2>2. Len(p) \in 0..Len(p)
    BY PathMultipliers
  <2>3. QED
    BY <2>1, <2>2
<1>3. ASSUME NEW p \in DOMAIN in.plan, p # <<>>
      PROVE  RowsOf(in.plan, p, half) = InWidth(RowsOf(in.plan, Front(p), half) * Multiplier(Node(p)), half)
  <2> DEFINE q == Front(p)
             L == Len(q)
  <2>1. /\ q \in DOMAIN in.plan /\ Len(p) = L + 1 /\ L \in Nat /\ SubSeq(p, 1, Len(p)) = p
        /\ \A n \in 0..L : SubSeq(q, 1, n) = SubSeq(p, 1, n)
    BY <1>3, PrefixIsNode
  <2> HIDE DEF q
  <2>2. PICK g : RowsSteps(g, in.plan, p, half) /\ RowsOf(in.plan, p, half) = g[Len(p)]
    BY RowsExist
  <2>3. PICK h : RowsSteps(h, in.plan, q, half) /\ RowsOf(in.plan, q, half) = h[L]
    BY <2>1, RowsExist
  <2>4. \A n \in 0..(L + 1) : g[n] = IF n = 0 THEN 1 ELSE InWidth(g[n - 1] * Multiplier(in.plan[SubSeq(p, 1, n)]), half)
    BY <2>1, <2>2 DEF RowsSteps
  <2>5. \A n \in 0..L : h[n] = IF n = 0 THEN 1 ELSE InWidth(h[n - 1] * Multiplier(in.plan[SubSeq(q, 1, n)]), half)
    BY <2>3 DEF RowsSteps
  <2> DEFINE T == {n \in 0..L : g[n] = h[n]}
  <2>6. 0 \in T
    BY <2>1, <2>4, <2>5
  <2>7. ASSUME NEW n \in 0..(L - 1), n \in T PROVE n + 1 \in T
    <3>1. n + 1 \in 0..L /\ n + 1 \in 0..(L + 1) /\ n + 1 # 0 /\ (n + 1) - 1 = n
      BY <2>1
    <3>2. g[n + 1] = InWidth(g[n] * Multiplier(in.plan[SubSeq(p, 1, n + 1)]), half)
      BY <2>4, <3>1
    <3>3. h[n + 1] = InWidth(h[n] * Multiplier(in.plan[SubSeq(q, 1, n + 1)]), half)
      BY <2>5, <3>1
    <3>4. QED
      BY <2>1, <2>7, <3>1, <3>2, <3>3
  <2>8. 0..L \subseteq T
    <3> HIDE DEF T, L
    <3>1. QED
      BY <2>1, <2>6, <2>7, IntervalByStep
  <2>9. g[L] = h[L]
    BY <2>1, <2>8
  <2>10. g[L + 1] = InWidth(g[L] * Multiplier(in.plan[SubSeq(p, 1, L + 1)]), half)
    <3>1. L + 1 \in 0..(L + 1) /\ L + 1 # 0 /\ (L + 1) - 1 = L
      BY <2>1
    <3>2. QED
      BY <2>4, <3>1
  <2>11. SubSeq(p, 1, L + 1) = p
    BY <2>1
  <2>12. QED
    BY <2>1, <2>2, <2>3, <2>9, <2>10, <2>11 DEF Node, q
<1>4. QED
  BY <1>1, <1>2, <1>3

-----------------------------------------------------------------------------
\* The exact rows of the nodes of a plan, and a plan whose exact cost is a
\* machine integer.
Exact(pl) == [p \in DOMAIN pl |-> RowsOf(pl, p, 0)]
Fits == CostIn(in.plan, 0) < IntHalf

\* The exact rows are numbers, the root being one.
LEMMA ExactFacts ==
    ASSUME in \in Inputs
    PROVE  /\ Exact(in.plan) \in [DOMAIN in.plan -> Nat]
           /\ Exact(in.plan)[<<>>] = 1
           /\ \A p \in DOMAIN in.plan \ {<<>>} :
                 Exact(in.plan)[p] = Exact(in.plan)[Front(p)] * Multiplier(Node(p))
           /\ CostIn(in.plan, 0) = SumFunctionOnSet(Exact(in.plan), DOMAIN in.plan)
           /\ CostIn(in.plan, 0) \in Nat
<1> DEFINE R(p) == RowsOf(in.plan, p, 0)
           T == {k \in Nat : \A p \in DOMAIN in.plan : Len(p) = k => R(p) \in Nat}
<1>1. /\ R(<<>>) = 1
      /\ \A p \in DOMAIN in.plan \ {<<>>} : R(p) = InWidth(R(Front(p)) * Multiplier(Node(p)), 0)
  <2>1. 0 \in {0, IntHalf}
    OBVIOUS
  <2>2. QED
    BY <2>1, RowsByStep
<1>2. \A p \in DOMAIN in.plan : p \in Seq(Keys) /\ Len(p) \in Nat /\ (Len(p) = 0 => p = <<>>)
  BY CallFacts, LenProperties, EmptySeq
<1>3. \A p \in DOMAIN in.plan \ {<<>>} : R(p) = R(Front(p)) * Multiplier(Node(p))
  BY <1>1 DEF InWidth
<1> HIDE DEF R
<1>4. 0 \in T
  BY <1>1, <1>2
<1>5. ASSUME NEW k \in Nat, k \in T PROVE k + 1 \in T
  <2>1. ASSUME NEW p \in DOMAIN in.plan, Len(p) = k + 1 PROVE R(p) \in Nat
    <3>1. p # <<>>
      BY <2>1
    <3>2. Front(p) \in DOMAIN in.plan /\ Len(Front(p)) = Len(p) - 1
      BY <3>1, PrefixIsNode
    <3>3. Len(Front(p)) = k
      BY <2>1, <3>2
    <3>4. R(Front(p)) \in Nat
      BY <1>5, <3>2, <3>3
    <3>5. Multiplier(Node(p)) \in Nat
      BY <3>1, MultiplierFacts
    <3>6. R(p) = R(Front(p)) * Multiplier(Node(p))
      BY <1>3, <3>1
    <3>7. QED
      BY <3>4, <3>5, <3>6
  <2>2. QED
    BY <2>1
<1>6. Nat \subseteq T
  <2> HIDE DEF T
  <2>1. QED
    BY <1>4, <1>5, NaturalsByStep
<1>7. \A p \in DOMAIN in.plan : R(p) \in Nat
  BY <1>2, <1>6
<1>8. \A p \in DOMAIN in.plan : Exact(in.plan)[p] = R(p)
  BY DEF Exact, R
<1>9. Exact(in.plan) \in [DOMAIN in.plan -> Nat]
  BY <1>7 DEF Exact, R
<1>10. <<>> \in DOMAIN in.plan /\ IsFiniteSet(DOMAIN in.plan)
       /\ \A p \in DOMAIN in.plan \ {<<>>} : Front(p) \in DOMAIN in.plan
  BY CallFacts
<1>11. SumFunctionOnSet(Exact(in.plan), DOMAIN in.plan) \in Nat
  BY <1>9, <1>10, SumFacts
<1>12. CostIn(in.plan, 0) = SumFunctionOnSet(Exact(in.plan), DOMAIN in.plan)
  BY DEF CostIn, InWidth, Exact
<1>13. QED
  BY <1>1, <1>3, <1>8, <1>9, <1>10, <1>11, <1>12

\* An estimate that fits a machine integer is computed exactly.
LEMMA CostIsExact ==
    ASSUME in \in Inputs, Fits
    PROVE  Cost(in.plan) = CostIn(in.plan, 0) /\ Cost(in.plan) > 0
<1> DEFINE D == DOMAIN in.plan
           R(p) == RowsOf(in.plan, p, IntHalf)
           E == Exact(in.plan)
           C == CostIn(in.plan, 0)
           T == {k \in Nat : \A p \in DOMAIN in.plan : Len(p) = k => R(p) = E[p]}
<1>1. /\ R(<<>>) = 1
      /\ \A p \in D \ {<<>>} : R(p) = InWidth(R(Front(p)) * Multiplier(Node(p)), IntHalf)
  <2>1. IntHalf \in {0, IntHalf}
    OBVIOUS
  <2>2. QED
    BY <2>1, RowsByStep
<1>2. /\ E \in [D -> Nat] /\ E[<<>>] = 1 /\ C \in Nat /\ C = SumFunctionOnSet(E, D)
      /\ \A p \in D \ {<<>>} : E[p] = E[Front(p)] * Multiplier(Node(p))
  BY ExactFacts
<1>3. IsFiniteSet(D) /\ <<>> \in D
  BY CallFacts
<1> HIDE DEF E
<1>4. \A p \in D : E[p] <= C /\ E[p] \in Nat
  BY <1>2, <1>3, TermInSum
<1>5. C < IntHalf /\ IntHalf \in Nat
  BY IntHalfAssumption DEF Fits
<1> HIDE DEF R, C
<1>6. \A p \in D : p \in Seq(Keys) /\ Len(p) \in Nat /\ (Len(p) = 0 => p = <<>>)
  BY CallFacts, LenProperties, EmptySeq
<1>7. 0 \in T
  BY <1>1, <1>2, <1>6
<1>8. ASSUME NEW k \in Nat, k \in T PROVE k + 1 \in T
  <2>1. ASSUME NEW p \in D, Len(p) = k + 1 PROVE R(p) = E[p]
    <3>1. p # <<>>
      BY <2>1
    <3>2. Front(p) \in D /\ Len(Front(p)) = Len(p) - 1
      BY <3>1, PrefixIsNode
    <3>3. Len(Front(p)) = k
      BY <2>1, <3>2
    <3>4. R(Front(p)) = E[Front(p)]
      BY <1>8, <3>2, <3>3
    <3>5. R(p) = InWidth(E[p], IntHalf)
      BY <1>1, <1>2, <3>1, <3>4
    <3>6. E[p] \in Int /\ 0 <= E[p] /\ E[p] < IntHalf
      BY <1>2, <1>4, <1>5
    <3>7. QED
      BY <3>5, <3>6, WidthFacts
  <2>2. QED
    BY <2>1
<1>9. Nat \subseteq T
  <2> HIDE DEF T
  <2>1. QED
    BY <1>7, <1>8, NaturalsByStep
<1>10. \A p \in D : R(p) = E[p]
  BY <1>6, <1>9
<1>11. [p \in D |-> R(p)] = E
  BY <1>2, <1>10
<1>12. [p \in DOMAIN in.plan |-> RowsOf(in.plan, p, IntHalf)] = E
  BY <1>11 DEF R
<1>13. Cost(in.plan) = InWidth(C, IntHalf)
  BY <1>2, <1>12 DEF Cost, CostIn
<1>14. C > 0
  BY <1>2, <1>3, <1>4
<1>15. InWidth(C, IntHalf) = C
  BY <1>2, <1>5, WidthFacts
<1>16. QED
  BY <1>13, <1>14, <1>15 DEF C

\* As estimated, each open level is within the exact rows of its node for every
\* root document.
LEMMA LevelsEstimated ==
    ASSUME in \in Inputs, AsEstimated, NEW s, Levels(s), Chain(s)
    PROVE  \A n \in 1..Len(s) : Len(s[n].docs) <= Len(in.docs) * Exact(in.plan)[s[n].path]
<1> DEFINE E == Exact(in.plan)
           D == Len(in.docs)
           L == Len(s)
           T == {n \in 0..L : n # 0 => Len(s[n].docs) <= D * E[s[n].path]}
<1>1. /\ E \in [DOMAIN in.plan -> Nat] /\ E[<<>>] = 1
      /\ \A p \in DOMAIN in.plan \ {<<>>} : E[p] = E[Front(p)] * Multiplier(Node(p))
  BY ExactFacts
<1> HIDE DEF E
<1>2. D \in Nat
  BY CallFacts, LenProperties
<1>3. L \in Nat \ {0} /\ s[1].path = <<>> /\ s[1].docs = in.docs
  <2>1. L \in Nat \ {0}
    BY LastLevel
  <2>2. 1 \in 1..L
    BY <2>1
  <2>3. QED
    BY <2>1, <2>2 DEF Levels, Chain
<1>4. \A n \in 1..L : Aligned(s[n])
  BY DEF Chain
<1>5. 0 \in T
  BY <1>3
<1>6. ASSUME NEW n \in 0..(L - 1), n \in T PROVE n + 1 \in T
  <2>1. CASE n = 0
    <3>1. D * E[<<>>] = D
      BY <1>1, <1>2
    <3>2. n + 1 = 1 /\ n + 1 \in 0..L
      BY <1>3, <2>1
    <3>3. QED
      BY <1>2, <1>3, <3>1, <3>2
  <2>2. CASE n # 0
    <3>1. n \in 1..L /\ n < L /\ n + 1 \in 0..L
      BY <1>3, <2>2
    <3> DEFINE f == s[n]
               g == s[n + 1]
    <3>2. Nested(f, g) /\ Aligned(f)
      BY <1>4, <3>1 DEF Chain
    <3>3. g.path \in Edges /\ Front(g.path) = f.path /\ g.docs = NextRows(g.path, f.docs)
      BY <3>2, TopEdge DEF Nested
    <3>4. Stand(f.path, f.docs) /\ f.path \in DOMAIN in.plan
      BY <3>2 DEF Aligned
    <3>5. Len(g.docs) <= Len(f.docs) * Multiplier(Node(g.path))
      BY <3>3, <3>4, NextRowsBounded
    <3>6. Len(f.docs) <= D * E[f.path]
      BY <1>6, <3>1
    <3>7. g.path \in DOMAIN in.plan \ {<<>>} /\ Multiplier(Node(g.path)) \in Nat
      BY <3>3, EdgeFacts, MultiplierFacts
    <3>8. E[g.path] = E[f.path] * Multiplier(Node(g.path)) /\ E[f.path] \in Nat
      BY <1>1, <3>3, <3>4, <3>7
    <3>9. Len(f.docs) \in Nat /\ Len(g.docs) \in Nat
      <4>1. f.docs \in Seq(Rows)
        BY <3>4 DEF Stand
      <4>2. Stand(g.path, NextRows(g.path, f.docs))
        BY <3>3, <3>4, NextRowsStand
      <4>3. g.docs \in Seq(Rows)
        BY <3>3, <4>2 DEF Stand
      <4>4. QED
        BY <4>1, <4>3, LenProperties
    <3> HIDE DEF f, g
    <3>10. PICK m \in Nat : m = Multiplier(Node(g.path))
      BY <3>7
    <3>11. PICK x \in Nat : x = E[f.path]
      BY <3>8
    <3>12. D * x \in Nat /\ Len(f.docs) * m <= (D * x) * m /\ Len(f.docs) * m \in Nat
      <4>1. D * x \in Nat /\ Len(f.docs) <= D * x
        BY <1>2, <3>6, <3>11
      <4>2. QED
        BY <3>9, <3>10, <4>1, ProductGrows
    <3>13. (D * x) * m = D * (x * m) /\ D * (x * m) \in Nat
      BY <1>2, ProductAssociates
    <3>14. Len(g.docs) <= D * (x * m)
      BY <3>5, <3>9, <3>10, <3>12, <3>13
    <3>15. Len(g.docs) <= D * E[g.path]
      BY <3>8, <3>10, <3>11, <3>14
    <3>16. QED
      BY <3>1, <3>15 DEF g
  <2>3. QED
    BY <2>1, <2>2
<1>7. 0..L \subseteq T
  <2> HIDE DEF T, L
  <2>1. QED
    BY <1>3, <1>5, <1>6, IntervalByStep
<1>8. ASSUME NEW n \in 1..L PROVE Len(s[n].docs) <= D * E[s[n].path]
  <2>1. n \in 0..L /\ n # 0
    BY <1>3
  <2>2. QED
    BY <1>7, <2>1
<1>9. QED
  BY <1>8 DEF E

-----------------------------------------------------------------------------
\* The nodes of a plan that the open levels s have come to and entered.
Passed(pl, s) ==
    {p \in DOMAIN pl : ~NotYet(s, p) /\ ~(Last(s).phase = "enter" /\ p = Last(s).path)}
PassedRows == SumFunctionOnSet(Exact(in.plan), Passed(in.plan, stack))

\* The rows counted are within the exact rows of the nodes passed, for every root
\* document; and a call that runs out of its budget was to be refused.
EstimateInv == AsEstimated =>
    /\ status = "levels" /\ ~Unarmed => ctxRows <= Len(in.docs) * PassedRows
    /\ status = "budget" /\ in.limit >= Len(in.docs) /\ Fits => RefuseEarly(in)

\* The sum over the nodes passed is a number, and no more than the cost; it grows
\* with them.
LEMMA PassedFacts ==
    ASSUME in \in Inputs, NEW P \in SUBSET DOMAIN in.plan
    PROVE  /\ SumFunctionOnSet(Exact(in.plan), P) \in Nat
           /\ SumFunctionOnSet(Exact(in.plan), P) <= CostIn(in.plan, 0)
           /\ \A Q \in SUBSET DOMAIN in.plan : P \subseteq Q =>
                 SumFunctionOnSet(Exact(in.plan), P) <= SumFunctionOnSet(Exact(in.plan), Q)
           /\ \A x \in DOMAIN in.plan \ P : \A Q \in SUBSET DOMAIN in.plan :
                 P \cup {x} \subseteq Q =>
                    SumFunctionOnSet(Exact(in.plan), P) + Exact(in.plan)[x]
                        <= SumFunctionOnSet(Exact(in.plan), Q)
<1> DEFINE E == Exact(in.plan)
           N == DOMAIN in.plan
<1>1. E \in [N -> Nat] /\ CostIn(in.plan, 0) = SumFunctionOnSet(E, N)
  BY ExactFacts
<1>2. IsFiniteSet(N)
  BY CallFacts
<1> HIDE DEF E, N
<1>3. P \in SUBSET N
  BY DEF N
<1>4. ASSUME NEW x \in N \ P, NEW Q \in SUBSET N, P \cup {x} \subseteq Q
      PROVE  SumFunctionOnSet(E, P) + E[x] <= SumFunctionOnSet(E, Q)
  <2> DEFINE R == P \cup {x}
  <2>1. SumFunctionOnSet(E, R) = SumFunctionOnSet(E, P) + E[x]
    BY <1>1, <1>2, <1>3, SumFacts
  <2>2. R \in SUBSET N /\ R \subseteq Q
    BY <1>3, <1>4
  <2> HIDE DEF R
  <2>3. SumFunctionOnSet(E, R) <= SumFunctionOnSet(E, Q)
    BY <1>1, <1>2, <2>2, SumGrows
  <2>4. QED
    BY <2>1, <2>3
<1>5. ASSUME NEW Q \in SUBSET N, P \subseteq Q
      PROVE  SumFunctionOnSet(E, P) <= SumFunctionOnSet(E, Q)
  BY <1>1, <1>2, <1>3, <1>5, SumGrows
<1>6. SumFunctionOnSet(E, P) \in Nat /\ SumFunctionOnSet(E, P) <= SumFunctionOnSet(E, N)
  BY <1>1, <1>2, <1>3, SumGrows, SumFacts
<1>7. QED
  BY <1>1, <1>4, <1>5, <1>6 DEF E, N

\* The same rows fit a larger set of nodes passed.
LEMMA PassedGrows ==
    ASSUME in \in Inputs, NEW P \in SUBSET DOMAIN in.plan, NEW Q \in SUBSET DOMAIN in.plan,
           P \subseteq Q, NEW n \in Nat,
           n <= Len(in.docs) * SumFunctionOnSet(Exact(in.plan), P)
    PROVE  n <= Len(in.docs) * SumFunctionOnSet(Exact(in.plan), Q)
<1>1. PICK a : a = SumFunctionOnSet(Exact(in.plan), P)
  OBVIOUS
<1>2. PICK b : b = SumFunctionOnSet(Exact(in.plan), Q)
  OBVIOUS
<1>3. a \in Nat /\ b \in Nat /\ a <= b
  BY <1>1, <1>2, PassedFacts
<1>4. Len(in.docs) \in Nat
  BY CallFacts, LenProperties
<1>5. Len(in.docs) * a <= Len(in.docs) * b /\ Len(in.docs) * a \in Nat /\ Len(in.docs) * b \in Nat
  BY <1>3, <1>4, ProductGrows
<1>6. n <= Len(in.docs) * a
  BY <1>1
<1>7. n <= Len(in.docs) * b
  BY <1>3, <1>4, <1>5, <1>6
<1>8. QED
  BY <1>2, <1>7

\* The node of the innermost level is come to.
LEMMA TopComeTo ==
    ASSUME in \in Inputs, NEW s, Levels(s), Chain(s)
    PROVE  ~NotYet(s, Last(s).path) /\ Last(s).path \in DOMAIN in.plan
<1> DEFINE L == Len(s)
           q == Last(s).path
<1>1. L \in Nat \ {0} /\ L \in 1..L /\ Last(s) = s[L]
  BY LastLevel
<1>2. \A n \in 1..L : Aligned(s[n])
  BY DEF Chain
<1>3. q \in DOMAIN in.plan /\ q = s[L].path
  BY <1>1, <1>2 DEF Aligned
<1> HIDE DEF q
<1>4. ASSUME NEW n \in 1..L, NEW k \in Todo(s, n), Under(Append(s[n].path, k), q) PROVE FALSE
  <2>1. /\ s[n].path \in DOMAIN in.plan /\ k \in Range(s[n].todo) /\ s[n].todo \in Seq(Keys)
    BY <1>2 DEF Aligned, Todo
  <2>2. s[n].path \in Seq(Keys) /\ k \in Keys
    BY <2>1, CallFacts, RangeOfSeq
  <2>3. CASE n = L
    BY <1>3, <1>4, <2>2, <2>3, NotAboveItself
  <2>4. CASE n # L
    <3>1. n < L /\ n + 1 \in 1..L /\ n \in 1..(L - 1)
      BY <1>1, <2>4
    <3>2. Under(Append(s[n].path, Head(s[n].todo)), q)
      BY <1>1, <1>3, <3>1 DEF Chain
    <3>3. s[n].todo # <<>>
      BY <3>1 DEF Chain, Nested
    <3>4. Head(s[n].todo) \in Keys
      BY <1>2, <3>3, TopEdge
    <3>5. k = Head(s[n].todo)
      BY <1>4, <2>2, <3>2, <3>4, OneWayDown
    <3>6. QED
      BY <1>4, <3>1, <3>5 DEF Todo
  <2>5. QED
    BY <2>3, <2>4
<1>5. QED
  BY <1>3, <1>4 DEF NotYet, q

\* Entering a level counts its rows into those of the nodes passed.
LEMMA CountedEstimated ==
    ASSUME MInv, AnswerInv, EstimateInv, AsEstimated, Entering,
           NEW Q \in SUBSET DOMAIN in.plan, Passed(in.plan, stack) \cup {Top.path} \subseteq Q
    PROVE  Counted \in Nat /\ Counted <= Len(in.docs) * SumFunctionOnSet(Exact(in.plan), Q)
<1> DEFINE D == Len(in.docs)
           none == {}
           root == Top.path = <<>>
           P == IF root THEN none ELSE Passed(in.plan, stack)
           n == IF root THEN 0 ELSE ctxRows
           q == Top.path
           a == SumFunctionOnSet(Exact(in.plan), P)
           b == SumFunctionOnSet(Exact(in.plan), Q)
           x == Exact(in.plan)[q]
           d == Len(Top.docs)
<1>1. /\ in \in Inputs /\ Levels(stack) /\ Chain(stack) /\ Last(stack) = Top /\ status = "levels"
      /\ Len(stack) \in 1..Len(stack) /\ Top = stack[Len(stack)] /\ ctxRows \in Nat /\ Aligned(Top)
  BY Open DEF Entering
<1>2. Top.docs \in Seq(Rows)
  BY <1>1 DEF Aligned, Stand
<1>3. D \in Nat /\ d \in Nat
  BY <1>1, <1>2, CallFacts, LenProperties
<1>4. P \in SUBSET DOMAIN in.plan /\ P \cup {q} \subseteq Q
  BY DEF Passed
<1>5. q \in DOMAIN in.plan \ P
  <2>1. q \notin Passed(in.plan, stack)
    BY <1>1 DEF Passed, Entering
  <2>2. q \in DOMAIN in.plan
    BY <1>1 DEF Aligned
  <2>3. QED
    BY <2>1, <2>2
<1>6. x \in Nat
  BY <1>1, <1>5, ExactFacts
<1>7. n \in Nat /\ n <= D * a
  <2>1. CASE root
    <3>1. SumFunctionOnSet(Exact(in.plan), none) \in Nat
      BY <1>1, PassedFacts
    <3>2. D * SumFunctionOnSet(Exact(in.plan), none) \in Nat
      BY <1>3, <3>1
    <3>3. QED
      BY <2>1, <3>2
  <2>2. CASE ~root
    <3>1. ~Unarmed
      BY <1>1, <2>2, LastLevel DEF Unarmed
    <3>2. ctxRows <= D * PassedRows
      BY <1>1, <3>1 DEF EstimateInv
    <3>3. QED
      BY <1>1, <2>2, <3>2 DEF PassedRows
  <2>3. QED
    BY <2>1, <2>2
<1>8. d <= D * x
  BY <1>1, LevelsEstimated
<1>9. a \in Nat /\ b \in Nat /\ a + x <= b
  <2> HIDE DEF P, q
  <2>1. a \in Nat /\ b \in Nat
    BY <1>1, <1>4, PassedFacts
  <2>2. a + x <= b
    BY <1>1, <1>4, <1>5, PassedFacts
  <2>3. QED
    BY <2>1, <2>2
<1>10. Counted = n + d
  BY DEF Counted
<1> HIDE DEF D, P, n, q, a, b, x, d
<1>11. D * (a + x) = D * a + D * x /\ D * a \in Nat /\ D * x \in Nat
  BY <1>3, <1>6, <1>9
<1>12. a + x \in Nat
  BY <1>6, <1>9
<1>13. D * (a + x) <= D * b /\ D * b \in Nat
  BY <1>3, <1>9, <1>12, ProductGrows
<1>14. Counted \in Nat /\ Counted <= D * b
  BY <1>3, <1>7, <1>8, <1>10, <1>11, <1>13
<1>15. QED
  BY <1>14 DEF D, b

\* What the estimate is about stays as it is while the call goes on.
LEMMA EstimateIsFixed ==
    ASSUME UNCHANGED in
    PROVE  AsEstimated' = AsEstimated /\ Fits' = Fits /\ RefuseEarly(in)' = RefuseEarly(in)
<1>1. Conforming' = Conforming /\ Edges' = Edges
  BY EdgesAreFixed
<1>2. \A p : EdgeOf(p)' = EdgeOf(p) /\ Node(p)' = Node(p)
  BY EdgesAreFixed
<1>3. \A p, r : Refs(p, r)' = Refs(p, r)
  BY DEF Refs, World
<1>4. AsEstimated' = AsEstimated
  BY <1>1, <1>2, <1>3 DEF AsEstimated
<1>5. Fits' = Fits
  BY DEF Fits
<1>6. RefuseEarly(in)' = RefuseEarly(in)
  BY DEF RefuseEarly
<1>7. QED
  BY <1>4, <1>5, <1>6

\* A step of a call that goes on counts no rows and passes no fewer nodes.
LEMMA EstimateCarried ==
    ASSUME in \in Inputs, EstimateInv, UNCHANGED in, status = "levels", status' = "levels",
           ~Unarmed, ctxRows \in Nat, UNCHANGED ctxRows,
           NEW st, stack' = st, Passed(in.plan, stack) \subseteq Passed(in.plan, st)
    PROVE  EstimateInv'
<1>1. ASSUME AsEstimated PROVE ctxRows <= Len(in.docs) * SumFunctionOnSet(Exact(in.plan), Passed(in.plan, st))
  <2> DEFINE P == Passed(in.plan, stack)
             Q == Passed(in.plan, st)
  <2>1. ctxRows <= Len(in.docs) * SumFunctionOnSet(Exact(in.plan), P)
    BY <1>1 DEF EstimateInv, PassedRows
  <2>2. P \in SUBSET DOMAIN in.plan /\ Q \in SUBSET DOMAIN in.plan /\ P \subseteq Q
    BY DEF Passed
  <2> HIDE DEF P, Q
  <2>3. ctxRows <= Len(in.docs) * SumFunctionOnSet(Exact(in.plan), Q)
    BY <2>1, <2>2, PassedGrows
  <2>4. QED
    BY <2>3 DEF Q
<1>2. PassedRows' = SumFunctionOnSet(Exact(in.plan), Passed(in.plan, st))
  <2>1. Passed(in.plan, stack)' = Passed(in.plan, st)
    BY DEF Passed, NotYet, Todo
  <2>2. Exact(in.plan)' = Exact(in.plan)
    BY DEF Exact
  <2>3. QED
    BY <2>1, <2>2 DEF PassedRows
<1>3. AsEstimated' = AsEstimated
  BY EstimateIsFixed
<1>4. status' # "budget"
  OBVIOUS
<1>5. QED
  BY <1>1, <1>2, <1>3, <1>4 DEF EstimateInv

\* A call that stops for another reason than its budget.
LEMMA EstimateStopped ==
    ASSUME status' \notin {"levels", "budget"}
    PROVE  EstimateInv'
BY DEF EstimateInv

-----------------------------------------------------------------------------
\* Opening a level passes no node and leaves those passed.
LEMMA PassedPushed ==
    ASSUME in \in Inputs, NEW s, Levels(s), Chain(s), Last(s).phase = "edges", Last(s).todo # <<>>,
           NEW docs
    PROVE  LET c == Append(Last(s).path, Head(Last(s).todo))
           IN  Passed(in.plan, s) \subseteq Passed(in.plan, Append(s, Frame(c, docs)))
<1> DEFINE c == Append(Last(s).path, Head(Last(s).todo))
           f == Frame(c, docs)
           t == Append(s, f)
           L == Len(s)
<1>1. PICK S : s \in Seq(S)
  BY DEF Levels
<1>2. L \in Nat \ {0} /\ L \in 1..L /\ Last(s) = s[L]
  BY LastLevel
<1>3. \A n \in 1..L : Aligned(s[n])
  BY DEF Chain
<1>4. /\ c \in Edges /\ c \in Seq(Keys) /\ Head(s[L].todo) \in Keys
      /\ Head(s[L].todo) \in Range(s[L].todo)
  BY <1>2, <1>3, TopEdge
<1>5. f.path = c /\ f.todo = Children(c)
  BY DEF Frame
<1>6. Range(f.todo) \subseteq Keys
  BY <1>4, <1>5, ChildrenFacts
<1> HIDE DEF f
<1>7. /\ Len(t) = L + 1 /\ t[L + 1] = f /\ \A n \in 1..L : t[n] = s[n]
      /\ t # <<>>
  <2>1. s \in Seq(S \cup {f}) /\ f \in S \cup {f}
    BY <1>1, SeqMonotonic
  <2>2. QED
    BY <2>1, AppendProperties
<1>8. Last(t) = f
  BY <1>2, <1>7 DEF Last
<1> HIDE DEF t
<1>9. Todo(s, L) = Range(s[L].todo)
  BY <1>2 DEF Todo
<1>10. \A q : Under(c, q) => NotYet(s, q)
  BY <1>2, <1>4, <1>9 DEF NotYet
<1>11. ASSUME NEW q \in DOMAIN in.plan, ~NotYet(s, q) PROVE ~NotYet(t, q) /\ q # f.path
  <2>1. q \in Seq(Keys)
    BY CallFacts
  <2>2. q # f.path
    BY <1>4, <1>5, <1>10, <1>11, UnderItself
  <2>3. ASSUME NEW n \in 1..Len(t), NEW k \in Todo(t, n), Under(Append(t[n].path, k), q) PROVE FALSE
    <3>1. CASE n \in 1..L
      <4>1. k \in Todo(s, n)
        BY <1>2, <1>7, <2>3, <3>1 DEF Todo
      <4>2. NotYet(s, q)
        BY <1>7, <2>3, <3>1, <4>1 DEF NotYet
      <4>3. QED
        BY <1>11, <4>2
    <3>2. CASE n = L + 1
      <4>1. k \in Keys /\ t[n].path = c
        BY <1>5, <1>6, <1>7, <2>3, <3>2 DEF Todo
      <4>2. Under(c, Append(c, k)) /\ Append(c, k) \in Seq(Keys)
        BY <1>4, <4>1, UnderChild
      <4>3. Under(c, q)
        <5> HIDE DEF c
        <5>1. QED
          BY <1>4, <2>1, <2>3, <4>1, <4>2, UnderThrough
      <4>4. QED
        BY <1>10, <1>11, <4>3
    <3>3. QED
      BY <1>2, <1>7, <2>3, <3>1, <3>2
  <2>4. QED
    BY <2>2, <2>3 DEF NotYet
<1>12. Passed(in.plan, s) \subseteq Passed(in.plan, t)
  BY <1>8, <1>11 DEF Passed
<1>13. QED
  BY <1>12 DEF t, f

\* A level whose edge is resolved, and that takes the place of those above it,
\* passes no fewer nodes.
LEMMA PassedAttached ==
    ASSUME in \in Inputs, NEW s, Levels(s), Chain(s), NEW n \in 1..Len(s),
           s[n].phase = "edges", s[n].todo # <<>>,
           NEW g, IsLevel(g), g.path = s[n].path, g.phase = "edges", g.todo = Tail(s[n].todo)
    PROVE  Passed(in.plan, s) \subseteq Passed(in.plan, Append(SubSeq(s, 1, n - 1), g))
<1> DEFINE t == Append(SubSeq(s, 1, n - 1), g)
<1>1. Len(t) = n /\ Last(t) = g /\ t[n] = g /\ \A i \in 1..(n - 1) : t[i] = s[i]
  BY Replaced
<1> HIDE DEF t
<1>2. Len(s) \in Nat \ {0} /\ n \in Nat
  BY LastLevel
<1>3. Aligned(s[n])
  BY DEF Chain
<1>4. Range(Tail(s[n].todo)) = Range(s[n].todo) \ {Head(s[n].todo)}
  BY <1>3, TopEdge
<1>5. ASSUME NEW q, NEW i \in 1..n, NEW k \in Todo(t, i), Under(Append(t[i].path, k), q)
      PROVE  NotYet(s, q)
  <2>1. i \in 1..Len(s) /\ t[i].path = s[i].path
    BY <1>1, <1>2
  <2>2. k \in Todo(s, i)
    <3>1. CASE i = n
      BY <1>1, <1>4, <1>5, <3>1 DEF Todo
    <3>2. CASE i # n
      <4>1. i \in 1..(n - 1) /\ i < n /\ i < Len(s)
        BY <1>2, <3>2
      <4>2. QED
        BY <1>1, <1>5, <4>1 DEF Todo
    <3>3. QED
      BY <3>1, <3>2
  <2>3. QED
    BY <1>5, <2>1, <2>2 DEF NotYet
<1>6. \A q : NotYet(t, q) => NotYet(s, q)
  BY <1>1, <1>5 DEF NotYet
<1>7. Passed(in.plan, s) \subseteq Passed(in.plan, t)
  BY <1>1, <1>6 DEF Passed
<1>8. QED
  BY <1>7 DEF t

-----------------------------------------------------------------------------
\* A call that fits its estimate and runs out of its budget was to be refused.
LEMMA OverBudgetWasRefused ==
    ASSUME MInv, AnswerInv, EstimateInv, AsEstimated, Fits, in.limit >= Len(in.docs),
           Entering, OverBudget
    PROVE  RefuseEarly(in)
<1> DEFINE D == Len(in.docs)
           N == DOMAIN in.plan
           C == CostIn(in.plan, 0)
           B == in.maxRows
           l == in.limit
<1>1. in \in Inputs /\ status = "levels"
  BY DEF AnswerInv, Entering
<1>2. D \in Nat /\ l \in Nat /\ B \in Nat /\ l >= D
  <2>1. IsInput(in)
    BY <1>1, InputsAssumption
  <2>2. QED
    BY <1>1, <2>1, CallFacts, LenProperties DEF IsInput
<1>3. Top.path \in N
  <2>1. Aligned(Top)
    BY <1>1, Open
  <2>2. QED
    BY <2>1 DEF Aligned
<1>4. N \in SUBSET N /\ Passed(in.plan, stack) \cup {Top.path} \subseteq N
  BY <1>3 DEF Passed
<1>5. Counted \in Nat /\ Counted <= D * SumFunctionOnSet(Exact(in.plan), N)
  <2> HIDE DEF N
  <2>1. N = DOMAIN in.plan
    BY DEF N
  <2>2. QED
    BY <1>4, <2>1, CountedEstimated
<1>6. C = SumFunctionOnSet(Exact(in.plan), N) /\ C \in Nat
  BY <1>1, ExactFacts
<1>7. Cost(in.plan) = C /\ C > 0
  BY <1>1, CostIsExact
<1>8. Budget = B
  <2>1. Levels(stack) /\ Last(stack) = Top
    BY <1>1, Open
  <2>2. Unarmed => Top.path = <<>>
    BY <2>1, LastLevel DEF Unarmed
  <2>3. Top.path # <<>> => ctxMax = in.maxRows
    BY <1>1, <2>1, <2>2 DEF MInv, BudgetInv
  <2>4. QED
    BY <2>3 DEF Budget
<1>9. B > 0 /\ ~(Counted <= B)
  BY <1>8 DEF OverBudget
<1> HIDE DEF D, N, C, B, l
<1>10. Counted <= D * C
  BY <1>5, <1>6
<1>11. D * C <= l * C /\ D * C \in Nat /\ l * C \in Nat
  BY <1>2, <1>6, ProductGrows
<1>12. B < l * C
  BY <1>2, <1>5, <1>9, <1>10, <1>11
<1>13. l > B \div C
  <2>1. PICK k : k = B \div C
    OBVIOUS
  <2>2. k \in Nat /\ k * C <= B
    BY <1>2, <1>6, <1>7, <2>1
  <2>3. ASSUME l <= k PROVE FALSE
    <3>1. l * C <= k * C /\ k * C \in Nat
      BY <1>2, <1>6, <2>2, <2>3, ProductGrows
    <3>2. QED
      BY <1>2, <1>11, <1>12, <2>2, <3>1
  <2>4. QED
    BY <1>2, <2>1, <2>2, <2>3
<1>14. l > 0
  <2>1. ASSUME l = 0 PROVE FALSE
    <3>1. l * C = 0
      BY <1>6, <2>1
    <3>2. QED
      BY <1>2, <1>12, <3>1
  <2>2. QED
    BY <1>2, <2>1
<1>15. QED
  BY <1>7, <1>9, <1>13, <1>14 DEF RefuseEarly, l, B

LEMMA EnterOverBudgetEstimate ==
    ASSUME MInv, AnswerInv, EstimateInv, EnterOverBudget PROVE EstimateInv'
<1>1. /\ in' = in /\ status' = "budget" /\ Entering /\ OverBudget
  BY DEF EnterOverBudget, Fail
<1>2. AsEstimated' = AsEstimated /\ Fits' = Fits /\ RefuseEarly(in)' = RefuseEarly(in)
  BY <1>1, EstimateIsFixed
<1>3. ASSUME AsEstimated, in.limit >= Len(in.docs), Fits PROVE RefuseEarly(in)
  BY <1>1, <1>3, OverBudgetWasRefused
<1>4. (in.limit >= Len(in.docs))' = (in.limit >= Len(in.docs))
  BY <1>1
<1>5. QED
  BY <1>1, <1>2, <1>3, <1>4 DEF EstimateInv

\* The level that is entered is passed.
LEMMA EnterLevelEstimate ==
    ASSUME MInv, AnswerInv, EstimateInv, EnterLevel PROVE EstimateInv'
<1>1. in' = in /\ status = "levels" /\ Entering /\ ctxRows' = Counted
  BY DEF EnterLevel, Entering
<1>2. CASE LevelBroken
  <2>1. status' \in {"enrich", "serialize"}
    BY <1>2 DEF EnterLevel, LevelBroken, Fail
  <2>2. QED
    BY <2>1, EstimateStopped
<1>3. CASE ~LevelBroken
  <2>1. /\ in \in Inputs /\ Levels(stack) /\ Chain(stack) /\ Last(stack) = Top
        /\ Len(stack) \in 1..Len(stack)
    BY <1>1, Open
  <2> DEFINE st == [stack EXCEPT ![Len(stack)].phase = "edges"]
  <2>2. stack' = st /\ status' = status
    BY <1>3 DEF EnterLevel
  <2>3. /\ Len(st) = Len(stack) /\ Last(st).phase = "edges"
        /\ \A j \in 1..Len(stack) :
              st[j] = IF j = Len(stack) THEN [stack[Len(stack)] EXCEPT !.phase = "edges"] ELSE stack[j]
    BY <2>1, Entered
  <2>4. \A j \in 1..Len(stack) : IsLevel(stack[j])
    BY <2>1 DEF Levels
  <2> HIDE DEF st
  <2>5. \A j \in 1..Len(stack) : st[j].path = stack[j].path /\ st[j].todo = stack[j].todo
    BY <2>3, <2>4 DEF IsLevel, FrameFields
  <2>6. \A p : NotYet(st, p) <=> NotYet(stack, p)
    BY <2>3, <2>5, SameWay
  <2> DEFINE Q == Passed(in.plan, st)
  <2>7. Q \in SUBSET DOMAIN in.plan /\ Passed(in.plan, stack) \cup {Top.path} \subseteq Q
    <3>1. ~NotYet(stack, Top.path) /\ Top.path \in DOMAIN in.plan
      BY <2>1, TopComeTo
    <3>2. QED
      BY <2>3, <2>6, <3>1 DEF Passed
  <2>8. AsEstimated => ctxRows' <= Len(in.docs) * SumFunctionOnSet(Exact(in.plan), Q)
    <3> HIDE DEF Q
    <3>1. QED
      BY <1>1, <2>7, CountedEstimated
  <2>9. PassedRows' = SumFunctionOnSet(Exact(in.plan), Q)
    <3>1. Passed(in.plan, stack)' = Passed(in.plan, st)
      BY <1>1, <2>2 DEF Passed, NotYet, Todo
    <3>2. Exact(in.plan)' = Exact(in.plan)
      BY <1>1 DEF Exact
    <3>3. QED
      BY <3>1, <3>2 DEF PassedRows
  <2>10. AsEstimated' = AsEstimated /\ (Len(in.docs))' = Len(in.docs)
    BY <1>1, EstimateIsFixed
  <2>11. status' # "budget"
    BY <1>1, <2>2
  <2> HIDE DEF Q
  <2>12. QED
    BY <2>8, <2>9, <2>10, <2>11 DEF EstimateInv
<1>4. QED
  BY <1>2, <1>3

\* Opening a level, with a fetch or without.
LEMMA PushEstimate ==
    ASSUME MInv, AnswerInv, EstimateInv, FetchEdge \/ OpenEmpty PROVE EstimateInv'
<1>1. in' = in /\ ctxRows' = ctxRows /\ Resolving
  BY DEF FetchEdge, OpenEmpty
<1>2. status = "levels" /\ Top.phase = "edges" /\ Top.todo # <<>>
  BY <1>1 DEF Resolving
<1>3. in \in Inputs /\ Levels(stack) /\ Chain(stack) /\ Last(stack) = Top /\ ctxRows \in Nat
  BY <1>2, Open
<1>4. \/ status' \in {"unbound", "fetch", "contract"}
      \/ status' = status /\ \E docs : stack' = Append(stack, Frame(ChildPath, docs))
  BY DEF FetchEdge, OpenEmpty, Fail
<1>5. CASE status' \in {"unbound", "fetch", "contract"}
  BY <1>5, EstimateStopped
<1>6. CASE status' = status /\ \E docs : stack' = Append(stack, Frame(ChildPath, docs))
  <2>1. PICK docs : stack' = Append(stack, Frame(ChildPath, docs))
    BY <1>6
  <2> DEFINE st == Append(stack, Frame(ChildPath, docs))
  <2>2. Passed(in.plan, stack) \subseteq Passed(in.plan, st)
    BY <1>2, <1>3, PassedPushed DEF ChildPath
  <2>3. ~Unarmed
    BY <1>2 DEF Unarmed
  <2>4. stack' = st /\ status' = "levels"
    BY <1>2, <1>6, <2>1
  <2> HIDE DEF st
  <2>5. QED
    BY <1>1, <1>2, <1>3, <2>2, <2>3, <2>4, EstimateCarried
<1>7. QED
  BY <1>4, <1>5, <1>6

\* An edge is resolved, at the innermost level or the one below.
LEMMA AttachEstimate ==
    ASSUME MInv, AnswerInv, EstimateInv, status = "levels", Top.phase = "edges",
           UNCHANGED <<in, ctxRows>>, NEW n \in 1..Len(stack),
           stack[n].phase = "edges", stack[n].todo # <<>>,
           NEW c, NEW rows, NEW out, Attach(c, stack[n], SubSeq(stack, 1, n - 1), rows, out)
    PROVE  EstimateInv'
<1>1. in \in Inputs /\ Levels(stack) /\ Chain(stack) /\ ctxRows \in Nat /\ IsLevel(stack[n])
  BY Open
<1>2. CASE Faults(c, stack[n], rows) # {}
  <2>1. status' \in PolicyFailures \cup {"none"}
    BY <1>2, FaultIsFailure DEF Attach, Fail
  <2>2. QED
    BY <2>1, EstimateStopped DEF PolicyFailures
<1>3. CASE Faults(c, stack[n], rows) = {}
  <2>1. PICK vals : /\ status' = status
                    /\ stack' = Append(SubSeq(stack, 1, n - 1),
                                       [stack[n] EXCEPT !.todo = Tail(@), !.vals = vals])
    BY <1>3 DEF Attach
  <2> DEFINE g == [stack[n] EXCEPT !.todo = Tail(@), !.vals = vals]
  <2>2. IsLevel(g) /\ g.path = stack[n].path /\ g.phase = "edges" /\ g.todo = Tail(stack[n].todo)
    BY <1>1 DEF IsLevel, FrameFields
  <2> DEFINE st == Append(SubSeq(stack, 1, n - 1), g)
  <2>3. stack' = st
    BY <2>1
  <2> HIDE DEF g
  <2>4. Passed(in.plan, stack) \subseteq Passed(in.plan, st)
    BY <1>1, <2>2, PassedAttached
  <2>5. ~Unarmed
    BY DEF Unarmed
  <2> HIDE DEF st
  <2>6. QED
    BY <1>1, <2>1, <2>3, <2>4, <2>5, EstimateCarried
<1>4. QED
  BY <1>2, <1>3

LEMMA ResolveEmptyEstimate ==
    ASSUME MInv, AnswerInv, EstimateInv, ResolveEmpty PROVE EstimateInv'
<1>1. /\ status = "levels" /\ Top.phase = "edges" /\ Top.todo # <<>> /\ UNCHANGED <<in, ctxRows>>
      /\ Attach(ChildPath, Top, Front(stack), <<>>, <<>>)
  BY DEF ResolveEmpty, Resolving
<1>2. Len(stack) \in 1..Len(stack) /\ Top = stack[Len(stack)] /\ Len(stack) \in Nat
  BY <1>1, Open
<1>3. PICK n \in 1..Len(stack) : n = Len(stack)
  BY <1>2
<1>4. Top = stack[n] /\ Front(stack) = SubSeq(stack, 1, n - 1)
  BY <1>2, <1>3 DEF Front
<1>5. Attach(ChildPath, stack[n], SubSeq(stack, 1, n - 1), <<>>, <<>>)
  BY <1>1, <1>4
<1>6. QED
  BY <1>1, <1>4, <1>5, AttachEstimate

LEMMA LevelDoneEstimate ==
    ASSUME MInv, AnswerInv, EstimateInv, LevelDone PROVE EstimateInv'
<1>1. /\ status = "levels" /\ Top.phase = "edges" /\ UNCHANGED <<in, ctxRows>>
  BY DEF LevelDone
<1>2. /\ in \in Inputs /\ Levels(stack) /\ Chain(stack) /\ Len(stack) \in Nat \ {0}
      /\ Top = stack[Len(stack)]
  BY <1>1, Open
<1>3. CASE Len(stack) = 1
  BY <1>3, EstimateStopped DEF LevelDone
<1>4. CASE Len(stack) # 1
  <2>1. PICK n \in 1..Len(stack) : n = Len(stack) - 1
    <3>1. Len(stack) - 1 \in 1..Len(stack)
      BY <1>2, <1>4
    <3>2. QED
      BY <3>1
  <2>2. stack[n].phase = "edges" /\ n < Len(stack) /\ Len(stack) - 2 = n - 1
    BY <1>2, <2>1 DEF Levels
  <2>3. stack[n].todo # <<>>
    BY <1>2, <2>2 DEF Chain, Nested
  <2>4. Attach(Top.path, stack[n], SubSeq(stack, 1, n - 1), Top.docs, Assemble(Top))
    BY <1>4, <2>1, <2>2 DEF LevelDone
  <2>5. QED
    BY <1>1, <2>2, <2>3, <2>4, AttachEstimate
<1>5. QED
  BY <1>3, <1>4

\* A step that neither begins a call nor is one of the call's own.
LEMMA IdleEstimate ==
    ASSUME EstimateInv, UNCHANGED <<in, status, stack, ctxRows>> PROVE EstimateInv'
<1>1. AsEstimated' = AsEstimated /\ Fits' = Fits /\ RefuseEarly(in)' = RefuseEarly(in)
  BY EstimateIsFixed
<1>2. Unarmed' = Unarmed
  BY DEF Unarmed, Top
<1>3. PassedRows' = PassedRows
  <2>1. Passed(in.plan, stack)' = Passed(in.plan, stack)
    BY DEF Passed, NotYet, Todo
  <2>2. Exact(in.plan)' = Exact(in.plan)
    BY DEF Exact
  <2>3. QED
    BY <2>1, <2>2 DEF PassedRows
<1>4. (Len(in.docs))' = Len(in.docs) /\ (in.limit >= Len(in.docs))' = (in.limit >= Len(in.docs))
  OBVIOUS
<1>5. QED
  BY <1>1, <1>2, <1>3, <1>4 DEF EstimateInv

LEMMA InitEstimate == Init => EstimateInv
BY DEF Init, Begins, EstimateInv

LEMMA NextEstimate == MInv /\ AnswerInv /\ EstimateInv /\ [Next]_vars => EstimateInv'
<1> SUFFICES ASSUME MInv, AnswerInv, EstimateInv, [Next]_vars PROVE EstimateInv'
  OBVIOUS
<1>1. CASE UNCHANGED vars \/ Cancel \/ Finished
  BY <1>1, IdleEstimate DEF vars, Cancel, Finished
<1>2. CASE NextCall
  <2>1. status' = Begins(in')
    BY <1>2 DEF NextCall
  <2>2. status' # "levels" /\ (status' = "budget" => RefuseEarly(in'))
    BY <2>1 DEF Begins
  <2>3. QED
    BY <2>2 DEF EstimateInv
<1>3. CASE RootDocs
  <2>1. CASE status' = "levels"
    <3>1. stack' = <<Frame(<<>>, in.docs)>>
      BY <1>3, <2>1 DEF RootDocs, Fail
    <3>2. PICK f : f = Frame(<<>>, in.docs)
      OBVIOUS
    <3>3. stack' = <<f>> /\ f.phase = "enter"
      BY <3>1, <3>2 DEF Frame
    <3>4. Len(<<f>>) = 1 /\ Last(<<f>>) = f
      BY DEF Last
    <3>5. Unarmed'
      BY <3>3, <3>4 DEF Unarmed, Top
    <3>6. QED
      BY <2>1, <3>5 DEF EstimateInv
  <2>2. CASE status' # "levels"
    <3>1. status' \in {"rootFetch", "notFound"}
      BY <1>3, <2>2 DEF RootDocs, Fail
    <3>2. QED
      BY <3>1, EstimateStopped
  <2>3. QED
    BY <2>1, <2>2
<1>4. CASE EnterCancelled
  <2>1. status' = "cancelled"
    BY <1>4 DEF EnterCancelled, Fail
  <2>2. QED
    BY <2>1, EstimateStopped
<1>5. CASE Hydrate
  BY <1>3, <1>4, <1>5, EnterOverBudgetEstimate, EnterLevelEstimate, PushEstimate,
     ResolveEmptyEstimate, LevelDoneEstimate DEF Hydrate
<1>6. QED
  BY <1>1, <1>2, <1>5 DEF Next

\* The estimate errs on the safe side (budgetCheck before estimateCost's plan is
\* run): a page whose estimate fits the budget never runs out of it, whatever the
\* plan, as long as its exact cost is a machine integer at all.
THEOREM EstimateIsSafe == Spec => [](Fits => PrecheckIsSound)
<1>1. EstimateInv => (Fits => PrecheckIsSound)
  BY DEF EstimateInv, PrecheckIsSound
<1>2. Spec => [](MInv /\ AnswerInv /\ EstimateInv)
  BY InitMInv, InitAnswer, InitEstimate, NextKeeps, NextAnswer, NextEstimate, PTL DEF Spec
<1>3. QED
  BY <1>1, <1>2, PTL
=============================================================================
