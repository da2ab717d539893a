------------------------ MODULE ContextSlicesProofs ------------------------
(***************************************************************************)
(* For texts and contexts of any size: nothing is translated twice or left *)
(* out, the continuations come in the order of the source, and a passed    *)
(* report vouches for every unit.                                          *)
(***************************************************************************)
EXTENDS ContextSlices, SumTheorems, SequenceTheorems, TLAPS

\* What is done after one more task is what that task adds.
LEMMA DoneAppend ==
    ASSUME tasks \in Seq(Task), NEW e \in Task, tasks' = Append(tasks, e)
    PROVE  /\ DOMAIN tasks' = DOMAIN tasks \cup {Len(tasks) + 1}
           /\ DOMAIN tasks = 1..Len(tasks) /\ Len(tasks) \in Nat
           /\ \A t \in DOMAIN tasks : tasks'[t] = tasks[t]
           /\ tasks'[Len(tasks) + 1] = e
           /\ Done' = Done \cup e.units
<1>1. /\ DOMAIN tasks = 1..Len(tasks) /\ Len(tasks) \in Nat
      /\ DOMAIN tasks' = 1..(Len(tasks) + 1)
      /\ \A t \in 1..Len(tasks) : tasks'[t] = tasks[t]
      /\ tasks'[Len(tasks) + 1] = e
  OBVIOUS
<1>2. DOMAIN tasks' = DOMAIN tasks \cup {Len(tasks) + 1}
  BY <1>1
<1>3. \A t \in DOMAIN tasks : tasks'[t] = tasks[t]
  BY <1>1
<1>4. Done' = Done \cup e.units
  <2>1. ASSUME NEW x PROVE x \in Done' <=> x \in Done \/ x \in e.units
    <3>1. x \in Done' <=> \E t \in DOMAIN tasks' : x \in tasks'[t].units
      BY DEF Done
    <3>2. x \in Done <=> \E t \in DOMAIN tasks : x \in tasks[t].units
      BY DEF Done
    <3> QED BY <1>1, <1>2, <1>3, <3>1, <3>2
  <2> QED BY <2>1
<1> QED BY <1>1, <1>2, <1>3, <1>4

\* Cutting yields token counts.
LEMMA PiecesType ==
    ASSUME NEW n \in Nat, NEW w \in Nat
    PROVE  Pieces(n, w) \in Seq(Nat)
<1>1. CASE w = 0 \/ n <= w
  BY <1>1 DEF Pieces
<1>2. CASE ~(w = 0 \/ n <= w)
  <2>1. w > 0 /\ n \div w \in Nat /\ n % w \in Nat
    BY <1>2
  <2>2. [k \in 1..(n \div w) |-> w] \in Seq(Nat)
    BY <2>1
  <2>3. (IF n % w = 0 THEN <<>> ELSE <<n % w>>) \in Seq(Nat)
    BY <2>1
  <2> QED BY <1>2, <2>2, <2>3, ConcatProperties DEF Pieces
<1> QED BY <1>1, <1>2

-----------------------------------------------------------------------------
\* The invariant holds before the text is cut.
LEMMA SlicesInvInit == Init => SlicesInv
<1> SUFFICES ASSUME Init PROVE SlicesInv
  OBVIOUS
<1>1. TypeOK
  BY SlicesAssumption DEF Init, TypeOK, Indices
<1>2. tasks = <<>> /\ DOMAIN tasks = {} /\ report = "none" /\ pc = "cut"
  BY DEF Init
<1> QED BY <1>1, <1>2 DEF SlicesInv, PlanFirst, Frontier, ReportHonest,
                         EveryUnitOnce, ContinuationsInOrder

\* Before the first task the invariant says little.
LEMMA NoTaskYet ==
    ASSUME TypeOK, tasks = <<>>, report # "passed",
           pc \in {"cut", "plan", "initial"}
    PROVE  SlicesInv
<1>1. DOMAIN tasks = {}
  OBVIOUS
<1> QED BY <1>1 DEF SlicesInv, PlanFirst, Frontier, ReportHonest,
                    EveryUnitOnce, ContinuationsInOrder

\* The same of the state a planning step leads to.
LEMMA NoTaskYetStep ==
    ASSUME TypeOK', tasks' = <<>>, report' # "passed",
           pc' \in {"cut", "plan", "initial"}
    PROVE  SlicesInv'
<1>1. DOMAIN tasks' = {}
  OBVIOUS
<1> QED BY <1>1 DEF SlicesInv, PlanFirst, Frontier, ReportHonest,
                    EveryUnitOnce, ContinuationsInOrder

\* Cutting and planning keep the invariant.
LEMMA PlanningStep ==
    ASSUME SlicesInv, CutParagraph \/ CutDone \/ PlanUnit \/ PlanDone
    PROVE  SlicesInv'
<1>1. /\ TypeOK /\ tasks = <<>> /\ report # "passed"
      /\ pc \in {"cut", "plan"}
  BY DEF SlicesInv, PlanFirst, ReportHonest, CutParagraph, CutDone, PlanUnit,
         PlanDone
<1>2. CASE CutParagraph
  <2>1. Head(text) \in Nat /\ Tail(text) \in Seq(Nat)
    BY <1>1, <1>2 DEF CutParagraph, TypeOK
  <2>2. Pieces(Head(text), window) \in Seq(Nat)
    BY <1>1, <2>1, PiecesType DEF TypeOK
  <2> DEFINE more == Pieces(Head(text), window)
  <2>3. /\ units \o more \in Seq(Nat)
        /\ Len(units \o more) = Len(units) + Len(more)
    BY <1>1, <2>2, ConcatProperties DEF TypeOK
  <2>4. Indices \subseteq Indices'
    <3>1. /\ Indices = 1..Len(units) /\ Indices' = 1..Len(units \o more)
          /\ Len(units) \in Nat /\ Len(more) \in Nat
      BY <1>1, <1>2, <2>2, <2>3 DEF Indices, CutParagraph, TypeOK
    <3> QED BY <2>3, <3>1
  <2>5. TypeOK'
    BY <1>1, <1>2, <2>1, <2>3, <2>4 DEF CutParagraph, TypeOK
  <2> QED BY <1>1, <1>2, <2>5, NoTaskYetStep DEF CutParagraph
<1>3. CASE CutDone
  <2>1. TypeOK'
    BY <1>1, <1>3 DEF CutDone, TypeOK, Indices
  <2> QED BY <1>1, <1>3, <2>1, NoTaskYetStep DEF CutDone
<1>4. CASE PlanUnit
  <2>1. units[next] \in Nat
    BY <1>1, <1>4 DEF PlanUnit, TypeOK, Indices
  <2>2. /\ fits' \subseteq Indices' /\ used' \in Nat
        /\ next' \in Nat \ {0}
    BY <1>1, <1>4, <2>1 DEF PlanUnit, TypeOK, Indices
  <2>3. TypeOK'
    BY <1>1, <1>4, <2>2 DEF PlanUnit, TypeOK
  <2> QED BY <1>1, <1>4, <2>3, NoTaskYetStep DEF PlanUnit
<1>5. CASE PlanDone
  <2>1. TypeOK'
    BY <1>1, <1>5 DEF PlanDone, TypeOK, Indices
  <2> QED BY <1>1, <1>5, <2>1, NoTaskYetStep DEF PlanDone
<1> QED BY <1>2, <1>3, <1>4, <1>5

\* The first task keeps the invariant.
LEMMA InitialStep ==
    ASSUME SlicesInv, RunInitial
    PROVE  SlicesInv'
<1>1. PICK full \in BOOLEAN :
        tasks' = <<[units |-> FirstUnits, brief |-> FALSE, text |-> full]>>
  BY DEF RunInitial
<1> DEFINE e == [units |-> FirstUnits, brief |-> FALSE, text |-> full]
<1>2. TypeOK /\ tasks = <<>> /\ report # "passed" /\ pc = "initial"
  BY DEF SlicesInv, PlanFirst, ReportHonest, RunInitial
<1>3. Indices = 1..Len(units) /\ Len(units) \in Nat
  BY <1>2 DEF TypeOK, Indices
<1>4. FirstUnits \subseteq Indices
  BY <1>2 DEF TypeOK, FirstUnits, Pending
<1>5. e \in Task
  BY <1>3, <1>4 DEF Task
<1>6. DOMAIN tasks' = {1} /\ tasks'[1] = e /\ tasks' \in Seq(Task)
  BY <1>1, <1>5
<1>7. Indices' = Indices /\ fits' = fits /\ pc' = "continue" /\ report' = report
  BY DEF RunInitial, Indices
<1>8. Done' = FirstUnits
  BY <1>6 DEF Done
<1>9. TypeOK'
  BY <1>2, <1>6, <1>7 DEF RunInitial, TypeOK
<1>10. PlanFirst'
  <2>1. fits' \subseteq Done'
    BY <1>7, <1>8 DEF FirstUnits
  <2>2. \A t \in DOMAIN tasks' : tasks'[t].units \subseteq Indices'
    BY <1>4, <1>6, <1>7
  <2>3. tasks' # <<>>
    <3>1. Len(tasks') = 1 /\ Len(<<>>) = 0
      BY <1>1
    <3> QED BY <3>1
  <2> QED BY <1>7, <2>1, <2>2, <2>3 DEF PlanFirst
<1>11. Frontier' /\ ContinuationsInOrder' /\ EveryUnitOnce' /\ ReportHonest'
  BY <1>2, <1>6, <1>7 DEF Frontier, ContinuationsInOrder, EveryUnitOnce,
                          ReportHonest
<1> QED BY <1>9, <1>10, <1>11 DEF SlicesInv

\* A continuation takes the lowest pending unit and keeps the invariant.
LEMMA ContinuationStep ==
    ASSUME SlicesInv, NEW u \in Indices, RunContinuation(u)
    PROVE  SlicesInv'
<1>1. PICK full \in BOOLEAN :
        tasks' = Append(tasks, [units |-> {u}, brief |-> TRUE, text |-> full])
  BY DEF RunContinuation
<1> DEFINE e == [units |-> {u}, brief |-> TRUE, text |-> full]
           n == Len(tasks) + 1
<1>2. /\ TypeOK /\ PlanFirst /\ Frontier /\ ContinuationsInOrder
      /\ EveryUnitOnce /\ report # "passed" /\ pc = "continue" /\ tasks # <<>>
  BY DEF SlicesInv, PlanFirst, ReportHonest, RunContinuation
<1>3. Indices = 1..Len(units) /\ Len(units) \in Nat
  BY <1>2 DEF TypeOK, Indices
<1>4. e \in Task /\ e.units = {u} /\ e.brief = TRUE
  BY <1>3 DEF Task
<1>5. /\ DOMAIN tasks' = DOMAIN tasks \cup {n}
      /\ DOMAIN tasks = 1..Len(tasks) /\ Len(tasks) \in Nat
      /\ \A t \in DOMAIN tasks : tasks'[t] = tasks[t]
      /\ tasks'[n] = e
      /\ Done' = Done \cup {u}
  <2>1. tasks \in Seq(Task)
    BY <1>2 DEF TypeOK
  <2> QED BY <1>1, <1>4, <2>1, DoneAppend
<1>6. Len(tasks) > 0
  BY <1>2, <1>5, EmptySeq DEF TypeOK
<1>7. /\ Indices' = Indices /\ fits' = fits /\ Pending' = Pending
      /\ pc' = "continue" /\ report' = report
  BY DEF RunContinuation, Indices, Pending
<1>8. /\ u \in Pending /\ u \notin Done /\ u \in Nat
      /\ \A v \in Pending \ Done : u <= v
  BY <1>3 DEF RunContinuation, IsNextPending
<1>9. \A t \in DOMAIN tasks : u \notin tasks[t].units
  BY <1>8 DEF Done
<1>10. TypeOK'
  <2>1. tasks' \in Seq(Task)
    BY <1>1, <1>2, <1>4 DEF TypeOK
  <2> QED BY <1>2, <1>7, <2>1 DEF RunContinuation, TypeOK
<1>11. PlanFirst'
  <2>1. \A t \in DOMAIN tasks' : tasks'[t].units \subseteq Indices'
    BY <1>2, <1>4, <1>5, <1>7 DEF PlanFirst
  <2>2. tasks' # <<>>
    BY <1>1, <1>2, <1>4, <1>5, EmptySeq
  <2> QED BY <1>2, <1>5, <1>7, <2>1, <2>2 DEF PlanFirst
<1>12. Frontier'
  <2> SUFFICES ASSUME NEW t \in DOMAIN tasks' \ {1},
                      NEW x \in tasks'[t].units, NEW v \in Pending' \ Done'
               PROVE  x < v
    BY DEF Frontier
  <2>1. v \in Pending \ Done /\ v # u /\ v \in Nat
    BY <1>3, <1>5, <1>7 DEF Pending
  <2>2. CASE t = n
    BY <1>4, <1>5, <1>8, <2>1, <2>2
  <2>3. CASE t # n
    BY <1>2, <1>5, <2>1, <2>3 DEF Frontier
  <2> QED BY <2>2, <2>3
<1>13. EveryUnitOnce'
  <2> SUFFICES ASSUME NEW a \in DOMAIN tasks', NEW b \in DOMAIN tasks', a # b
               PROVE  tasks'[a].units \cap tasks'[b].units = {}
    BY <1>7 DEF EveryUnitOnce
  <2>1. CASE a = n
    BY <1>4, <1>5, <1>9, <2>1
  <2>2. CASE b = n
    BY <1>4, <1>5, <1>9, <2>2
  <2>3. CASE a # n /\ b # n
    BY <1>2, <1>5, <2>3 DEF EveryUnitOnce
  <2> QED BY <2>1, <2>2, <2>3
<1>14. ContinuationsInOrder'
  <2>1. ASSUME NEW t \in DOMAIN tasks' PROVE tasks'[t].brief <=> t > 1
    <3>1. CASE t = n
      BY <1>4, <1>5, <1>6, <3>1
    <3>2. CASE t # n
      BY <1>2, <1>5, <3>2 DEF ContinuationsInOrder
    <3> QED BY <3>1, <3>2
  <2>2. ASSUME NEW a \in DOMAIN tasks' \ {1}, NEW b \in DOMAIN tasks' \ {1},
               a < b, NEW x \in tasks'[a].units, NEW y \in tasks'[b].units
        PROVE  x < y
    <3>1. a \in DOMAIN tasks \ {1} /\ tasks'[a] = tasks[a]
      BY <1>5, <2>2
    <3>2. CASE b = n
      <4>1. y = u
        BY <1>4, <1>5, <3>2, <2>2
      <4>2. u \in Pending \ Done
        BY <1>8
      <4> QED BY <1>2, <2>2, <3>1, <4>1, <4>2 DEF Frontier
    <3>3. CASE b # n
      BY <1>2, <1>5, <2>2, <3>1, <3>3 DEF ContinuationsInOrder
    <3> QED BY <3>2, <3>3
  <2> QED BY <2>1, <2>2 DEF ContinuationsInOrder
<1>15. ReportHonest'
  BY <1>2, <1>7 DEF ReportHonest
<1> QED BY <1>10, <1>11, <1>12, <1>13, <1>14, <1>15 DEF SlicesInv

\* Stitching, raising and doing nothing keep the invariant.
LEMMA EndingStep ==
    ASSUME SlicesInv, RunRaises \/ Stitch \/ Ended \/ UNCHANGED vars
    PROVE  SlicesInv'
<1>1. /\ TypeOK /\ PlanFirst /\ Frontier /\ ContinuationsInOrder
      /\ EveryUnitOnce /\ ReportHonest
  BY DEF SlicesInv
<1>2. CASE RunRaises
  <2>1. report # "passed"
    BY <1>1, <1>2 DEF RunRaises, ReportHonest
  <2>2. /\ Indices' = Indices /\ Pending' = Pending /\ Done' = Done
        /\ tasks' = tasks /\ pc' = "raised" /\ report' = report
    BY <1>2 DEF RunRaises, Indices, Pending, Done
  <2>3. TypeOK'
    BY <1>1, <1>2, <2>2 DEF RunRaises, TypeOK
  <2> QED BY <1>1, <2>1, <2>2, <2>3
          DEF SlicesInv, PlanFirst, Frontier, ContinuationsInOrder,
              EveryUnitOnce, ReportHonest
<1>3. CASE Stitch
  <2>1. /\ Indices' = Indices /\ Pending' = Pending /\ Done' = Done
        /\ tasks' = tasks /\ pc' = "done" /\ report' = Verification
        /\ fits' = fits
    BY <1>3 DEF Stitch, Indices, Pending, Done
  <2>2. report' \in {"passed", "needs_review"}
    BY <2>1 DEF Verification
  <2>3. TypeOK'
    BY <1>1, <1>3, <2>1, <2>2 DEF Stitch, TypeOK
  <2>4. Done = Indices /\ tasks # <<>> /\ fits \subseteq Done
    BY <1>1, <1>3 DEF Stitch, PlanFirst, Pending, Done
  <2>5. ReportHonest'
    BY <2>1 DEF ReportHonest, Verification
  <2>6. PlanFirst' /\ EveryUnitOnce'
    BY <1>1, <2>1, <2>4 DEF PlanFirst, EveryUnitOnce
  <2>7. Frontier' /\ ContinuationsInOrder'
    BY <1>1, <2>1 DEF Frontier, ContinuationsInOrder
  <2> QED BY <2>3, <2>5, <2>6, <2>7 DEF SlicesInv
<1>4. CASE Ended \/ UNCHANGED vars
  <2>1. UNCHANGED vars
    BY <1>4 DEF Ended
  <2>2. /\ window' = window /\ text' = text /\ units' = units /\ pc' = pc
        /\ next' = next /\ used' = used /\ fits' = fits /\ tasks' = tasks
        /\ report' = report
    BY <2>1 DEF vars
  <2>3. Indices' = Indices /\ Pending' = Pending /\ Done' = Done
    BY <2>2 DEF Indices, Pending, Done
  <2>4. TypeOK'
    BY <1>1, <2>2, <2>3 DEF TypeOK
  <2>5. PlanFirst' /\ Frontier' /\ ReportHonest'
    BY <1>1, <2>2, <2>3 DEF PlanFirst, Frontier, ReportHonest
  <2>6. EveryUnitOnce' /\ ContinuationsInOrder'
    BY <1>1, <2>2, <2>3 DEF EveryUnitOnce, ContinuationsInOrder
  <2> QED BY <2>4, <2>5, <2>6 DEF SlicesInv
<1> QED BY <1>2, <1>3, <1>4

\* The invariant of planning, running and stitching a text.
THEOREM SlicesInvariant == Spec => []SlicesInv
<1>1. ASSUME SlicesInv, [Next]_vars PROVE SlicesInv'
  <2>1. CASE \E u \in Indices : RunContinuation(u)
    BY <1>1, <2>1, ContinuationStep
  <2>2. CASE RunInitial
    BY <1>1, <2>2, InitialStep
  <2>3. CASE CutParagraph \/ CutDone \/ PlanUnit \/ PlanDone
    BY <1>1, <2>3, PlanningStep
  <2>4. CASE RunRaises \/ Stitch \/ Ended \/ UNCHANGED vars
    BY <1>1, <2>4, EndingStep
  <2> QED BY <1>1, <2>1, <2>2, <2>3, <2>4 DEF Next
<1> QED BY <1>1, SlicesInvInit, PTL DEF Spec

\* The plan, the tasks and the report keep their types.
THEOREM TypeCorrect == Spec => []TypeOK
<1>1. SlicesInv => TypeOK
  BY DEF SlicesInv
<1> QED BY <1>1, SlicesInvariant, PTL

\* Nothing of a text is translated twice, and nothing is left out.
THEOREM TranslatedOnce == Spec => []EveryUnitOnce
<1>1. SlicesInv => EveryUnitOnce
  BY DEF SlicesInv
<1> QED BY <1>1, SlicesInvariant, PTL

\* The continuations follow the source.
THEOREM SourceOrderOfContinuations == Spec => []ContinuationsInOrder
<1>1. SlicesInv => ContinuationsInOrder
  BY DEF SlicesInv
<1> QED BY <1>1, SlicesInvariant, PTL

\* A passed report vouches for every unit of the text.
THEOREM PassedVouchesForAll == Spec => []PassedIsComplete
<1>1. SlicesInv => PassedIsComplete
  BY DEF SlicesInv, ReportHonest, EveryUnitOnce, Done, PassedIsComplete
<1> QED BY <1>1, SlicesInvariant, PTL

-----------------------------------------------------------------------------
(* The budget of a task.                                                   *)

\* A piece a paragraph is cut into is no larger than the context.
LEMMA PiecesFit ==
    ASSUME NEW n \in Nat, NEW w \in Nat, w > 0
    PROVE  \A k \in DOMAIN Pieces(n, w) : Pieces(n, w)[k] <= w
<1>1. CASE n <= w
  BY <1>1 DEF Pieces
<1>2. CASE n > w
  <2> DEFINE full == [k \in 1..(n \div w) |-> w]
             last == IF n % w = 0 THEN <<>> ELSE <<n % w>>
  <2>1. n \div w \in Nat /\ n % w \in Nat /\ n % w < w
    BY <1>2
  <2>2. /\ full \in Seq(Nat) /\ Len(full) = n \div w
        /\ \A k \in 1..Len(full) : full[k] = w
    BY <2>1
  <2>3. last \in Seq(Nat) /\ \A k \in 1..Len(last) : last[k] <= w
    BY <2>1
  <2>4. Pieces(n, w) = full \o last
    BY <1>2 DEF Pieces
  <2> HIDE DEF full, last
  <2>5. /\ DOMAIN (full \o last) = 1..(Len(full) + Len(last))
        /\ \A k \in 1..(Len(full) + Len(last)) :
              (full \o last)[k] = IF k <= Len(full) THEN full[k]
                                  ELSE last[k - Len(full)]
        /\ Len(full) \in Nat /\ Len(last) \in Nat
    <3>1. full \in Seq(Nat) /\ last \in Seq(Nat)
      BY <2>2, <2>3
    <3> QED
      BY <3>1, ConcatProperties, LenProperties
  <2>6. ASSUME NEW k \in DOMAIN (full \o last) PROVE (full \o last)[k] <= w
    <3>1. CASE k <= Len(full)
      BY <2>2, <2>5, <3>1
    <3>2. CASE k > Len(full)
      <4>1. k - Len(full) \in 1..Len(last)
        BY <2>5, <3>2
      <4> QED
        BY <2>3, <2>5, <3>2, <4>1
    <3> QED
      BY <2>5, <3>1, <3>2
  <2> QED
    BY <2>4, <2>6
<1> QED
  BY <1>1, <1>2

\* The units are finitely many, and each is a number of tokens.
LEMMA UnitsFinite ==
    ASSUME TypeOK
    PROVE  /\ Indices = 1..Len(units) /\ Len(units) \in Nat
           /\ IsFiniteSet(Indices)
           /\ \A u \in Indices : units[u] \in Nat
           /\ \A us \in SUBSET Indices : IsFiniteSet(us) /\ SourceTokens(us) \in Nat
<1>1. Indices = 1..Len(units) /\ Len(units) \in Nat
  BY DEF TypeOK, Indices
<1>2. IsFiniteSet(Indices)
  BY <1>1, FS_Interval
<1>3. \A u \in Indices : units[u] \in Nat
  BY DEF TypeOK, Indices
<1>4. \A us \in SUBSET Indices : IsFiniteSet(us)
  BY <1>2, FS_Subset
<1>5. \A us \in SUBSET Indices : SumFunctionOnSet(units, us) \in Nat
  BY <1>2, <1>3, SumType
<1> QED
  BY <1>1, <1>2, <1>3, <1>4, <1>5 DEF SourceTokens

\* The tokens of no unit, of one, and of one more.
LEMMA TokensOf ==
    ASSUME TypeOK, NEW us \in SUBSET Indices, NEW u \in Indices \ us
    PROVE  /\ SourceTokens({}) = 0
           /\ SourceTokens({u}) = units[u]
           /\ SourceTokens(us \cup {u}) = SourceTokens(us) + units[u]
<1>1. IsFiniteSet(us) /\ \A x \in Indices : units[x] \in Nat
  BY UnitsFinite
<1>2. \A x \in us \cup {u} : units[x] \in Nat
  BY <1>1
<1>3. SumFunctionOnSet(units, us \cup {u}) = SumFunctionOnSet(units, us) + units[u]
  BY <1>1, <1>2, SumAdd
<1>4. SumFunctionOnSet(units, {}) = 0
  BY SumEmpty
<1>5. SumFunctionOnSet(units, {} \cup {u}) = SumFunctionOnSet(units, {}) + units[u]
  BY <1>1, FS_EmptySet, SumAdd
<1>6. {} \cup {u} = {u} /\ units[u] \in Nat
  BY <1>1
<1> QED
  BY <1>3, <1>4, <1>5, <1>6 DEF SourceTokens

\* The budget holds before the text is cut.
LEMMA WindowInit == Init => WindowInv
<1> SUFFICES ASSUME Init PROVE WindowInv
  OBVIOUS
<1>1. SourceTokens({}) = 0
  BY SumEmpty DEF SourceTokens
<1>2. Indices = {} /\ DOMAIN tasks = {}
  BY DEF Init, Indices
<1> QED
  BY <1>1, <1>2, SlicesAssumption DEF Init, WindowInv, SourceWithinWindow

\* Cutting: only pieces that fit are added, and nothing is merged yet.
LEMMA WindowCut ==
    ASSUME TypeOK, tasks = <<>>, WindowInv, CutParagraph
    PROVE  WindowInv'
<1> DEFINE more == Pieces(Head(text), window)
<1>1. Head(text) \in Nat /\ window \in Nat
  BY DEF CutParagraph, TypeOK
<1>2. more \in Seq(Nat)
  BY <1>1, PiecesType
<1>3. window > 0 => \A k \in DOMAIN more : more[k] <= window
  BY <1>1, PiecesFit
<1>4. units' = units \o more /\ UNCHANGED <<window, used, fits, tasks, pc, next>>
  BY DEF CutParagraph
<1> HIDE DEF more
<1>5. /\ Indices = 1..Len(units) /\ Indices' = 1..(Len(units) + Len(more))
      /\ DOMAIN more = 1..Len(more)
      /\ Len(units) \in Nat /\ Len(more) \in Nat
      /\ \A k \in Indices' : units'[k] = IF k <= Len(units) THEN units[k]
                                         ELSE more[k - Len(units)]
  BY <1>2, <1>4, ConcatProperties, LenProperties DEF TypeOK, Indices
<1>6. window' > 0 => \A u \in Indices' : units'[u] <= window'
  <2> SUFFICES ASSUME window > 0, NEW u \in Indices' PROVE units'[u] <= window
    BY <1>4
  <2>1. CASE u <= Len(units)
    BY <1>5, <2>1 DEF WindowInv
  <2>2. CASE u > Len(units)
    <3>1. u - Len(units) \in DOMAIN more
      BY <1>5, <2>2
    <3> QED
      BY <1>3, <1>5, <2>2, <3>1
  <2> QED
    BY <1>5, <2>1, <2>2
<1>7. fits = {} /\ SourceTokens({}) = 0 /\ SourceTokens({})' = 0
  BY SumEmpty DEF WindowInv, CutParagraph, SourceTokens
<1>8. SourceWithinWindow'
  <2>1. DOMAIN tasks' = {}
    BY <1>4
  <2> QED
    BY <2>1 DEF SourceWithinWindow
<1>9. used' = SourceTokens(fits)'
  BY <1>4, <1>7 DEF WindowInv
<1> QED
  BY <1>4, <1>6, <1>7, <1>8, <1>9 DEF WindowInv, CutParagraph

\* Planning: a unit is merged once, and only where it fits.
LEMMA WindowPlan ==
    ASSUME TypeOK, tasks = <<>>, WindowInv, PlanUnit
    PROVE  WindowInv'
<1>1. /\ next \in Indices /\ next \notin fits /\ fits \in SUBSET Indices
      /\ next \in Nat /\ next' = next + 1 /\ pc' = "plan" /\ pc = "plan"
      /\ UNCHANGED <<window, units, tasks>>
  BY DEF PlanUnit, WindowInv, TypeOK
<1>2. SourceTokens(fits \cup {next}) = SourceTokens(fits) + units[next]
  BY <1>1, TokensOf
<1>3. Indices' = Indices /\ \A us : SourceTokens(us)' = SourceTokens(us)
  BY <1>1 DEF Indices, SourceTokens
<1>4. used' = SourceTokens(fits)' /\ used' <= window'
  BY <1>1, <1>2, <1>3 DEF PlanUnit, WindowInv, Fits, SourceTokens
<1>5. \A u \in fits' : u < next'
  <2>1. \A u \in fits : u \in Nat /\ u < next
    BY <1>1, UnitsFinite DEF WindowInv
  <2>2. fits' \subseteq fits \cup {next}
    BY DEF PlanUnit
  <2> QED
    BY <1>1, <2>1, <2>2
<1>6. SourceWithinWindow'
  <2>1. DOMAIN tasks' = {}
    BY <1>1
  <2> QED
    BY <2>1 DEF SourceWithinWindow
<1> QED
  BY <1>1, <1>3, <1>4, <1>5, <1>6 DEF WindowInv

\* There is at most one lowest pending unit.
LEMMA LowestPending ==
    ASSUME TypeOK
    PROVE  \/ {u \in Pending : IsNextPending(u)} = {}
           \/ \E u \in Indices : {x \in Pending : IsNextPending(x)} = {u}
<1>1. Pending \subseteq Nat /\ Pending \subseteq Indices
  BY UnitsFinite DEF Pending
<1>2. ASSUME NEW u \in Pending, IsNextPending(u)
      PROVE  {x \in Pending : IsNextPending(x)} = {u}
  <2>1. ASSUME NEW v \in Pending, IsNextPending(v) PROVE v = u
    <3>1. u <= v /\ v <= u /\ u \in Nat /\ v \in Nat
      BY <1>1, <1>2, <2>1 DEF IsNextPending
    <3> QED
      BY <3>1
  <2> QED
    BY <1>2, <2>1
<1> QED
  BY <1>1, <1>2

\* Running: a task holds the merged units or one unit.
LEMMA WindowRun ==
    ASSUME SlicesInv, WindowInv,
           RunInitial \/ \E u \in Indices : RunContinuation(u)
    PROVE  WindowInv'
<1>1. /\ UNCHANGED <<window, units, used, fits, next>>
      /\ pc' = "continue"
      /\ TypeOK
  BY DEF RunInitial, RunContinuation, SlicesInv
<1>2. Indices' = Indices /\ \A us : SourceTokens(us)' = SourceTokens(us)
  BY <1>1 DEF Indices, SourceTokens
<1>3. /\ window \in Nat /\ SourceTokens(fits) <= window /\ SourceTokens({}) = 0
      /\ window > 0 => \A u \in Indices : SourceTokens({u}) <= window
  <2>1. ASSUME NEW u \in Indices PROVE SourceTokens({u}) = units[u]
    <3>1. {} \in SUBSET Indices /\ u \in Indices \ {}
      OBVIOUS
    <3> QED
      BY <1>1, <3>1, TokensOf
  <2>2. SourceTokens({}) = 0
    BY SumEmpty DEF SourceTokens
  <2> QED
    BY <1>1, <2>1, <2>2 DEF WindowInv, TypeOK
<1>4. SourceWithinWindow'
  <2> SUFFICES ASSUME window > 0, NEW t \in DOMAIN tasks'
               PROVE  SourceTokens(tasks'[t].units) <= window
    BY <1>1, <1>2 DEF SourceWithinWindow, SourceTokens
  <2>1. CASE RunInitial
    <3>1. tasks'[t].units = FirstUnits
      BY <2>1 DEF RunInitial
    <3>2. \/ FirstUnits = fits \/ FirstUnits = {}
          \/ \E u \in Indices : FirstUnits = {u}
      BY <1>1, LowestPending DEF FirstUnits
    <3> QED
      BY <1>3, <3>1, <3>2
  <2>2. ASSUME NEW u \in Indices, RunContinuation(u)
        PROVE  SourceTokens(tasks'[t].units) <= window
    <3>1. PICK full \in BOOLEAN :
            tasks' = Append(tasks, [units |-> {u}, brief |-> TRUE, text |-> full])
      BY <2>2 DEF RunContinuation
    <3>2. [units |-> {u}, brief |-> TRUE, text |-> full] \in Task
      BY <1>1, UnitsFinite DEF Task
    <3>3. tasks \in Seq(Task)
      BY <1>1 DEF TypeOK
    <3>4. \/ t \in DOMAIN tasks /\ tasks'[t] = tasks[t]
          \/ tasks'[t].units = {u}
      BY <3>1, <3>2, <3>3, DoneAppend
    <3> QED
      BY <1>3, <3>4 DEF WindowInv, SourceWithinWindow
  <2> QED
    BY <2>1, <2>2
<1> QED
  BY <1>1, <1>2, <1>4 DEF WindowInv, SourceTokens

\* Every step keeps the budget.
LEMMA WindowStep ==
    ASSUME SlicesInv, WindowInv, [Next]_vars
    PROVE  WindowInv'
<1>1. TypeOK /\ (pc \in {"cut", "plan"} => tasks = <<>>)
  BY DEF SlicesInv, PlanFirst
<1>2. CASE CutParagraph
  BY <1>1, <1>2, WindowCut DEF CutParagraph
<1>3. CASE PlanUnit
  BY <1>1, <1>3, WindowPlan DEF PlanUnit
<1>4. CASE RunInitial \/ \E u \in Indices : RunContinuation(u)
  BY <1>4, WindowRun
<1>5. CASE CutDone \/ PlanDone \/ RunRaises \/ Stitch \/ Ended \/ UNCHANGED vars
  <2>1. /\ UNCHANGED <<window, units, used, fits, tasks, next>>
        /\ pc' \in {"cut", "plan"} => fits = {} \/ pc' = pc
        /\ pc' = "cut" => pc = "cut"
    BY <1>5 DEF CutDone, PlanDone, RunRaises, Stitch, Ended, vars, WindowInv
  <2> QED
    BY <2>1 DEF WindowInv, SourceWithinWindow, SourceTokens, Indices
<1> QED
  BY <1>2, <1>3, <1>4, <1>5 DEF Next

\* No task is given more source than the planner has room for, for any text and
\* any context with room for a token.
THEOREM TasksFitWindow == Spec => []SourceWithinWindow
<1>1. WindowInv => SourceWithinWindow
  BY DEF WindowInv
<1> QED
  BY <1>1, WindowInit, WindowStep, SlicesInvariant, PTL DEF Spec

-----------------------------------------------------------------------------
(* The order the price list and the run share.                             *)

\* A pending unit has a rank of its own, from one to the number of them.
LEMMA RankGrows ==
    ASSUME TypeOK
    PROVE  /\ \A u \in Pending : Rank(u) \in 1..Cardinality(Pending)
           /\ \A u, v \in Pending : u < v => Rank(u) < Rank(v)
           /\ IsFiniteSet(Pending) /\ Pending \subseteq Nat
           /\ Cardinality(Pending) \in Nat
<1> DEFINE below(y) == {x \in Pending : x <= y}
<1>1. Pending \subseteq Nat /\ IsFiniteSet(Pending)
  BY UnitsFinite DEF Pending
<1>2. \A u : /\ IsFiniteSet(below(u)) /\ Cardinality(below(u)) \in Nat
             /\ Cardinality(below(u)) <= Cardinality(Pending)
  <2>1. \A u : below(u) \subseteq Pending
    OBVIOUS
  <2> HIDE DEF below
  <2> QED
    BY <1>1, <2>1, FS_Subset, FS_CardinalityType
<1>3. ASSUME NEW u \in Pending PROVE Rank(u) \in 1..Cardinality(Pending)
  <2>1. below(u) # {}
    BY <1>1
  <2>2. Cardinality(below(u)) # 0
    <3> HIDE DEF below
    <3> QED
      BY <1>2, <2>1, FS_EmptySet
  <2>3. Cardinality(Pending) \in Nat
    BY <1>1, FS_CardinalityType
  <2>4. Rank(u) = Cardinality(below(u))
    BY DEF Rank
  <2> HIDE DEF below
  <2> QED
    BY <1>2, <2>2, <2>3, <2>4
<1>4. ASSUME NEW u \in Pending, NEW v \in Pending, u < v
      PROVE  Rank(u) < Rank(v)
  <2>1. below(u) \cup {v} \subseteq below(v) /\ v \notin below(u)
    <3>1. u \in Nat /\ v \in Nat /\ \A x \in Pending : x \in Nat
      BY <1>1
    <3>2. \A x \in Pending : x <= u => x <= v /\ x # v
      BY <1>4, <3>1
    <3>3. \A x \in below(u) : x \in below(v) /\ x # v
      BY <3>2
    <3>4. v \in below(v)
      BY <3>1
    <3> HIDE DEF below
    <3> QED
      BY <3>3, <3>4
  <2>2. Rank(u) = Cardinality(below(u)) /\ Rank(v) = Cardinality(below(v))
    BY DEF Rank
  <2> HIDE DEF below
  <2>3. Cardinality(below(u) \cup {v}) = Cardinality(below(u)) + 1
    BY <1>2, <2>1, FS_AddElement
  <2>4. Cardinality(below(u) \cup {v}) <= Cardinality(below(v))
    BY <1>2, <2>1, FS_Subset
  <2> QED
    BY <1>2, <2>2, <2>3, <2>4
<1>5. Cardinality(Pending) \in Nat
  BY <1>1, FS_CardinalityType
<1> QED
  BY <1>1, <1>3, <1>4, <1>5

\* A rank is held by one pending unit.
LEMMA RankHeld ==
    ASSUME TypeOK, NEW u \in Pending
    PROVE  {x \in Pending : Rank(x) = Rank(u)} = {u}
<1>1. ASSUME NEW x \in Pending, Rank(x) = Rank(u) PROVE x = u
  <2>1. /\ x \in Nat /\ u \in Nat /\ Rank(x) \in Nat
        /\ x < u => Rank(x) < Rank(u)
        /\ u < x => Rank(u) < Rank(x)
    BY RankGrows
  <2> QED
    BY <1>1, <2>1
<1> QED
  BY <1>1

\* The pending units that are done lie below the one that is next.
LEMMA DoneBelow ==
    ASSUME SlicesInv, RankInv, pc = "continue", NEW u \in Indices,
           IsNextPending(u), NEW v \in Pending \cap Done
    PROVE  v < u
<1>1. /\ TypeOK /\ u \in Pending /\ u \notin Done /\ u \in Nat /\ v \in Nat
      /\ units # <<>>
  BY RankGrows DEF SlicesInv, IsNextPending, Indices
<1>2. PICK t \in DOMAIN tasks : v \in tasks[t].units
  BY DEF Done
<1>3. CASE t # 1
  BY <1>1, <1>2, <1>3 DEF SlicesInv, Frontier
<1>4. CASE t = 1
  <2>1. fits = {}
    BY <1>1, <1>2, <1>4 DEF RankInv, Pending
  <2>2. Merged = 0
    BY <2>1 DEF Merged
  <2>3. tasks[1].units = {x \in Pending : Rank(x) = 1 - Merged}
    <3>1. 1 \in DOMAIN tasks /\ 1 > Merged
      BY <1>2, <1>4, <2>2
    <3> QED
      BY <1>1, <3>1 DEF RankInv
  <2>4. Rank(v) = 1
    BY <1>2, <1>4, <2>2, <2>3
  <2>5. ~(u < v)
    <3>1. Rank(u) \in 1..Cardinality(Pending) /\ (u < v => Rank(u) < Rank(v))
      BY <1>1, RankGrows
    <3> QED
      BY <2>4, <3>1
  <2>6. u # v
    BY <1>1
  <2> QED
    BY <1>1, <2>5, <2>6
<1> QED
  BY <1>3, <1>4

\* The next unit is the one whose rank comes next.
LEMMA NextRank ==
    ASSUME SlicesInv, RankInv, pc = "continue", NEW u \in Indices,
           IsNextPending(u)
    PROVE  /\ u \in Pending
           /\ Rank(u) = Cardinality(Pending \cap Done) + 1
           /\ Cardinality(Pending \cap (Done \cup {u}))
                 = Cardinality(Pending \cap Done) + 1
<1>1. /\ TypeOK /\ u \in Pending /\ u \notin Done /\ u \in Nat
      /\ Pending \subseteq Nat
      /\ \A v \in Pending \ Done : u <= v
  BY RankGrows DEF SlicesInv, IsNextPending
<1>2. \A v \in Pending \cap Done : v < u
  BY DoneBelow
<1>3. {v \in Pending : v <= u} = (Pending \cap Done) \cup {u}
  <2>1. ASSUME NEW v \in Pending PROVE v <= u <=> v \in Done \/ v = u
    BY <1>1, <1>2
  <2> QED
    BY <1>1, <2>1
<1>4. Pending \cap (Done \cup {u}) = (Pending \cap Done) \cup {u}
  BY <1>1
<1>5. IsFiniteSet(Pending \cap Done) /\ u \notin Pending \cap Done
  BY <1>1, RankGrows, FS_Subset
<1>6. Cardinality((Pending \cap Done) \cup {u}) = Cardinality(Pending \cap Done) + 1
  BY <1>5, FS_AddElement
<1> QED
  BY <1>1, <1>3, <1>4, <1>6 DEF Rank

\* The first task keeps to the list.
LEMMA RankInitial ==
    ASSUME SlicesInv, RunInitial
    PROVE  RankInv'
<1>1. PICK full \in BOOLEAN :
        tasks' = <<[units |-> FirstUnits, brief |-> FALSE, text |-> full]>>
  BY DEF RunInitial
<1>2. /\ TypeOK /\ tasks = <<>> /\ Done = {}
      /\ UNCHANGED <<units, fits>> /\ Indices' = Indices /\ Pending' = Pending
      /\ Merged' = Merged
  BY DEF SlicesInv, PlanFirst, RunInitial, Done, Indices, Pending, Merged
<1>3. /\ DOMAIN tasks' = {1} /\ Len(tasks') = 1 /\ tasks'[1].units = FirstUnits
      /\ Done' = FirstUnits
  BY <1>1 DEF Done
<1>4. \A u : Rank(u)' = Rank(u)
  BY <1>2 DEF Rank
<1>5. CASE fits # {}
  <2>1. FirstUnits = fits /\ Merged = 1 /\ Pending \cap fits = {}
    BY <1>5 DEF FirstUnits, Merged, Pending
  <2>2. Cardinality(Pending' \cap Done') = Len(tasks') - Merged'
    BY <1>2, <1>3, <2>1, FS_EmptySet
  <2> QED
    BY <1>2, <1>3, <2>1, <2>2 DEF RankInv
<1>6. CASE fits = {} /\ units # <<>>
  <2>1. Pending = Indices /\ Indices = 1..Len(units) /\ 1 \in Pending
    <3>1. Indices = 1..Len(units) /\ Len(units) \in Nat
      BY <1>2, UnitsFinite
    <3>2. Len(units) # 0
      BY <1>2, <1>6, EmptySeq DEF TypeOK
    <3> QED
      BY <1>6, <3>1, <3>2 DEF Pending
  <2>2. IsNextPending(1) /\ \A x \in Pending : IsNextPending(x) => x = 1
    BY <1>2, <2>1 DEF IsNextPending
  <2>3. FirstUnits = {1} /\ Merged = 0
    BY <1>6, <2>1, <2>2 DEF FirstUnits, Merged
  <2>4. Rank(1) = 1
    <3>1. {v \in Pending : v <= 1} = {1}
      BY <2>1
    <3> QED
      BY <3>1, FS_Singleton DEF Rank
  <2>5. {x \in Pending : Rank(x) = 1} = {1}
    BY <1>2, <2>1, <2>4, RankHeld
  <2>6. Pending \cap {1} = {1}
    BY <2>1
  <2>7. Cardinality(Pending' \cap Done') = Len(tasks') - Merged'
    <3>1. Pending' \cap Done' = {1}
      BY <1>2, <1>3, <2>3, <2>6
    <3>2. Cardinality({1}) = 1 /\ Len(tasks') = 1 /\ Merged' = 0
      BY <1>2, <1>3, <2>3, FS_Singleton
    <3> QED
      BY <3>1, <3>2
  <2>8. tasks'[1].units = {x \in Pending' : Rank(x)' = 1 - Merged'}
    BY <1>2, <1>3, <1>4, <2>3, <2>5
  <2> QED
    BY <1>2, <1>3, <1>6, <2>7, <2>8 DEF RankInv
<1> QED
  BY <1>2, <1>5, <1>6 DEF RankInv

\* A continuation keeps to the list.
LEMMA RankContinuation ==
    ASSUME SlicesInv, RankInv, NEW u \in Indices, RunContinuation(u)
    PROVE  RankInv'
<1>1. PICK full \in BOOLEAN :
        tasks' = Append(tasks, [units |-> {u}, brief |-> TRUE, text |-> full])
  BY DEF RunContinuation
<1> DEFINE e == [units |-> {u}, brief |-> TRUE, text |-> full]
           n == Len(tasks) + 1
<1>2. /\ TypeOK /\ pc = "continue" /\ IsNextPending(u) /\ units # <<>>
      /\ UNCHANGED <<units, fits>> /\ Indices' = Indices /\ Pending' = Pending
      /\ Merged' = Merged /\ Merged \in {0, 1}
  BY DEF SlicesInv, RunContinuation, Indices, Pending, Merged
<1>3. e \in Task /\ e.units = {u}
  BY <1>2, UnitsFinite DEF Task
<1>4. /\ DOMAIN tasks' = DOMAIN tasks \cup {n} /\ Len(tasks') = n
      /\ DOMAIN tasks = 1..Len(tasks) /\ Len(tasks) \in Nat
      /\ \A t \in DOMAIN tasks : tasks'[t] = tasks[t]
      /\ tasks'[n] = e
      /\ Done' = Done \cup {u}
  <2>1. tasks \in Seq(Task)
    BY <1>2 DEF TypeOK
  <2> QED
    BY <1>1, <1>3, <2>1, DoneAppend
<1>5. \A x : Rank(x)' = Rank(x)
  BY <1>2 DEF Rank
<1>6. /\ u \in Pending
      /\ Rank(u) = Cardinality(Pending \cap Done) + 1
      /\ Cardinality(Pending \cap (Done \cup {u})) = Cardinality(Pending \cap Done) + 1
  BY <1>2, NextRank
<1>7. Cardinality(Pending \cap Done) = Len(tasks) - Merged
  BY <1>2 DEF RankInv
<1>8. Rank(u) = n - Merged
  BY <1>2, <1>4, <1>6, <1>7
<1>9. Cardinality(Pending' \cap Done') = Len(tasks') - Merged'
  BY <1>2, <1>4, <1>6, <1>7
<1>10. 1 \in DOMAIN tasks
  <2>1. tasks # <<>>
    BY <1>2 DEF SlicesInv, PlanFirst
  <2> QED
    BY <1>2, <1>4, <2>1, EmptySeq DEF TypeOK
<1>11. ASSUME NEW t \in DOMAIN tasks', t > Merged
       PROVE  tasks'[t].units = {x \in Pending : Rank(x) = t - Merged}
  <2>1. CASE t = n
    <3>1. {x \in Pending : Rank(x) = Rank(u)} = {u}
      BY <1>2, <1>6, RankHeld
    <3> QED
      BY <1>3, <1>4, <1>8, <2>1, <3>1
  <2>2. CASE t # n
    BY <1>2, <1>4, <1>11, <2>2 DEF RankInv
  <2> QED
    BY <2>1, <2>2
<1>12. fits' # {} => tasks'[1].units = fits'
  BY <1>2, <1>4, <1>10 DEF RankInv
<1> HIDE DEF e, n
<1> QED
  BY <1>2, <1>5, <1>9, <1>11, <1>12 DEF RankInv

\* Every step keeps to the list.
LEMMA RankStep ==
    ASSUME SlicesInv, RankInv, [Next]_vars
    PROVE  RankInv'
<1>1. CASE CutParagraph \/ CutDone \/ PlanUnit \/ PlanDone \/ RunRaises
  <2>1. pc' \notin {"continue", "done"}
    BY <1>1 DEF CutParagraph, CutDone, PlanUnit, PlanDone, RunRaises
  <2> QED
    BY <2>1 DEF RankInv
<1>2. CASE RunInitial
  BY <1>2, RankInitial
<1>3. CASE \E u \in Indices : RunContinuation(u)
  BY <1>3, RankContinuation
<1>4. CASE Stitch \/ Ended \/ UNCHANGED vars
  <2>1. /\ UNCHANGED <<units, fits, tasks>>
        /\ pc' \in {"continue", "done"} => pc \in {"continue", "done"}
    BY <1>4 DEF Stitch, Ended, vars
  <2>2. /\ Pending' = Pending /\ Done' = Done /\ Merged' = Merged
        /\ \A x : Rank(x)' = Rank(x)
    BY <2>1 DEF Pending, Indices, Done, Merged, Rank
  <2> QED
    BY <2>1, <2>2 DEF RankInv
<1> QED
  BY <1>1, <1>2, <1>3, <1>4 DEF Next

\* What stands where in two sequences put together.
LEMMA ConcatAt ==
    ASSUME NEW S, NEW s \in Seq(S), NEW t \in Seq(S)
    PROVE  /\ s \o t \in Seq(S)
           /\ DOMAIN (s \o t) = 1..(Len(s) + Len(t))
           /\ \A k \in 1..(Len(s) + Len(t)) :
                 (s \o t)[k] = IF k <= Len(s) THEN s[k] ELSE t[k - Len(s)]
OBVIOUS

\* A sequence that starts with a value and goes on as another sequence does.
LEMMA FirstThenRest ==
    ASSUME NEW S, NEW a \in S, NEW t \in Seq(S), NEW r \in Seq(S),
           Len(r) = Len(t) + 1, r[1] = a, \A k \in 1..Len(t) : r[k + 1] = t[k]
    PROVE  <<a>> \o t = r
<1>1. <<a>> \in Seq(S) /\ Len(<<a>>) = 1 /\ <<a>>[1] = a /\ Len(t) \in Nat
  OBVIOUS
<1>2. /\ <<a>> \o t \in Seq(S) /\ Len(<<a>> \o t) = Len(t) + 1
      /\ \A k \in 1..(Len(t) + 1) :
            (<<a>> \o t)[k] = IF k <= 1 THEN a ELSE t[k - 1]
  BY <1>1, ConcatAt, ConcatProperties
<1>3. ASSUME NEW k \in 1..(Len(t) + 1) PROVE (<<a>> \o t)[k] = r[k]
  <2>1. CASE k = 1
    BY <1>2, <2>1
  <2>2. CASE k # 1
    <3>1. k - 1 \in 1..Len(t) /\ (k - 1) + 1 = k
      BY <1>1, <2>2
    <3>2. r[(k - 1) + 1] = t[k - 1]
      BY <3>1
    <3> QED
      BY <1>1, <1>2, <2>2, <3>1, <3>2
  <2> QED
    BY <2>1, <2>2
<1> QED
  BY <1>2, <1>3, SeqEqual

\* A stitched text ran the tasks that were priced.
LEMMA RankedIsPriced ==
    ASSUME SlicesInv, RankInv
    PROVE  PricedAsRun
<1> SUFFICES ASSUME pc = "done", units # <<>>
             PROVE  PlannedTasks = [t \in DOMAIN tasks |-> tasks[t].units]
  BY DEF PricedAsRun
<1> DEFINE run == [t \in DOMAIN tasks |-> tasks[t].units]
<1>1. /\ TypeOK /\ Done = Indices /\ tasks # <<>>
  BY DEF SlicesInv, EveryUnitOnce, PlanFirst
<1>2. DOMAIN tasks = 1..Len(tasks) /\ Len(tasks) \in Nat \ {0}
  BY <1>1, EmptySeq DEF TypeOK
<1>3. Cardinality(Pending) = Len(tasks) - Merged
  <2>1. Pending \cap Done = Pending
    BY <1>1 DEF Pending
  <2> QED
    BY <2>1 DEF RankInv
<1>4. \A t \in DOMAIN tasks :
         t > Merged => run[t] = {u \in Pending : Rank(u) = t - Merged}
  BY DEF RankInv
<1>5. CASE fits = {}
  <2>1. Merged = 0 /\ PlannedTasks = RestTasks
    BY <1>5 DEF Merged, PlannedTasks
  <2>2. 1..Cardinality(Pending) = DOMAIN tasks
    BY <1>2, <1>3, <2>1
  <2>3. \A t \in DOMAIN tasks : {u \in Pending : Rank(u) = t} = run[t]
    BY <1>2, <1>4, <2>1
  <2> QED
    BY <2>1, <2>2, <2>3 DEF RestTasks
<1>6. CASE fits # {}
  <2>1. Merged = 1 /\ PlannedTasks = <<fits>> \o RestTasks /\ run[1] = fits
    BY <1>2, <1>6 DEF Merged, PlannedTasks, RankInv
  <2>2. Cardinality(Pending) \in Nat /\ Len(tasks) = Cardinality(Pending) + 1
    BY <1>2, <1>3, <2>1
  <2>3. /\ RestTasks \in Seq(SUBSET Indices)
        /\ Len(RestTasks) = Cardinality(Pending)
    <3>1. \A k : {u \in Pending : Rank(u) = k} \in SUBSET Indices
      BY DEF Pending
    <3> QED
      BY <2>2, <3>1 DEF RestTasks
  <2>4. run \in Seq(SUBSET Indices) /\ Len(run) = Len(tasks)
    <3>1. \A t \in 1..Len(tasks) : tasks[t].units \in SUBSET Indices
      BY <1>2 DEF SlicesInv, PlanFirst
    <3> QED
      BY <1>2, <3>1
  <2>5. ASSUME NEW k \in 1..Cardinality(Pending) PROVE run[k + 1] = RestTasks[k]
    <3>1. k + 1 \in DOMAIN tasks /\ k + 1 > Merged /\ k + 1 - Merged = k
      BY <1>2, <2>1, <2>2
    <3> DEFINE At(t) == {u \in Pending : Rank(u) = t - Merged}
    <3>2. run[k + 1] = At(k + 1)
      <4>1. \A t \in DOMAIN tasks : t > Merged => run[t] = At(t)
        BY <1>4
      <4> HIDE DEF run, At
      <4> QED
        BY <3>1, <4>1
    <3>3. At(k + 1) = {u \in Pending : Rank(u) = k}
      <4>1. \A u \in Pending : Rank(u) = (k + 1) - Merged <=> Rank(u) = k
        BY <2>1, <2>2
      <4> QED
        BY <4>1, Zenon
    <3> QED
      BY <3>2, <3>3 DEF RestTasks
  <2>6. fits \in SUBSET Indices
    BY <1>1 DEF TypeOK
  <2>7. <<fits>> \o RestTasks = run
    <3> HIDE DEF run
    <3> QED
      BY <2>1, <2>2, <2>3, <2>4, <2>5, <2>6, FirstThenRest
  <2> QED
    BY <2>1, <2>7
<1> QED
  BY <1>5, <1>6

\* The tasks a text is priced for are the tasks that run, in that order, for
\* any text and any context.
THEOREM PricedTasksRun == Spec => []PricedAsRun
<1>1. Init => RankInv
  BY DEF Init, RankInv
<1> QED
  BY <1>1, RankStep, RankedIsPriced, SlicesInvariant, PTL DEF Spec

=============================================================================
