--------------------------- MODULE ContextSlices ---------------------------
(***************************************************************************)
(* Long texts: plan_context_slices of agent_context.py,                    *)
(* run_context_managed_translation of agent_continuation.py and the task   *)
(* list agent_preflight.py prices.  A text is cut into units no larger     *)
(* than the context; the units that still fit are merged into the initial  *)
(* task and each other unit becomes a continuation task, which runs after  *)
(* it; then the outputs are stitched and verified.  A unit is known by its *)
(* number of tokens, a run by whether its text is empty.                   *)
(***************************************************************************)
EXTENDS Integers, Sequences, FiniteSets, FiniteSetsExt

CONSTANTS
    Paragraphs, \* the texts, each the token counts of its paragraphs
    Windows     \* the contexts, as available_input_tokens

ASSUME SlicesAssumption ==
    /\ Paragraphs \subseteq Seq(Nat)
    /\ Windows \subseteq Nat

VARIABLES
    window,     \* available_input_tokens
    text,       \* the paragraphs still to cut
    units,      \* normalized_units, as token counts
    pc,         \* where in the two functions the call is
    next,       \* the unit the planning loop looks at
    used,       \* the tokens of the initial task so far
    fits,       \* the units with fits_current_task
    tasks,      \* the tasks that have run, in order
    report      \* the status of the stitch task's verification

vars == <<window, text, units, pc, next, used, fits, tasks, report>>

Task == [units : SUBSET Nat, brief : BOOLEAN, text : BOOLEAN]

-----------------------------------------------------------------------------
(* Cutting and planning.                                                   *)

\* _split_unit_to_budget cuts where a token would be one too many, so every
\* piece but the last is full; without room for any token it cuts nothing.
Pieces(n, w) ==
    IF w = 0 \/ n <= w THEN <<n>>
    ELSE [k \in 1..(n \div w) |-> w] \o
         (IF n % w = 0 THEN <<>> ELSE <<n % w>>)

Indices == DOMAIN units
FaultyPending == {u \in Indices : \A v \in fits : u > v}
Pending == Indices \ fits
Done == UNION {tasks[t].units : t \in DOMAIN tasks}

FaultyFits(u) == used + units[u] <= window + 1

\* A unit without a token, a row of dashes say, never fits.
Fits(u) == units[u] > 0 /\ used + units[u] <= window

FaultyIsNextPending(u) == u \in Pending \ Done

\* The lowest pending unit no task has taken.
IsNextPending(u) == /\ u \in Pending \ Done
                    /\ \A v \in Pending \ Done : u <= v

-----------------------------------------------------------------------------
Init ==
    /\ window \in Windows
    /\ text \in Paragraphs
    /\ units = <<>>
    /\ pc = "cut"
    /\ next = 1
    /\ used = 0
    /\ fits = {}
    /\ tasks = <<>>
    /\ report = "none"

\* One turn of the loop that cuts.
CutParagraph ==
    /\ pc = "cut" /\ text # <<>>
    /\ units' = units \o Pieces(Head(text), window)
    /\ text' = Tail(text)
    /\ UNCHANGED <<window, pc, next, used, fits, tasks, report>>

CutDone ==
    /\ pc = "cut" /\ text = <<>>
    /\ pc' = "plan"
    /\ UNCHANGED <<window, text, units, next, used, fits, tasks, report>>

\* One turn of the planning loop.
PlanUnit ==
    /\ pc = "plan" /\ next \in Indices
    /\ IF Fits(next)
       THEN fits' = fits \cup {next} /\ used' = used + units[next]
       ELSE UNCHANGED <<fits, used>>
    /\ next' = next + 1
    /\ UNCHANGED <<window, text, units, pc, tasks, report>>

PlanDone ==
    /\ pc = "plan" /\ next \notin Indices
    /\ pc' = "initial"
    /\ UNCHANGED <<window, text, units, next, used, fits, tasks, report>>

\* The first task: the merged units; if none fits, the first unit alone; and
\* for a blank text, which has no unit, nothing.
FirstUnits == IF fits # {} THEN fits ELSE {u \in Pending : IsNextPending(u)}

\* _run_slice with the first slice.
RunInitial ==
    /\ pc = "initial"
    /\ \E full \in BOOLEAN :
          tasks' = <<[units |-> FirstUnits, brief |-> FALSE, text |-> full]>>
    /\ pc' = "continue"
    /\ UNCHANGED <<window, text, units, next, used, fits, report>>

\* _run_slice with a continuation slice, which inherits the brief.
RunContinuation(u) ==
    /\ pc = "continue" /\ IsNextPending(u)
    /\ \E full \in BOOLEAN :
          tasks' = Append(tasks, [units |-> {u}, brief |-> TRUE, text |-> full])
    /\ UNCHANGED <<window, text, units, pc, next, used, fits, report>>

\* A run raises: the caller gets nothing, the runs before it stay stored.
RunRaises ==
    /\ \/ pc = "initial"
       \/ pc = "continue" /\ Pending \ Done # {}
    /\ pc' = "raised"
    /\ UNCHANGED <<window, text, units, next, used, fits, tasks, report>>

FaultyVerification == IF tasks[1].text THEN "passed" ELSE "needs_review"

\* _verify_stitched_text.  Its order check compares the stitched text with
\* the same join, its segment count counts the tasks that have a run, which
\* all have, and its limit check looks for a trace line every run gets: what
\* is left to fail is an empty part.
Verification == IF \A t \in DOMAIN tasks : tasks[t].text
                THEN "passed" ELSE "needs_review"

Stitch ==
    /\ pc = "continue" /\ Pending \subseteq Done
    /\ report' = Verification
    /\ pc' = "done"
    /\ UNCHANGED <<window, text, units, next, used, fits, tasks>>

Ended == pc \in {"done", "raised"} /\ UNCHANGED vars

Next == \/ CutParagraph \/ CutDone \/ PlanUnit \/ PlanDone \/ RunInitial
        \/ \E u \in Indices : RunContinuation(u)
        \/ RunRaises \/ Stitch \/ Ended

Spec == Init /\ [][Next]_vars

-----------------------------------------------------------------------------
(* The task list of _planned_tasks, which prices the same text.            *)

\* Where a pending unit stands among the pending ones: the list keeps their
\* order and has a task for each.
Rank(u) == Cardinality({v \in Pending : v <= u})
RestTasks == [k \in 1..Cardinality(Pending) |-> {u \in Pending : Rank(u) = k}]

FaultyPlannedTasks ==
    IF fits # {} THEN <<fits>> \o RestTasks ELSE Tail(RestTasks)

PlannedTasks == IF fits # {} THEN <<fits>> \o RestTasks ELSE RestTasks

-----------------------------------------------------------------------------
(* Properties.                                                             *)

\* The types of the plan, the tasks and the report: merged units are units
\* of the text and a report has one of its two statuses.
TypeOK ==
    /\ window \in Nat
    /\ text \in Seq(Nat) /\ units \in Seq(Nat)
    /\ pc \in {"cut", "plan", "initial", "continue", "done", "raised"}
    /\ next \in Nat \ {0}
    /\ used \in Nat
    /\ fits \subseteq Indices
    /\ tasks \in Seq(Task)
    /\ report \in {"none", "passed", "needs_review"}

\* Nothing of a text is translated twice and, once stitched, nothing is left
\* out, however the units fell to the initial task and the continuations.
EveryUnitOnce ==
    /\ \A a, b \in DOMAIN tasks : a # b => tasks[a].units \cap tasks[b].units = {}
    /\ pc = "done" => Done = Indices

\* The source a task is given: as long as there is room for any token, the
\* units of a task never hold more tokens than the planner has room for.  (The
\* prompt is larger: the instructions, the lexicon, the training text and, for
\* a continuation, the brief come on top of these units, and nothing compares
\* their sum with the context; only the reserved output leaves room for them.
\* With a context no larger than that reserve no unit is cut, and the report's
\* limit check, which only looks for a trace line, passes all the same.)
SourceTokens(us) == SumFunctionOnSet(units, us)
SourceWithinWindow ==
    window > 0 => \A t \in DOMAIN tasks : SourceTokens(tasks[t].units) <= window

\* The tasks the user was shown a price for are the tasks that run, in the
\* same order: preflight and run plan the text separately.
PricedAsRun ==
    pc = "done" /\ units # <<>> =>
        PlannedTasks = [t \in DOMAIN tasks |-> tasks[t].units]

\* A passed report vouches for a text of every unit: each has a translation
\* that is not empty.
PassedIsComplete ==
    report = "passed" =>
        \A u \in Indices : \E t \in DOMAIN tasks : u \in tasks[t].units /\ tasks[t].text

\* The continuations come in the order of the source, each after the initial
\* task and with its brief.
ContinuationsInOrder ==
    /\ \A t \in DOMAIN tasks : tasks[t].brief <=> t > 1
    /\ \A a, b \in DOMAIN tasks \ {1} : a < b =>
          \A u \in tasks[a].units, v \in tasks[b].units : u < v

\* user_manual_zh.md:332 and desktop_agent_core_zh.md:97 say that the stitch
\* task checks the order.  The merged initial task may hold a unit that comes
\* after a pending one, and the report passes all the same.
PassedIsInOrder ==
    report = "passed" =>
        \A a, b \in DOMAIN tasks : a < b =>
            \A u \in tasks[a].units, v \in tasks[b].units : u < v

-----------------------------------------------------------------------------
(* The inductive invariant behind EveryUnitOnce, ContinuationsInOrder and   *)
(* PassedIsComplete.                                                       *)

\* Tasks exist only once the plan stands, and the first covers what fits.
PlanFirst ==
    /\ pc \in {"cut", "plan", "initial"} => tasks = <<>>
    /\ pc \in {"continue", "done"} => tasks # <<>> /\ fits \subseteq Done
    /\ \A t \in DOMAIN tasks : tasks[t].units \subseteq Indices

\* What is still pending lies behind every continuation that has run.
Frontier == \A t \in DOMAIN tasks \ {1} :
                \A u \in tasks[t].units, v \in Pending \ Done : u < v

ReportHonest ==
    report = "passed" => pc = "done" /\ \A t \in DOMAIN tasks : tasks[t].text

\* Everything at once, as the proof needs it.
SlicesInv == /\ TypeOK /\ PlanFirst /\ Frontier /\ ReportHonest
             /\ EveryUnitOnce /\ ContinuationsInOrder

\* The budget behind SourceWithinWindow: what is merged is counted and fits,
\* and no unit alone is too large.
WindowInv ==
    /\ window > 0 => \A u \in Indices : units[u] <= window
    /\ used = SourceTokens(fits) /\ used <= window
    /\ pc = "cut" => fits = {}
    /\ pc = "plan" => \A u \in fits : u < next
    /\ SourceWithinWindow

\* The tasks before the continuations that the price list takes one by one.
Merged == IF fits # {} THEN 1 ELSE 0

\* The order behind PricedAsRun: a run goes through the pending units in the
\* order of their ranks, one task each.
RankInv ==
    pc \in {"continue", "done"} /\ units # <<>> =>
        /\ fits # {} => tasks[1].units = fits
        /\ Cardinality(Pending \cap Done) = Len(tasks) - Merged
        /\ \A t \in DOMAIN tasks :
              t > Merged => tasks[t].units = {u \in Pending : Rank(u) = t - Merged}

=============================================================================
