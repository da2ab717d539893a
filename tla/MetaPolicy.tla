----------------------------- MODULE MetaPolicy -----------------------------
(***************************************************************************)
(* agent_contracts.policy_for_mode and MetaPolicyAgent.select_mode of      *)
(* agent_meta_policy.py: how many rounds a run of a mode may take, whether *)
(* a human must confirm it and whether it is validated, and how a          *)
(* self_decision run picks the mode it really runs in.                     *)
(***************************************************************************)
EXTENDS Integers

AgentMode ==
    {"local", "ai_assisted", "learning", "self_iterative", "self_decision",
     "pretraining"}

MaxSelfIterations == 3

\* The part of ModePolicy that depends on the mode.
PolicyFor(mode) ==
    [rounds     |-> IF mode \in {"local", "learning", "pretraining"}
                    THEN 1 ELSE 3,
     gate       |-> mode \notin {"self_iterative", "self_decision"},
     validation |-> mode \in {"pretraining", "self_iterative"}]

(***************************************************************************)
(* The ladder of select_mode.  The first rung that holds decides; every    *)
(* rung but the last keeps the run to one supervised round.  coverageLow,  *)
(* ratingReview and highRisk are the three comparisons the code makes on   *)
(* the validation set, the rating history and the risk score.              *)
(***************************************************************************)
SelectMode(materials, api, hasLocal, limit, coverageLow, ratingReview, highRisk) ==
    IF materials /\ ~api /\ hasLocal
    THEN "local"
    ELSE IF \/ ~materials
            \/ ~api
            \/ limit <= 0
            \/ coverageLow \/ ratingReview \/ highRisk
    THEN "learning"
    ELSE "self_iterative"

\* A plausible slip in the definition below it; no specification uses it.
FaultyMetaPolicyFor(mode) ==
    [rounds     |-> IF mode = "self_iterative" THEN MaxSelfIterations ELSE 1,
     gate       |-> PolicyFor(mode).gate,
     validation |-> PolicyFor(mode).validation]

\* select_mode's decision as run_agent_translation merges it into the policy
\* of the selected mode: its rounds, and a human gate that is always on.
MetaPolicyFor(mode) ==
    [rounds     |-> IF mode = "self_iterative" THEN MaxSelfIterations ELSE 1,
     gate       |-> TRUE,
     validation |-> PolicyFor(mode).validation]

=============================================================================
