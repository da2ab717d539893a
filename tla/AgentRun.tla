------------------------------ MODULE AgentRun ------------------------------
(***************************************************************************)
(* One agent run: run_agent_translation of agent_workflows.py.  The run    *)
(* takes up to three rounds; in a round it calls every active provider in  *)
(* turn, scores the consensus of all candidates gathered so far and, when  *)
(* the mode asks for it, has an evaluator judge the winning text.  Each    *)
(* call that leaves the process is a step of its own, and so is the commit *)
(* to the store: a step between two of them is where a provider may raise, *)
(* the budget may run out or the process may die.                          *)
(***************************************************************************)
EXTENDS Integers, Sequences, FiniteSets, FiniteSetsExt

CONSTANTS
    ProviderLists,  \* the provider lists a caller may pass, sequences
    Evaluators,     \* the evaluators a caller may pass
    Limits,         \* the budget limits a caller may pass
    MaxCloud        \* MAX_CLOUD_PROVIDERS

Provider == [requires_api : BOOLEAN, kind : {"local", "cloud", "mock"},
             cost : Nat]
Evaluator == [remote : BOOLEAN, cost : Nat]

ASSUME InputsAssumption ==
    /\ \A ps \in ProviderLists : ps \in Seq(Provider)
    /\ Evaluators \subseteq Evaluator
    /\ Limits \subseteq Int
    /\ MaxCloud \in Nat

VARIABLES
    request,    \* the arguments of the call
    pc,         \* where in the function the run is
    policy,     \* the ModePolicy in force
    active,     \* active_providers, as positions in request.providers
    todo,       \* the active providers this round has still to visit
    workflow,   \* WorkflowStateMachine.state
    round,      \* round_index
    spent,      \* contract.budget["spent"]
    candidates, \* the candidates gathered, as <<round, provider position>>
    decision,   \* the last ConsensusDecision
    judge,      \* active_evaluator
    verdicts,   \* round judged |-> whether the score reached the threshold
    status,     \* contract.status
    raised,     \* the exception that ended the call, "none" if it returned
    row         \* what the store holds of the run

vars == <<request, pc, policy, active, todo, workflow, round, spent,
          candidates, decision, judge, verdicts, status, raised, row>>

M == INSTANCE WorkflowMachine
P == INSTANCE MetaPolicy

Request == [mode : P!AgentMode, providers : ProviderLists, api : BOOLEAN,
            limit : Limits, materials : BOOLEAN, evaluator : Evaluators,
            allowMock : BOOLEAN]

NoDecision == [round |-> 0, text |-> FALSE, strong |-> FALSE, review |-> TRUE]
LocalJudge == [remote |-> FALSE, cost |-> 0]
NoRow == [status |-> "absent", spent |-> 0, proposal |-> "none"]

-----------------------------------------------------------------------------
(* The provider list.  Each operator named Faulty... is a plausible slip in *)
(* the definition below it; no specification uses one.                      *)

Positions == DOMAIN request.providers
IsCloud(i) == \/ request.providers[i].requires_api
              \/ request.providers[i].kind = "cloud"
IsMock(i) == request.providers[i].kind = "mock"

\* _limited_cloud_provider_set: the first MaxCloud cloud providers of the
\* list stay, every local one does.
WithinCloudLimit ==
    {i \in Positions :
        IsCloud(i) => Cardinality({j \in 1..i : IsCloud(j)}) <= MaxCloud}

ActiveProviders == IF request.api THEN WithinCloudLimit ELSE Positions

NeedsApi(i) == request.providers[i].requires_api /\ ~request.api

Runnable == {i \in active : ~NeedsApi(i)}
LocalStarted == \E i \in active : ~IsCloud(i)
CloudStarted == \E i \in active : IsCloud(i) /\ ~NeedsApi(i)

\* The loop visits the active providers in the order of the list.
IsNext(i) == i \in todo /\ \A j \in todo : i <= j

-----------------------------------------------------------------------------
(* Budget, judge and verdict.                                              *)

FaultyOverBudget(cost) == spent > request.limit
OverBudget(cost) == spent + cost > request.limit

FaultyCharged(cost) == spent
Charged(cost) == spent + cost

FaultyJudgeInForce == judge
JudgeInForce == IF judge.remote /\ ~request.api THEN LocalJudge ELSE judge

ValidationPassed == policy.validation => \E r \in 1..round : <<r, TRUE>> \in verdicts

FaultyVerdict ==
    IF status = "budget_exceeded" THEN status
    ELSE IF candidates = {} THEN "needs_review"
    ELSE IF policy.gate THEN "awaiting_human_confirmation"
    ELSE "finalized"

\* The status a run ends with, in the order the code decides it.
Verdict ==
    IF status = "budget_exceeded" THEN status
    ELSE IF candidates = {} \/ ~ValidationPassed THEN "needs_review"
    ELSE IF policy.gate THEN "awaiting_human_confirmation"
    ELSE IF decision.review /\ ~policy.validation THEN "needs_review"
    ELSE "finalized"

FaultySettledWorkflow == IF workflow = "consensusScoring" /\ candidates # {}
                         THEN M!After(workflow, "ARBITRATION_DONE")
                         ELSE workflow
\* The workflow state the verdict leaves behind.
SettledWorkflow ==
    IF status = "budget_exceeded" THEN workflow
    ELSE IF candidates = {}
    THEN IF workflow = "failed" THEN workflow
         ELSE M!After(workflow, "ERROR_OCCURRED")
    ELSE IF workflow = "consensusScoring"
    THEN M!After(workflow, IF Verdict = "finalized" THEN "USER_CONFIRMED"
                                                    ELSE "ARBITRATION_DONE")
    ELSE workflow

\* _build_memory_proposals: no text, no proposal; no gate, no confirmation
\* asked for, so record_result stores the proposal as confirmed.
Proposal == IF ~decision.text THEN "none"
            ELSE IF policy.gate THEN "pending" ELSE "confirmed"

-----------------------------------------------------------------------------
(* The events of one round.                                                *)

RoundEvent == IF LocalStarted THEN "LOCAL_TRANSLATION_DONE"
                              ELSE "CLOUD_TRANSLATION_DONE"

AfterLocal(w) ==
    IF candidates # {} /\ w = "localTranslating"
    THEN M!After(w, "LOCAL_TRANSLATION_DONE") ELSE w

AfterCloud(w) ==
    IF CloudStarted /\ w \in {"localTranslating", "localReviewing"}
    THEN M!After(w, "CLOUD_TRANSLATION_DONE") ELSE w

AfterCrossfire(w) ==
    IF CloudStarted /\ w = "cloudTranslating"
    THEN M!After(w, "CROSSFIRE_DONE") ELSE w

FaultyBeforeConsensus == AfterCloud(AfterLocal(workflow))
\* The state in which CONSENSUS_DONE finds the machine.
BeforeConsensus == AfterCrossfire(AfterCloud(AfterLocal(workflow)))

\* What arbitration can return: no usable text scores nothing, and a score
\* below the threshold, or any conflict, asks for review.
Consensus == {d \in [round : {round}, text : BOOLEAN, strong : BOOLEAN,
                     review : BOOLEAN] :
                /\ ~d.text => ~d.strong
                /\ ~d.strong => d.review}

-----------------------------------------------------------------------------
Init ==
    /\ request \in Request
    /\ pc = "start"
    /\ policy = [rounds |-> 0, gate |-> TRUE, validation |-> FALSE]
    /\ active = {} /\ todo = {}
    /\ workflow = "idle"
    /\ round = 0
    /\ spent = 0
    /\ candidates = {}
    /\ decision = NoDecision
    /\ judge = request.evaluator
    /\ verdicts = {}
    /\ status = "running"
    /\ raised = "none"
    /\ row = NoRow

Raise(e) == /\ pc' = "raised"
            /\ raised' = e

MockRefused == ~request.allowMock /\ \E i \in Positions : IsMock(i)

\* PermissionError before anything else is looked at.
RefuseMock ==
    /\ pc = "start" /\ MockRefused
    /\ Raise("mock")
    /\ UNCHANGED <<request, policy, active, todo, workflow, round, spent,
                   candidates, decision, judge, verdicts, status, row>>

\* The modes the policy agent may select for a self_decision run, given
\* what the validation set, the ratings and the risk score say at that moment.
SelectedModes ==
    {P!SelectMode(request.materials, request.api,
                  \E i \in Positions : ~IsCloud(i), request.limit,
                  low, review, risk) :
        low \in BOOLEAN, review \in BOOLEAN, risk \in BOOLEAN}

\* The policies the run may be under.
Policies == IF request.mode = "self_decision"
            THEN {P!MetaPolicyFor(m) : m \in SelectedModes}
            ELSE {P!PolicyFor(request.mode)}

RefuseMaterials ==
    /\ pc = "start" /\ ~MockRefused
    /\ \E p \in Policies : p.validation /\ ~request.materials
    /\ Raise("materials")
    /\ UNCHANGED <<request, policy, active, todo, workflow, round, spent,
                   candidates, decision, judge, verdicts, status, row>>

Start ==
    /\ pc = "start" /\ ~MockRefused
    /\ \E p \in Policies :
          /\ p.validation => request.materials
          /\ policy' = p
    /\ active' = ActiveProviders
    /\ workflow' = M!After(workflow, "START_TRANSLATION")
    /\ pc' = "round"
    /\ UNCHANGED <<request, todo, round, spent, candidates, decision, judge,
                   verdicts, status, raised, row>>

FaultyNextRound == round
NextRound == round + 1

\* The head of the round loop: one event says which kind of provider the
\* round starts with; a round without any started provider has none.
BeginRound ==
    /\ pc = "round" /\ round < policy.rounds
    /\ round' = NextRound
    /\ todo' = active
    /\ workflow' = IF LocalStarted \/ CloudStarted
                   THEN M!After(workflow, RoundEvent) ELSE workflow
    /\ pc' = "providers"
    /\ UNCHANGED <<request, policy, active, spent, candidates, decision,
                   judge, verdicts, status, raised, row>>

RoundsExhausted ==
    /\ pc = "round" /\ round >= policy.rounds
    /\ pc' = "settle"
    /\ UNCHANGED <<request, policy, active, todo, workflow, round, spent,
                   candidates, decision, judge, verdicts, status, raised, row>>

SkipProvider(i) ==
    /\ pc = "providers" /\ IsNext(i) /\ NeedsApi(i)
    /\ todo' = todo \ {i}
    /\ UNCHANGED <<request, pc, policy, active, workflow, round, spent,
                   candidates, decision, judge, verdicts, status, raised, row>>

\* An unaffordable call ends the run, not the round.
StopForBudget ==
    /\ workflow' = M!After(workflow, "ERROR_OCCURRED")
    /\ status' = "budget_exceeded"
    /\ pc' = "settle"

ProviderOverBudget(i) ==
    /\ pc = "providers" /\ IsNext(i) /\ ~NeedsApi(i)
    /\ OverBudget(request.providers[i].cost)
    /\ StopForBudget
    /\ UNCHANGED <<request, policy, active, todo, round, spent, candidates,
                   decision, judge, verdicts, raised, row>>

CallProvider(i) ==
    /\ pc = "providers" /\ IsNext(i) /\ ~NeedsApi(i)
    /\ ~OverBudget(request.providers[i].cost)
    /\ spent' = Charged(request.providers[i].cost)
    /\ candidates' = candidates \cup {<<round, i>>}
    /\ todo' = todo \ {i}
    /\ UNCHANGED <<request, pc, policy, active, workflow, round, decision,
                   judge, verdicts, status, raised, row>>

\* translate raises: a timeout, a refused key, a failed local engine.
ProviderRaises(i) ==
    /\ pc = "providers" /\ IsNext(i) /\ ~NeedsApi(i)
    /\ ~OverBudget(request.providers[i].cost)
    /\ Raise("provider")
    /\ UNCHANGED <<request, policy, active, todo, workflow, round, spent,
                   candidates, decision, judge, verdicts, status, row>>

ReachConsensus ==
    /\ pc = "providers" /\ todo = {}
    /\ M!Accepts(BeforeConsensus, "CONSENSUS_DONE")
    /\ workflow' = M!After(BeforeConsensus, "CONSENSUS_DONE")
    /\ decision' \in Consensus
    /\ pc' = IF policy.validation THEN "judge"
             ELSE IF decision'.strong THEN "settle" ELSE "round"
    /\ UNCHANGED <<request, policy, active, todo, round, spent, candidates,
                   judge, verdicts, status, raised, row>>

\* WorkflowStateMachine.apply raises ValueError.
RejectConsensus ==
    /\ pc = "providers" /\ todo = {}
    /\ ~M!Accepts(BeforeConsensus, "CONSENSUS_DONE")
    /\ Raise("workflow")
    /\ UNCHANGED <<request, policy, active, todo, workflow, round, spent,
                   candidates, decision, judge, verdicts, status, row>>

JudgeOverBudget ==
    /\ pc = "judge"
    /\ judge' = JudgeInForce
    /\ OverBudget(JudgeInForce.cost)
    /\ StopForBudget
    /\ UNCHANGED <<request, policy, active, todo, round, spent, candidates,
                   decision, verdicts, raised, row>>

\* A passing score leaves the loop, a failing one goes to the next round.
JudgeText ==
    /\ pc = "judge"
    /\ judge' = JudgeInForce
    /\ ~OverBudget(JudgeInForce.cost)
    /\ spent' = Charged(JudgeInForce.cost)
    /\ \E pass \in BOOLEAN :
          /\ verdicts' = verdicts \cup {<<round, pass>>}
          /\ pc' = IF pass THEN "settle" ELSE "round"
    /\ UNCHANGED <<request, policy, active, todo, workflow, round, candidates,
                   decision, status, raised, row>>

JudgeRaises ==
    /\ pc = "judge"
    /\ ~OverBudget(JudgeInForce.cost)
    /\ Raise("evaluator")
    /\ UNCHANGED <<request, policy, active, todo, workflow, round, spent,
                   candidates, decision, judge, verdicts, status, row>>

Settle ==
    /\ pc = "settle"
    /\ status' = Verdict
    /\ workflow' = SettledWorkflow
    /\ pc' = "commit"
    /\ UNCHANGED <<request, policy, active, todo, round, spent, candidates,
                   decision, judge, verdicts, raised, row>>

\* commit_agent_result and AgentRunStore.record_result: the run and its
\* proposal in one transaction.
Commit ==
    /\ pc = "commit"
    /\ row' = [status |-> status, spent |-> spent, proposal |-> Proposal]
    /\ pc' = "done"
    /\ UNCHANGED <<request, policy, active, todo, workflow, round, spent,
                   candidates, decision, judge, verdicts, status, raised>>

\* The store raises (locked, read-only): the transaction rolls back.
CommitRaises ==
    /\ pc = "commit"
    /\ Raise("store")
    /\ UNCHANGED <<request, policy, active, todo, workflow, round, spent,
                   candidates, decision, judge, verdicts, status, row>>

Ended ==
    /\ pc \in {"done", "raised"}
    /\ UNCHANGED vars

Step ==
    \/ RefuseMock \/ RefuseMaterials \/ Start
    \/ BeginRound \/ RoundsExhausted
    \/ \E i \in Positions : \/ SkipProvider(i)
                            \/ ProviderOverBudget(i)
                            \/ CallProvider(i)
                            \/ ProviderRaises(i)
    \/ ReachConsensus \/ RejectConsensus
    \/ JudgeOverBudget \/ JudgeText \/ JudgeRaises
    \/ Settle \/ Commit \/ CommitRaises

Next == Step \/ Ended

Spec == Init /\ [][Next]_vars

\* The calls a run waits for come back: each carries a timeout or runs in
\* the process itself, and nothing else delays the next statement.
FairSpec == Spec /\ WF_vars(Step)

-----------------------------------------------------------------------------
(* Properties.                                                             *)

Calls == (Nat \ {0}) \X Positions

\* The run's variables keep their types: a run never leaves the statuses,
\* states and exceptions the code names.
TypeOK ==
    /\ request \in Request
    /\ pc \in {"start", "round", "providers", "judge", "settle", "commit",
               "done", "raised"}
    /\ policy \in [rounds : Nat, gate : BOOLEAN, validation : BOOLEAN]
    /\ active \subseteq Positions /\ todo \subseteq active
    /\ workflow \in M!WorkflowState
    /\ round \in Nat
    /\ spent \in Nat
    /\ candidates \subseteq Calls
    /\ decision \in [round : Nat, text : BOOLEAN, strong : BOOLEAN,
                     review : BOOLEAN]
    /\ judge \in Evaluator
    /\ verdicts \subseteq (Nat \ {0}) \X BOOLEAN
    /\ status \in {"running", "awaiting_human_confirmation", "finalized",
                   "needs_review", "budget_exceeded"}
    /\ raised \in {"none", "mock", "materials", "provider", "workflow",
                   "evaluator", "store"}
    /\ row \in [status : {"absent", "awaiting_human_confirmation",
                          "finalized", "needs_review", "budget_exceeded"},
                spent : Nat, proposal : {"none", "pending", "confirmed"}]

\* Money is spent only inside the limit, whatever the providers, the
\* rounds and the evaluator cost together and however the run ends.  A free
\* run may take place under any limit that is not negative.
BudgetRespected == spent > 0 => spent <= request.limit

\* What the providers' calls cost, one fee per candidate.
Fees == SumFunction([c \in candidates |-> request.providers[c[2]].cost])

\* The amount the store reports is the cost of the calls that were made: one
\* per candidate and one evaluation per judged round, over all the rounds.
SpendAccounted ==
    row # NoRow => row.spent = Fees + Cardinality(verdicts) * judge.cost

\* With the API off no remote provider contributes a candidate, in any
\* round, and no remote evaluator gives a verdict.
ApiOffStaysLocal ==
    ~request.api =>
        /\ \A c \in candidates : ~request.providers[c[2]].requires_api
        /\ verdicts # {} => ~judge.remote

\* A run is finalized without a human only on the text its evaluator passed:
\* the last round's, scored over every candidate of every round, after all
\* earlier rounds failed.
FinalizedTextWasValidated ==
    status = "finalized" =>
        /\ request.mode = "self_iterative"
        /\ decision.round = round
        /\ verdicts = ((1..(round - 1)) \X {FALSE}) \cup {<<round, TRUE>>}
        /\ candidates = (1..round) \X Runnable

\* However the policy agent chooses, a self_decision run is never finalized
\* by itself and never stores a proposal as already confirmed.
SelfDecisionStaysGated ==
    request.mode = "self_decision" =>
        status # "finalized" /\ row.proposal # "confirmed"

Shown(s) == IF s = "finalized" THEN "completed"
            ELSE IF s = "budget_exceeded" THEN "failed"
            ELSE "waitingHumanConfirmation"

\* What the store says of a run and the state the workflow machine shows in
\* its trace tell the same story.
StatusMatchesWorkflow ==
    row # NoRow => workflow = Shown(row.status)

\* Whatever mix of providers answers in whichever round, the run applies no
\* event the workflow machine refuses, unless no provider can run at all.
WorkflowNeverRefuses == raised = "workflow" => Runnable = {}

\* desktop_agent_core_zh.md:79 says that with the API off remote providers
\* are skipped.  A run that is given nothing but remote providers skips them
\* all, and then dies of the ValueError that CONSENSUS_DONE raises in state
\* inputReady; the branch that would report needs_review is never reached.
SkippedProvidersAreHarmless ==
    raised = "workflow" => request.providers = <<>>

\* Every run comes to an end: it returns a result or raises.
Terminates == <>(pc \in {"done", "raised"})

-----------------------------------------------------------------------------
(* The inductive invariant: what is true at each point of the function,    *)
(* so that one step is enough to see why the properties above hold.        *)

Scored(r) == (1..r) \X Runnable
Failed(r) == IF policy.validation THEN (1..r) \X {FALSE} ELSE {}

PolicyInv ==
    /\ pc \in {"start", "round", "providers", "judge"} => status = "running"
    /\ pc \in {"round", "providers", "judge"} => policy.rounds > 0
    /\ ~policy.gate => request.mode = "self_iterative" /\ policy.validation
    /\ raised # "none" => pc = "raised"
    /\ row # NoRow => pc = "done" /\ row.status = status
    /\ row.proposal = "confirmed" => ~policy.gate

AtStart ==
    pc = "start" => /\ workflow = "idle" /\ round = 0 /\ active = {}
                    /\ candidates = {} /\ verdicts = {}

AtRound ==
    pc = "round" =>
        /\ candidates = Scored(round) /\ verdicts = Failed(round)
        /\ round = 0 => workflow = "inputReady"
        /\ round > 0 => /\ workflow = "consensusScoring"
                        /\ Runnable # {} /\ decision.round = round

AtProviders ==
    pc = "providers" =>
        /\ round > 0
        /\ candidates = Scored(round - 1) \cup ({round} \X (Runnable \ todo))
        /\ verdicts = Failed(round - 1)
        /\ workflow = IF LocalStarted THEN "localTranslating"
                      ELSE IF CloudStarted THEN "cloudTranslating"
                      ELSE "inputReady"

RoundScored ==
    /\ workflow = "consensusScoring"
    /\ round > 0 /\ decision.round = round
    /\ Runnable # {} /\ candidates = Scored(round)

AtJudge ==
    pc = "judge" => /\ RoundScored /\ policy.validation
                    /\ verdicts = Failed(round - 1)

AtSettle ==
    pc = "settle" =>
        \/ status = "budget_exceeded" /\ workflow = "failed"
        \/ /\ status = "running" /\ RoundScored
           /\ \/ verdicts = Failed(round)
              \/ /\ policy.validation
                 /\ verdicts = Failed(round - 1) \cup {<<round, TRUE>>}

AtCommit ==
    pc \in {"commit", "done"} =>
        /\ status # "running"
        /\ workflow = Shown(status)

\* The conjunction the proof of the properties is an induction over.
IInv ==
    /\ TypeOK
    /\ BudgetRespected
    /\ ApiOffStaysLocal
    /\ PolicyInv
    /\ AtStart /\ AtRound /\ AtProviders /\ AtJudge /\ AtSettle /\ AtCommit
    /\ FinalizedTextWasValidated
    /\ WorkflowNeverRefuses

\* The money: at every point the run has spent what its calls cost, and the
\* evaluator that gave the verdicts is the one every later round asks.
SpendInv ==
    /\ IsFiniteSet(candidates) /\ IsFiniteSet(verdicts)
    /\ verdicts # {} => judge = JudgeInForce
    /\ spent = Fees + Cardinality(verdicts) * judge.cost
    /\ row # NoRow => row.spent = spent

=============================================================================
