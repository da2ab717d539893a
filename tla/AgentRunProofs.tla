--------------------------- MODULE AgentRunProofs ---------------------------
(***************************************************************************)
(* Proofs about AgentRun for every set of provider lists, evaluators and   *)
(* limits: the inductive invariant IInv and the safety properties that     *)
(* follow from it.                                                         *)
(***************************************************************************)
EXTENDS AgentRun, SumTheorems, TLAPS

\* The only arc of the table for state s and event e leads to t.
IsArc(s, e, t) ==
    \A u \in M!WorkflowState : <<s, e, u>> \in M!Transitions <=> u = t

\* The transition table is a function: the one arc of a state and an event
\* is what After returns.
LEMMA ArcIsAfter ==
    ASSUME NEW s, NEW e, NEW t \in M!WorkflowState, IsArc(s, e, t)
    PROVE  M!Accepts(s, e) /\ M!After(s, e) = t
BY DEF IsArc, M!After, M!Accepts

\* The arcs the run function takes, each the only one from its state.
LEMMA ForwardArcs ==
    /\ M!After("idle", "START_TRANSLATION") = "inputReady"
    /\ \A w \in {"inputReady", "consensusScoring"} :
          /\ M!After(w, "LOCAL_TRANSLATION_DONE") = "localTranslating"
          /\ M!After(w, "CLOUD_TRANSLATION_DONE") = "cloudTranslating"
    /\ M!After("localTranslating", "LOCAL_TRANSLATION_DONE") = "localReviewing"
    /\ \A w \in {"localTranslating", "localReviewing"} :
          M!After(w, "CLOUD_TRANSLATION_DONE") = "cloudTranslating"
    /\ M!After("cloudTranslating", "CROSSFIRE_DONE") = "crossfireRunning"
    /\ \A w \in {"localReviewing", "crossfireRunning"} :
          /\ M!Accepts(w, "CONSENSUS_DONE")
          /\ M!After(w, "CONSENSUS_DONE") = "consensusScoring"
<1> USE DEF M!Transitions, M!TranslationArcs, M!DecisionArcs, M!Rateable,
            M!Fallible, M!WorkflowState, IsArc
<1>1. IsArc("idle", "START_TRANSLATION", "inputReady")
  OBVIOUS
<1>2. \A w \in {"inputReady", "consensusScoring"} :
        /\ IsArc(w, "LOCAL_TRANSLATION_DONE", "localTranslating")
        /\ IsArc(w, "CLOUD_TRANSLATION_DONE", "cloudTranslating")
  OBVIOUS
<1>3. IsArc("localTranslating", "LOCAL_TRANSLATION_DONE", "localReviewing")
  OBVIOUS
<1>4. \A w \in {"localTranslating", "localReviewing"} :
        IsArc(w, "CLOUD_TRANSLATION_DONE", "cloudTranslating")
  OBVIOUS
<1>5. IsArc("cloudTranslating", "CROSSFIRE_DONE", "crossfireRunning")
  OBVIOUS
<1>6. \A w \in {"localReviewing", "crossfireRunning"} :
        IsArc(w, "CONSENSUS_DONE", "consensusScoring")
  OBVIOUS
<1> HIDE DEF M!Transitions, IsArc
<1> QED
  BY <1>1, <1>2, <1>3, <1>4, <1>5, <1>6, ArcIsAfter

\* The arcs a run takes when it ends.
LEMMA ClosingArcs ==
    /\ \A w \in {"inputReady", "localTranslating", "cloudTranslating",
                 "consensusScoring"} : M!After(w, "ERROR_OCCURRED") = "failed"
    /\ M!After("consensusScoring", "ARBITRATION_DONE") = "waitingHumanConfirmation"
    /\ M!After("consensusScoring", "USER_CONFIRMED") = "completed"
    /\ ~M!Accepts("inputReady", "CONSENSUS_DONE")
<1> USE DEF M!Transitions, M!TranslationArcs, M!DecisionArcs, M!Rateable,
            M!Fallible, M!WorkflowState, IsArc
<1>1. \A w \in {"inputReady", "localTranslating", "cloudTranslating",
                "consensusScoring"} : IsArc(w, "ERROR_OCCURRED", "failed")
  OBVIOUS
<1>2. IsArc("consensusScoring", "ARBITRATION_DONE", "waitingHumanConfirmation")
  OBVIOUS
<1>3. IsArc("consensusScoring", "USER_CONFIRMED", "completed")
  OBVIOUS
<1>4. ~M!Accepts("inputReady", "CONSENSUS_DONE")
  BY DEF M!Accepts
<1> HIDE DEF M!Transitions, IsArc
<1> QED
  BY <1>1, <1>2, <1>3, <1>4, ArcIsAfter

-----------------------------------------------------------------------------
(* Types.                                                                  *)

\* An active provider is a record of the list the caller passed.
LEMMA ProviderType ==
    ASSUME TypeOK, NEW i \in Positions
    PROVE  /\ request.providers[i] \in Provider
           /\ request.providers[i].requires_api \in BOOLEAN
           /\ request.providers[i].cost \in Nat
           /\ request.limit \in Int
<1>1. request.providers \in Seq(Provider) /\ request.limit \in Int
  BY InputsAssumption DEF TypeOK, Request
<1>2. request.providers[i] \in Provider
  BY <1>1 DEF Positions
<1> QED
  BY <1>1, <1>2 DEF Provider

\* The evaluator in force, given or replaced, has a cost.
LEMMA JudgeType ==
    ASSUME TypeOK
    PROVE  /\ JudgeInForce \in Evaluator
           /\ JudgeInForce.cost \in Nat
           /\ ~request.api => ~JudgeInForce.remote
BY DEF TypeOK, JudgeInForce, LocalJudge, Evaluator, Request

\* Every policy a run may start under has a round, and only an explicit
\* self_iterative run has no human gate.
LEMMA PoliciesType ==
    ASSUME NEW p \in Policies
    PROVE  /\ p \in [rounds : Nat, gate : BOOLEAN, validation : BOOLEAN]
           /\ p.rounds > 0
           /\ ~p.gate => request.mode = "self_iterative" /\ p.validation
<1>1. ASSUME NEW m
      PROVE  /\ P!PolicyFor(m) \in [rounds : Nat, gate : BOOLEAN,
                                    validation : BOOLEAN]
             /\ P!PolicyFor(m).rounds > 0
             /\ ~P!PolicyFor(m).gate =>
                   m \in {"self_iterative", "self_decision"}
             /\ P!PolicyFor("self_iterative").validation
  <2>1. /\ P!PolicyFor(m).rounds \in Nat \ {0}
        /\ P!PolicyFor(m).gate \in BOOLEAN
        /\ P!PolicyFor(m).validation \in BOOLEAN
    BY DEF P!PolicyFor
  <2>2. P!PolicyFor(m) \in [rounds : Nat, gate : BOOLEAN, validation : BOOLEAN]
    BY DEF P!PolicyFor
  <2>3. ~P!PolicyFor(m).gate => m \in {"self_iterative", "self_decision"}
    BY DEF P!PolicyFor
  <2>4. P!PolicyFor("self_iterative").validation
    BY DEF P!PolicyFor
  <2> QED
    BY <2>1, <2>2, <2>3, <2>4
<1>2. ASSUME NEW m
      PROVE  /\ P!MetaPolicyFor(m) \in [rounds : Nat, gate : BOOLEAN,
                                        validation : BOOLEAN]
             /\ P!MetaPolicyFor(m).rounds > 0
             /\ P!MetaPolicyFor(m).gate
  BY <1>1 DEF P!MetaPolicyFor, P!MaxSelfIterations
<1>3. CASE request.mode # "self_decision"
  BY <1>1, <1>3 DEF Policies
<1>4. CASE request.mode = "self_decision"
  <2>1. PICK m \in SelectedModes : p = P!MetaPolicyFor(m)
    BY <1>4 DEF Policies
  <2> QED
    BY <2>1, <1>2
<1> QED
  BY <1>3, <1>4

\* What depends only on the request and the active providers does not
\* change while they do not.
LEMMA RunnableFrame ==
    ASSUME request' = request, active' = active
    PROVE  /\ Positions' = Positions /\ Calls' = Calls
           /\ Runnable' = Runnable
           /\ LocalStarted' = LocalStarted /\ CloudStarted' = CloudStarted
BY DEF Positions, Calls, Runnable, LocalStarted, CloudStarted, IsCloud, NeedsApi

\* A round that starts with some kind of provider has one that can run.
LEMMA SomeRunnable ==
    Runnable # {} <=> LocalStarted \/ CloudStarted
BY DEF Runnable, LocalStarted, CloudStarted, IsCloud, NeedsApi

-----------------------------------------------------------------------------
(* The inductive invariant.                                                *)

\* The invariant holds when the function is entered.
LEMMA InitInv == Init => IInv
<1> SUFFICES ASSUME Init PROVE IInv
  OBVIOUS
<1>1. TypeOK
  BY InputsAssumption DEF Init, TypeOK, NoDecision, NoRow, Request,
     M!WorkflowState, Evaluator, Positions, Calls
<1>2. ApiOffStaysLocal /\ BudgetRespected
  BY DEF Init, ApiOffStaysLocal, BudgetRespected
<1>3. PolicyInv
  BY DEF Init, PolicyInv, NoRow
<1>4. AtStart /\ AtRound /\ AtProviders /\ AtJudge /\ AtSettle /\ AtCommit
  BY DEF Init, AtStart, AtRound, AtProviders, AtJudge, AtSettle, AtCommit
<1>5. FinalizedTextWasValidated /\ WorkflowNeverRefuses
  BY DEF Init, FinalizedTextWasValidated, WorkflowNeverRefuses
<1> QED
  BY <1>1, <1>2, <1>3, <1>4, <1>5 DEF IInv

\* A step that raises disturbs nothing but the way the call ends.
LEMMA RaiseInv ==
    ASSUME IInv, row = NoRow,
           NEW e \in {"mock", "materials", "provider", "workflow",
                      "evaluator", "store"},
           Raise(e), e = "workflow" => Runnable = {},
           UNCHANGED <<request, policy, active, todo, workflow, round, spent,
                       candidates, decision, judge, verdicts, status, row>>
    PROVE  IInv'
<1>1. /\ Positions' = Positions /\ Calls' = Calls /\ Runnable' = Runnable
  BY RunnableFrame
<1>2. TypeOK'
  BY <1>1 DEF IInv, TypeOK, Raise
<1>3. ApiOffStaysLocal' /\ BudgetRespected'
  BY DEF IInv, ApiOffStaysLocal, BudgetRespected
<1>4. PolicyInv'
  BY DEF IInv, PolicyInv, Raise, NoRow
<1>5. (AtStart /\ AtRound /\ AtProviders /\ AtJudge /\ AtSettle /\ AtCommit)'
  BY DEF Raise, AtStart, AtRound, AtProviders, AtJudge, AtSettle, AtCommit
<1>6. FinalizedTextWasValidated'
  BY <1>1 DEF IInv, FinalizedTextWasValidated
<1>7. WorkflowNeverRefuses'
  BY <1>1 DEF Raise, WorkflowNeverRefuses
<1> QED
  BY <1>2, <1>3, <1>4, <1>5, <1>6, <1>7 DEF IInv

\* Choosing the policy and the active providers keeps the invariant.
LEMMA StartInv ==
    ASSUME IInv, Start
    PROVE  IInv'
<1>1. /\ Positions' = Positions /\ Calls' = Calls
      /\ workflow' = "inputReady"
  BY ForwardArcs DEF Start, IInv, AtStart, Positions, Calls
<1>2. policy' \in Policies
  BY DEF Start
<1>3. /\ policy' \in [rounds : Nat, gate : BOOLEAN, validation : BOOLEAN]
      /\ policy'.rounds > 0
      /\ ~policy'.gate => request.mode = "self_iterative" /\ policy'.validation
  BY <1>2, PoliciesType
<1>4. active' \subseteq Positions /\ todo' = {}
  BY DEF IInv, TypeOK, AtStart, Start, ActiveProviders, WithinCloudLimit
<1>5. TypeOK'
  BY <1>1, <1>3, <1>4 DEF IInv, TypeOK, Start, M!WorkflowState
<1>6. ApiOffStaysLocal' /\ BudgetRespected'
  BY DEF IInv, ApiOffStaysLocal, BudgetRespected, Start
<1>7. PolicyInv'
  BY <1>3 DEF IInv, PolicyInv, Start, NoRow
<1>8. AtRound'
  <2>1. round' = 0 /\ candidates' = {} /\ verdicts' = {}
    BY DEF IInv, AtStart, Start
  <2>2. 1..0 = {}
    OBVIOUS
  <2>3. Scored(round)' = {}
    BY <2>1, <2>2 DEF Scored
  <2>4. Failed(round)' = {}
    BY <2>1, <2>2 DEF Failed
  <2> QED
    BY <1>1, <2>1, <2>3, <2>4 DEF AtRound
<1>9. (AtStart /\ AtProviders /\ AtJudge /\ AtSettle /\ AtCommit)'
  BY DEF Start, AtStart, AtProviders, AtJudge, AtSettle, AtCommit
<1>10. FinalizedTextWasValidated' /\ WorkflowNeverRefuses'
  BY DEF IInv, TypeOK, PolicyInv, Start, FinalizedTextWasValidated,
         WorkflowNeverRefuses
<1> QED
  BY <1>5, <1>6, <1>7, <1>8, <1>9, <1>10 DEF IInv

\* The head of a round: every runnable provider is still to be called.
LEMMA BeginRoundInv ==
    ASSUME IInv, BeginRound
    PROVE  IInv'
<1>1. /\ Positions' = Positions /\ Calls' = Calls /\ Runnable' = Runnable
      /\ LocalStarted' = LocalStarted /\ CloudStarted' = CloudStarted
      /\ round \in Nat /\ round' = round + 1 /\ round' - 1 = round
  BY RunnableFrame DEF BeginRound, NextRound, IInv, TypeOK
<1>2. workflow' = IF LocalStarted THEN "localTranslating"
                  ELSE IF CloudStarted THEN "cloudTranslating"
                  ELSE "inputReady"
  <2>1. workflow \in {"inputReady", "consensusScoring"}
    BY <1>1 DEF IInv, AtRound, BeginRound
  <2>2. CASE LocalStarted
    BY <2>1, <2>2, ForwardArcs DEF BeginRound, RoundEvent
  <2>3. CASE ~LocalStarted /\ CloudStarted
    BY <2>1, <2>3, ForwardArcs DEF BeginRound, RoundEvent
  <2>4. CASE ~LocalStarted /\ ~CloudStarted
    BY <1>1, <2>4, SomeRunnable DEF BeginRound, IInv, AtRound
  <2> QED
    BY <2>2, <2>3, <2>4
<1>3. TypeOK'
  <2>1. workflow' \in M!WorkflowState
    BY <1>2 DEF M!WorkflowState
  <2> QED
    BY <1>1, <2>1 DEF IInv, TypeOK, BeginRound
<1>4. ApiOffStaysLocal' /\ BudgetRespected'
  BY DEF IInv, ApiOffStaysLocal, BudgetRespected, BeginRound
<1>5. PolicyInv'
  BY DEF IInv, PolicyInv, BeginRound, NoRow
<1>6. AtProviders'
  <2>1. {round'} \X (Runnable' \ todo') = {}
    BY DEF Runnable, BeginRound
  <2>2. candidates' = Scored(round) /\ verdicts' = Failed(round)
    BY DEF IInv, AtRound, BeginRound
  <2>3. Scored(round - 1)' = Scored(round) /\ Failed(round - 1)' = Failed(round)
    BY <1>1 DEF Scored, Failed, BeginRound
  <2>4. round' > 0
    BY <1>1
  <2>5. candidates' = (Scored(round - 1) \cup ({round} \X (Runnable \ todo)))'
    BY <2>1, <2>2, <2>3
  <2> QED
    BY <1>1, <1>2, <2>2, <2>3, <2>4, <2>5 DEF AtProviders
<1>7. (AtStart /\ AtRound /\ AtJudge /\ AtSettle /\ AtCommit)'
  BY DEF BeginRound, AtStart, AtRound, AtJudge, AtSettle, AtCommit
<1>8. FinalizedTextWasValidated' /\ WorkflowNeverRefuses'
  BY DEF IInv, PolicyInv, BeginRound, FinalizedTextWasValidated,
         WorkflowNeverRefuses
<1> QED
  BY <1>3, <1>4, <1>5, <1>6, <1>7, <1>8 DEF IInv

\* Leaving the loop with no round left keeps the invariant.
LEMMA RoundsExhaustedInv ==
    ASSUME IInv, RoundsExhausted
    PROVE  IInv'
<1>1. /\ Positions' = Positions /\ Calls' = Calls /\ Runnable' = Runnable
  BY RunnableFrame DEF RoundsExhausted
<1>2. TypeOK'
  BY <1>1 DEF IInv, TypeOK, RoundsExhausted
<1>3. ApiOffStaysLocal' /\ BudgetRespected'
  BY DEF IInv, ApiOffStaysLocal, BudgetRespected, RoundsExhausted
<1>4. PolicyInv'
  BY DEF IInv, PolicyInv, RoundsExhausted, NoRow
<1>5. AtSettle'
  <2>1. round > 0 /\ status = "running"
    BY DEF IInv, TypeOK, PolicyInv, RoundsExhausted
  <2>2. RoundScored /\ verdicts = Failed(round)
    BY <2>1 DEF IInv, AtRound, RoundScored, RoundsExhausted
  <2>3. RoundScored' /\ (verdicts = Failed(round))'
    BY <1>1, <2>2 DEF RoundScored, Scored, Failed, RoundsExhausted
  <2> QED
    BY <2>1, <2>3 DEF AtSettle, RoundsExhausted
<1>6. (AtStart /\ AtRound /\ AtProviders /\ AtJudge /\ AtCommit)'
  BY DEF RoundsExhausted, AtStart, AtRound, AtProviders, AtJudge, AtCommit
<1>7. FinalizedTextWasValidated' /\ WorkflowNeverRefuses'
  BY DEF IInv, PolicyInv, RoundsExhausted, FinalizedTextWasValidated,
         WorkflowNeverRefuses
<1> QED
  BY <1>2, <1>3, <1>4, <1>5, <1>6, <1>7 DEF IInv

-----------------------------------------------------------------------------
(* The providers of a round.                                               *)

\* Where the machine can be while a round calls its providers.
LEMMA CallingState ==
    ASSUME IInv, pc = "providers"
    PROVE  /\ workflow \in {"inputReady", "localTranslating", "cloudTranslating"}
           /\ Runnable # {} => workflow # "inputReady"
           /\ status = "running" /\ row = NoRow /\ raised = "none"
BY SomeRunnable DEF IInv, TypeOK, AtProviders, PolicyInv

\* Passing over a remote provider keeps the invariant.
LEMMA SkipProviderInv ==
    ASSUME IInv, NEW i \in Positions, SkipProvider(i)
    PROVE  IInv'
<1>1. /\ Positions' = Positions /\ Calls' = Calls /\ Runnable' = Runnable
      /\ LocalStarted' = LocalStarted /\ CloudStarted' = CloudStarted
  BY RunnableFrame DEF SkipProvider
<1>2. TypeOK'
  BY <1>1 DEF IInv, TypeOK, SkipProvider
<1>3. ApiOffStaysLocal' /\ BudgetRespected'
  BY DEF IInv, ApiOffStaysLocal, BudgetRespected, SkipProvider
<1>4. PolicyInv'
  BY DEF IInv, PolicyInv, SkipProvider, NoRow
<1>5. AtProviders'
  <2>1. Runnable \ todo' = Runnable \ todo
    BY DEF SkipProvider, Runnable
  <2>2. /\ round' = round /\ candidates' = candidates /\ verdicts' = verdicts
        /\ workflow' = workflow /\ pc = "providers"
        /\ Scored(round - 1)' = Scored(round - 1)
        /\ Failed(round - 1)' = Failed(round - 1)
    BY <1>1 DEF SkipProvider, Scored, Failed
  <2> QED
    BY <1>1, <2>1, <2>2 DEF IInv, AtProviders
<1>6. (AtStart /\ AtRound /\ AtJudge /\ AtSettle /\ AtCommit)'
  BY DEF SkipProvider, AtStart, AtRound, AtJudge, AtSettle, AtCommit
<1>7. FinalizedTextWasValidated' /\ WorkflowNeverRefuses'
  BY CallingState DEF SkipProvider, FinalizedTextWasValidated,
                      WorkflowNeverRefuses
<1> QED
  BY <1>2, <1>3, <1>4, <1>5, <1>6, <1>7 DEF IInv

\* A provider call within the budget keeps the invariant.
LEMMA CallProviderInv ==
    ASSUME IInv, NEW i \in Positions, CallProvider(i)
    PROVE  IInv'
<1>1. /\ Positions' = Positions /\ Calls' = Calls /\ Runnable' = Runnable
      /\ LocalStarted' = LocalStarted /\ CloudStarted' = CloudStarted
  BY RunnableFrame DEF CallProvider
<1>2. i \in Runnable /\ i \in todo /\ round \in Nat /\ round > 0
  BY DEF CallProvider, IsNext, Runnable, IInv, TypeOK, AtProviders
<1>3. /\ request.providers[i].cost \in Nat /\ request.limit \in Int
      /\ spent' = spent + request.providers[i].cost /\ spent' <= request.limit
      /\ spent' \in Nat
  <2>1. /\ request.providers[i].cost \in Nat /\ request.limit \in Int
        /\ spent \in Nat
    BY ProviderType DEF IInv, TypeOK
  <2> QED
    BY <2>1 DEF CallProvider, Charged, OverBudget
<1>4. TypeOK'
  <2>1. candidates' \subseteq Calls
    BY <1>2 DEF CallProvider, IInv, TypeOK, Calls
  <2> QED
    BY <1>1, <1>3, <2>1 DEF IInv, TypeOK, CallProvider
<1>5. ApiOffStaysLocal'
  <2>1. <<round, i>>[2] = i
    OBVIOUS
  <2> QED
    BY <2>1 DEF IInv, ApiOffStaysLocal, CallProvider, NeedsApi
<1>6. BudgetRespected'
  BY <1>3 DEF BudgetRespected, CallProvider
<1>7. PolicyInv'
  BY DEF IInv, PolicyInv, CallProvider, NoRow
<1>8. AtProviders'
  <2>1. {round} \X (Runnable \ todo') =
            ({round} \X (Runnable \ todo)) \cup {<<round, i>>}
    BY <1>2 DEF CallProvider
  <2>2. /\ round' = round /\ verdicts' = verdicts /\ workflow' = workflow
        /\ candidates' = candidates \cup {<<round, i>>} /\ pc = "providers"
        /\ Scored(round - 1)' = Scored(round - 1)
        /\ Failed(round - 1)' = Failed(round - 1)
    BY <1>1 DEF CallProvider, Scored, Failed
  <2>3. /\ candidates = Scored(round - 1) \cup ({round} \X (Runnable \ todo))
        /\ verdicts = Failed(round - 1)
        /\ workflow = IF LocalStarted THEN "localTranslating"
                      ELSE IF CloudStarted THEN "cloudTranslating"
                      ELSE "inputReady"
    BY <2>2 DEF IInv, AtProviders
  <2>4. candidates' = (Scored(round - 1) \cup ({round} \X (Runnable \ todo)))'
    BY <1>1, <2>1, <2>2, <2>3
  <2> QED
    BY <1>1, <1>2, <2>2, <2>3, <2>4 DEF AtProviders
<1>9. (AtStart /\ AtRound /\ AtJudge /\ AtSettle /\ AtCommit)'
  BY DEF CallProvider, AtStart, AtRound, AtJudge, AtSettle, AtCommit
<1>10. FinalizedTextWasValidated' /\ WorkflowNeverRefuses'
  BY CallingState DEF CallProvider, FinalizedTextWasValidated,
                      WorkflowNeverRefuses
<1> QED
  BY <1>4, <1>5, <1>6, <1>7, <1>8, <1>9, <1>10 DEF IInv

\* A provider the budget cannot pay ends the run and keeps the invariant.
LEMMA ProviderOverBudgetInv ==
    ASSUME IInv, NEW i \in Positions, ProviderOverBudget(i)
    PROVE  IInv'
<1>1. /\ Positions' = Positions /\ Calls' = Calls /\ Runnable' = Runnable
  BY RunnableFrame DEF ProviderOverBudget
<1>2. workflow' = "failed"
  <2>1. i \in Runnable
    BY DEF ProviderOverBudget, IsNext, Runnable, IInv, TypeOK
  <2> QED
    BY <2>1, CallingState, ClosingArcs DEF ProviderOverBudget, StopForBudget
<1>3. TypeOK'
  BY <1>1, <1>2 DEF IInv, TypeOK, ProviderOverBudget, StopForBudget,
                    M!WorkflowState
<1>4. ApiOffStaysLocal' /\ BudgetRespected'
  BY DEF IInv, ApiOffStaysLocal, BudgetRespected, ProviderOverBudget
<1>5. PolicyInv'
  BY DEF IInv, PolicyInv, ProviderOverBudget, StopForBudget, NoRow
<1>6. AtSettle'
  BY <1>2 DEF AtSettle, ProviderOverBudget, StopForBudget
<1>7. (AtStart /\ AtRound /\ AtProviders /\ AtJudge /\ AtCommit)'
  BY DEF ProviderOverBudget, StopForBudget, AtStart, AtRound, AtProviders,
         AtJudge, AtCommit
<1>8. FinalizedTextWasValidated' /\ WorkflowNeverRefuses'
  BY CallingState DEF ProviderOverBudget, StopForBudget,
                      FinalizedTextWasValidated, WorkflowNeverRefuses
<1> QED
  BY <1>3, <1>4, <1>5, <1>6, <1>7, <1>8 DEF IInv

-----------------------------------------------------------------------------
(* Consensus and judge.                                                    *)

\* What r rounds gather is what the rounds before gather and the last one.
LEMMA LastRound ==
    ASSUME NEW S, NEW r \in Nat, r > 0
    PROVE  /\ (1..r) \X S = ((1..(r - 1)) \X S) \cup ({r} \X S)
           /\ S # {} => (1..r) \X S # {}
<1>1. 1..r = (1..(r - 1)) \cup {r}
  OBVIOUS
<1>2. (1..r) \X S = ((1..(r - 1)) \X S) \cup ({r} \X S)
  BY <1>1
<1>3. ASSUME NEW x \in S PROVE (1..r) \X S # {}
  <2>1. <<r, x>> \in (1..r) \X S
    BY <1>1
  <2> QED
    BY <2>1
<1> QED
  BY <1>2, <1>3

\* Whatever started the round, a round with a runnable provider brings the
\* machine to a state that takes CONSENSUS_DONE, and one without does not.
LEMMA BeforeConsensusState ==
    ASSUME IInv, pc = "providers", todo = {}
    PROVE  /\ candidates = Scored(round)
           /\ Runnable # {} => BeforeConsensus \in {"localReviewing", "crossfireRunning"}
           /\ Runnable = {} => BeforeConsensus = "inputReady"
<1>1. round \in Nat /\ round > 0
  BY DEF IInv, TypeOK, AtProviders
<1>2. candidates = Scored(round)
  <2>1. candidates = ((1..(round - 1)) \X Runnable) \cup ({round} \X Runnable)
    BY DEF IInv, AtProviders, Scored
  <2> QED
    BY <1>1, <2>1, LastRound DEF Scored
<1>3. Runnable # {} => candidates # {}
  BY <1>1, <1>2, LastRound DEF Scored
<1>4. workflow = IF LocalStarted THEN "localTranslating"
                 ELSE IF CloudStarted THEN "cloudTranslating"
                 ELSE "inputReady"
  BY DEF IInv, AtProviders
<1>5. CASE LocalStarted
  <2>1. workflow = "localTranslating" /\ candidates # {} /\ Runnable # {}
    BY <1>3, <1>4, <1>5, SomeRunnable
  <2>2. AfterLocal(workflow) = "localReviewing"
    BY <2>1, ForwardArcs DEF AfterLocal
  <2>3. BeforeConsensus \in {"localReviewing", "crossfireRunning"}
    BY <2>2, ForwardArcs DEF BeforeConsensus, AfterCloud, AfterCrossfire
  <2> QED
    BY <2>1, <2>3, <1>2
<1>6. CASE ~LocalStarted /\ CloudStarted
  <2>1. workflow = "cloudTranslating" /\ Runnable # {}
    BY <1>4, <1>6, SomeRunnable
  <2>2. BeforeConsensus = "crossfireRunning"
    BY <2>1, <1>6, ForwardArcs DEF BeforeConsensus, AfterLocal, AfterCloud,
                                   AfterCrossfire
  <2> QED
    BY <2>1, <2>2, <1>2
<1>7. CASE ~LocalStarted /\ ~CloudStarted
  <2>1. workflow = "inputReady" /\ Runnable = {}
    BY <1>4, <1>7, SomeRunnable
  <2>2. BeforeConsensus = "inputReady"
    BY <2>1 DEF BeforeConsensus, AfterLocal, AfterCloud, AfterCrossfire
  <2> QED
    BY <2>1, <2>2, <1>2
<1> QED
  BY <1>5, <1>6, <1>7

\* Scoring a round that heard someone keeps the invariant.
LEMMA ReachConsensusInv ==
    ASSUME IInv, ReachConsensus
    PROVE  IInv'
<1>1. /\ Positions' = Positions /\ Calls' = Calls /\ Runnable' = Runnable
  BY RunnableFrame DEF ReachConsensus
<1>2. pc = "providers" /\ todo = {} /\ round \in Nat /\ round > 0
  BY DEF ReachConsensus, IInv, TypeOK, AtProviders
<1>3. Runnable # {}
  BY <1>2, BeforeConsensusState, ClosingArcs DEF ReachConsensus
<1>4. /\ workflow' = "consensusScoring" /\ candidates = Scored(round)
  BY <1>2, <1>3, BeforeConsensusState, ForwardArcs DEF ReachConsensus
<1>5. /\ decision' \in [round : Nat, text : BOOLEAN, strong : BOOLEAN,
                        review : BOOLEAN]
      /\ decision'.round = round
  BY <1>2 DEF ReachConsensus, Consensus
<1>6. TypeOK'
  <2>1. workflow' \in M!WorkflowState
    BY <1>4 DEF M!WorkflowState
  <2> QED
    BY <1>1, <1>5, <2>1 DEF IInv, TypeOK, ReachConsensus
<1>7. ApiOffStaysLocal' /\ BudgetRespected'
  BY DEF IInv, ApiOffStaysLocal, BudgetRespected, ReachConsensus
<1>8. PolicyInv'
  BY DEF IInv, PolicyInv, ReachConsensus, NoRow
<1>9. RoundScored' /\ verdicts' = Failed(round - 1)'
  BY <1>1, <1>2, <1>3, <1>4, <1>5
     DEF RoundScored, Scored, Failed, ReachConsensus, IInv, AtProviders
<1>10. ~policy.validation => verdicts' = Failed(round)'
  BY <1>9 DEF Failed, ReachConsensus
<1>11. (AtJudge /\ AtRound)'
  <2>1. AtJudge'
    BY <1>9 DEF AtJudge, ReachConsensus
  <2>2. pc' = "round" => ~policy.validation
    BY DEF ReachConsensus
  <2>3. AtRound'
    BY <1>2, <1>9, <1>10, <2>2 DEF AtRound, RoundScored, ReachConsensus
  <2> QED
    BY <2>1, <2>3
<1>12. AtSettle'
  <2>1. pc' = "settle" => ~policy.validation
    BY DEF ReachConsensus
  <2>2. status' = "running"
    BY <1>2, CallingState DEF ReachConsensus
  <2> QED
    BY <1>9, <1>10, <2>1, <2>2 DEF AtSettle
<1>13. (AtStart /\ AtProviders /\ AtCommit)'
  BY DEF ReachConsensus, AtStart, AtProviders, AtCommit
<1>14. FinalizedTextWasValidated' /\ WorkflowNeverRefuses'
  BY <1>2, CallingState DEF ReachConsensus, FinalizedTextWasValidated,
                            WorkflowNeverRefuses
<1> QED
  BY <1>6, <1>7, <1>8, <1>11, <1>12, <1>13, <1>14 DEF IInv

\* Only a run without a runnable provider has its consensus refused.
LEMMA RejectConsensusInv ==
    ASSUME IInv, RejectConsensus
    PROVE  IInv'
<1>1. pc = "providers" /\ todo = {}
  BY DEF RejectConsensus
<1>2. Runnable = {} /\ row = NoRow
  BY <1>1, BeforeConsensusState, ForwardArcs, CallingState DEF RejectConsensus
<1> QED
  BY <1>2, RaiseInv DEF RejectConsensus

\* An evaluation the budget cannot pay keeps the invariant.
LEMMA JudgeOverBudgetInv ==
    ASSUME IInv, JudgeOverBudget
    PROVE  IInv'
<1>1. /\ Positions' = Positions /\ Calls' = Calls /\ Runnable' = Runnable
  BY RunnableFrame DEF JudgeOverBudget
<1>2. /\ workflow' = "failed" /\ status = "running" /\ row = NoRow
      /\ raised = "none"
  BY ClosingArcs DEF IInv, AtJudge, RoundScored, PolicyInv, JudgeOverBudget,
                     StopForBudget
<1>3. TypeOK'
  BY <1>1, <1>2, JudgeType DEF IInv, TypeOK, JudgeOverBudget, StopForBudget,
                    M!WorkflowState
<1>4. ApiOffStaysLocal' /\ BudgetRespected'
  BY JudgeType DEF IInv, ApiOffStaysLocal, BudgetRespected, JudgeOverBudget
<1>5. PolicyInv'
  BY DEF IInv, PolicyInv, JudgeOverBudget, StopForBudget, NoRow
<1>6. AtSettle'
  BY <1>2 DEF AtSettle, JudgeOverBudget, StopForBudget
<1>7. (AtStart /\ AtRound /\ AtProviders /\ AtJudge /\ AtCommit)'
  BY DEF JudgeOverBudget, StopForBudget, AtStart, AtRound, AtProviders,
         AtJudge, AtCommit
<1>8. FinalizedTextWasValidated' /\ WorkflowNeverRefuses'
  BY <1>2 DEF JudgeOverBudget, StopForBudget, FinalizedTextWasValidated,
              WorkflowNeverRefuses
<1> QED
  BY <1>3, <1>4, <1>5, <1>6, <1>7, <1>8 DEF IInv

\* A verdict, passing or failing, keeps the invariant.
LEMMA JudgeTextInv ==
    ASSUME IInv, JudgeText
    PROVE  IInv'
<1>1. /\ Positions' = Positions /\ Calls' = Calls /\ Runnable' = Runnable
  BY RunnableFrame DEF JudgeText
<1>2. PICK pass \in BOOLEAN :
        /\ verdicts' = verdicts \cup {<<round, pass>>}
        /\ pc' = IF pass THEN "settle" ELSE "round"
  BY DEF JudgeText
<1>3. /\ status = "running" /\ row = NoRow /\ raised = "none"
      /\ RoundScored /\ policy.validation /\ verdicts = Failed(round - 1)
      /\ round \in Nat /\ round > 0
  BY DEF IInv, TypeOK, AtJudge, RoundScored, PolicyInv, JudgeText
<1>4. /\ JudgeInForce.cost \in Nat /\ request.limit \in Int
      /\ spent' = spent + JudgeInForce.cost /\ spent' <= request.limit
      /\ spent' \in Nat
  <2>1. JudgeInForce.cost \in Nat /\ request.limit \in Int /\ spent \in Nat
    BY JudgeType, InputsAssumption DEF IInv, TypeOK, Request
  <2> QED
    BY <2>1 DEF JudgeText, Charged, OverBudget
<1>5. TypeOK'
  <2>1. verdicts' \subseteq (Nat \ {0}) \X BOOLEAN
    BY <1>2, <1>3 DEF IInv, TypeOK
  <2>2. judge' \in Evaluator
    BY JudgeType DEF IInv, JudgeText
  <2>3. pc' \in {"settle", "round"}
    BY <1>2
  <2> QED
    BY <1>1, <1>4, <2>1, <2>2, <2>3 DEF IInv, TypeOK, JudgeText
<1>6. ApiOffStaysLocal'
  BY JudgeType DEF IInv, ApiOffStaysLocal, JudgeText
<1>7. BudgetRespected'
  BY <1>4 DEF BudgetRespected, JudgeText
<1>8. PolicyInv'
  BY <1>3 DEF IInv, PolicyInv, JudgeText, NoRow
<1>9. RoundScored'
  BY <1>1, <1>3 DEF RoundScored, Scored, JudgeText
<1>10. pass => AtSettle'
  <2> SUFFICES ASSUME pass PROVE AtSettle'
    OBVIOUS
  <2>1. verdicts' = Failed(round - 1) \cup {<<round, TRUE>>}
    BY <1>2, <1>3
  <2>2. Failed(round - 1)' = Failed(round - 1) /\ round' = round
    BY DEF Failed, JudgeText
  <2> QED
    BY <1>3, <1>9, <2>1, <2>2 DEF AtSettle, JudgeText
<1>11. ~pass => AtRound'
  <2> SUFFICES ASSUME ~pass PROVE AtRound'
    OBVIOUS
  <2>1. verdicts' = ((1..(round - 1)) \X {FALSE}) \cup {<<round, FALSE>>}
    BY <1>2, <1>3 DEF Failed
  <2>2. (1..round) \X {FALSE} =
            ((1..(round - 1)) \X {FALSE}) \cup ({round} \X {FALSE})
    BY <1>3, LastRound, Zenon
  <2>3. verdicts' = (1..round) \X {FALSE}
    <3>1. {<<round, FALSE>>} = {round} \X {FALSE}
      OBVIOUS
    <3> QED
      BY <2>1, <2>2, <3>1
  <2>4. verdicts' = Failed(round)'
    BY <1>3, <2>3 DEF Failed, JudgeText
  <2> QED
    BY <1>3, <1>9, <2>4 DEF AtRound, RoundScored, JudgeText
<1>12. (AtStart /\ AtProviders /\ AtJudge /\ AtCommit)'
  BY <1>2 DEF AtStart, AtProviders, AtJudge, AtCommit
<1>13. AtSettle' /\ AtRound'
  BY <1>2, <1>10, <1>11 DEF AtSettle, AtRound
<1>14. FinalizedTextWasValidated' /\ WorkflowNeverRefuses'
  BY <1>3 DEF JudgeText, FinalizedTextWasValidated, WorkflowNeverRefuses
<1> QED
  BY <1>5, <1>6, <1>7, <1>8, <1>12, <1>13, <1>14 DEF IInv

-----------------------------------------------------------------------------
(* The end of the run.                                                     *)

\* What Settle decides: never "running", and "finalized" only for an
\* ungated run whose last round passed.
LEMMA VerdictCases ==
    ASSUME IInv, pc = "settle"
    PROVE  /\ Verdict \in {"budget_exceeded", "needs_review",
                           "awaiting_human_confirmation", "finalized"}
           /\ SettledWorkflow = Shown(Verdict)
           /\ Verdict = "finalized" =>
                 /\ ~policy.gate /\ policy.validation /\ RoundScored
                 /\ verdicts = Failed(round - 1) \cup {<<round, TRUE>>}
<1>1. CASE status = "budget_exceeded" /\ workflow = "failed"
  BY <1>1 DEF Verdict, SettledWorkflow, Shown
<1>2. CASE /\ status = "running" /\ RoundScored
           /\ \/ verdicts = Failed(round)
              \/ /\ policy.validation
                 /\ verdicts = Failed(round - 1) \cup {<<round, TRUE>>}
  <2>1. round \in Nat /\ round > 0
    BY <1>2 DEF IInv, TypeOK, RoundScored
  <2>2. candidates # {} /\ workflow = "consensusScoring"
    BY <1>2, <2>1, LastRound DEF RoundScored, Scored
  <2>3. Verdict \in {"needs_review", "awaiting_human_confirmation", "finalized"}
    BY <1>2 DEF Verdict
  <2>4. SettledWorkflow = Shown(Verdict)
    BY <1>2, <2>2, <2>3, ClosingArcs DEF SettledWorkflow, Shown
  <2>5. ASSUME Verdict = "finalized"
        PROVE  /\ ~policy.gate /\ policy.validation
               /\ verdicts = Failed(round - 1) \cup {<<round, TRUE>>}
    <3>1. ~policy.gate /\ ValidationPassed
      BY <1>2, <2>2, <2>5 DEF Verdict
    <3>2. policy.validation
      BY <3>1 DEF IInv, PolicyInv
    <3>3. PICK r \in 1..round : <<r, TRUE>> \in verdicts
      BY <3>1, <3>2 DEF ValidationPassed
    <3>4. <<r, TRUE>> \notin (1..round) \X {FALSE}
      OBVIOUS
    <3>5. verdicts # Failed(round)
      BY <3>2, <3>3, <3>4 DEF Failed
    <3> QED
      BY <1>2, <3>1, <3>2, <3>5
  <2> QED
    BY <1>2, <2>3, <2>4, <2>5
<1> QED
  BY <1>1, <1>2 DEF IInv, AtSettle

\* The final status and workflow state keep the invariant.
LEMMA SettleInv ==
    ASSUME IInv, Settle
    PROVE  IInv'
<1>1. /\ Positions' = Positions /\ Calls' = Calls /\ Runnable' = Runnable
  BY RunnableFrame DEF Settle
<1>2. /\ status' \in {"budget_exceeded", "needs_review",
                      "awaiting_human_confirmation", "finalized"}
      /\ workflow' = Shown(status')
  BY VerdictCases DEF Settle, Shown
<1>3. TypeOK'
  <2>1. workflow' \in M!WorkflowState
    BY <1>2 DEF Shown, M!WorkflowState
  <2> QED
    BY <1>1, <1>2, <2>1 DEF IInv, TypeOK, Settle
<1>4. ApiOffStaysLocal' /\ BudgetRespected'
  BY DEF IInv, ApiOffStaysLocal, BudgetRespected, Settle
<1>5. PolicyInv'
  BY DEF IInv, PolicyInv, Settle, NoRow
<1>6. AtCommit'
  BY <1>2 DEF AtCommit, Shown
<1>7. (AtStart /\ AtRound /\ AtProviders /\ AtJudge /\ AtSettle)'
  BY DEF Settle, AtStart, AtRound, AtProviders, AtJudge, AtSettle
<1>8. FinalizedTextWasValidated'
  <2> SUFFICES ASSUME status' = "finalized"
               PROVE  /\ request.mode = "self_iterative"
                      /\ decision.round = round
                      /\ verdicts = ((1..(round - 1)) \X {FALSE})
                                       \cup {<<round, TRUE>>}
                      /\ candidates = (1..round) \X Runnable
    BY <1>1 DEF FinalizedTextWasValidated, Settle
  <2>1. /\ ~policy.gate /\ policy.validation /\ RoundScored
        /\ verdicts = Failed(round - 1) \cup {<<round, TRUE>>}
    BY VerdictCases DEF Settle
  <2> QED
    BY <2>1 DEF RoundScored, Scored, Failed, IInv, PolicyInv
<1>9. WorkflowNeverRefuses'
  BY <1>1 DEF IInv, WorkflowNeverRefuses, Settle
<1> QED
  BY <1>3, <1>4, <1>5, <1>6, <1>7, <1>8, <1>9 DEF IInv

\* Writing the run to the store keeps the invariant.
LEMMA CommitInv ==
    ASSUME IInv, Commit
    PROVE  IInv'
<1>1. /\ Positions' = Positions /\ Calls' = Calls /\ Runnable' = Runnable
  BY RunnableFrame DEF Commit
<1>2. status # "running" /\ workflow = Shown(status)
  BY DEF IInv, AtCommit, Commit
<1>3. TypeOK'
  <2>1. Proposal \in {"none", "pending", "confirmed"}
    BY DEF Proposal
  <2>2. row' \in [status : {"absent", "awaiting_human_confirmation",
                           "finalized", "needs_review", "budget_exceeded"},
                 spent : Nat, proposal : {"none", "pending", "confirmed"}]
    BY <1>2, <2>1 DEF IInv, TypeOK, Commit
  <2> QED
    BY <1>1, <2>2 DEF IInv, TypeOK, Commit
<1>4. ApiOffStaysLocal' /\ BudgetRespected'
  BY DEF IInv, ApiOffStaysLocal, BudgetRespected, Commit
<1>5. PolicyInv'
  <2>1. row'.status = status /\ (row'.proposal = "confirmed" => ~policy.gate)
    BY DEF Commit, Proposal
  <2> QED
    BY <2>1 DEF IInv, PolicyInv, Commit
<1>6. AtCommit'
  BY <1>2 DEF AtCommit, Shown, Commit
<1>7. (AtStart /\ AtRound /\ AtProviders /\ AtJudge /\ AtSettle)'
  BY DEF Commit, AtStart, AtRound, AtProviders, AtJudge, AtSettle
<1>8. FinalizedTextWasValidated' /\ WorkflowNeverRefuses'
  BY <1>1 DEF IInv, FinalizedTextWasValidated, WorkflowNeverRefuses, Commit
<1> QED
  BY <1>3, <1>4, <1>5, <1>6, <1>7, <1>8 DEF IInv

\* The steps that raise, other than the refused CONSENSUS_DONE.
LEMMA RaisingInv ==
    ASSUME IInv,
           \/ RefuseMock \/ RefuseMaterials \/ JudgeRaises \/ CommitRaises
           \/ \E i \in Positions : ProviderRaises(i)
    PROVE  IInv'
<1>1. row = NoRow
  BY DEF IInv, PolicyInv, RefuseMock, RefuseMaterials, JudgeRaises,
         CommitRaises, ProviderRaises
<1>2. CASE RefuseMock
  BY <1>1, <1>2, RaiseInv DEF RefuseMock
<1>3. CASE RefuseMaterials
  BY <1>1, <1>3, RaiseInv DEF RefuseMaterials
<1>4. CASE JudgeRaises
  BY <1>1, <1>4, RaiseInv DEF JudgeRaises
<1>5. CASE CommitRaises
  BY <1>1, <1>5, RaiseInv DEF CommitRaises
<1>6. ASSUME NEW i \in Positions, ProviderRaises(i)
      PROVE  IInv'
  BY <1>1, <1>6, RaiseInv DEF ProviderRaises
<1> QED
  BY <1>2, <1>3, <1>4, <1>5, <1>6

\* Doing nothing keeps the invariant.
LEMMA StutterInv ==
    ASSUME IInv, UNCHANGED vars
    PROVE  IInv'
<1>1. /\ Positions' = Positions /\ Calls' = Calls /\ Runnable' = Runnable
      /\ LocalStarted' = LocalStarted /\ CloudStarted' = CloudStarted
  BY RunnableFrame DEF vars
<1>2. TypeOK'
  BY <1>1 DEF IInv, TypeOK, vars
<1>3. ApiOffStaysLocal' /\ BudgetRespected' /\ PolicyInv'
  BY DEF IInv, ApiOffStaysLocal, BudgetRespected, PolicyInv, vars
<1>4. FinalizedTextWasValidated' /\ WorkflowNeverRefuses'
  BY <1>1 DEF IInv, FinalizedTextWasValidated, WorkflowNeverRefuses, vars
<1>5. AtStart' /\ AtCommit'
  BY DEF IInv, AtStart, AtCommit, Shown, vars
<1>6. /\ Scored(round)' = Scored(round) /\ Scored(round - 1)' = Scored(round - 1)
      /\ Failed(round)' = Failed(round) /\ Failed(round - 1)' = Failed(round - 1)
  BY <1>1 DEF Scored, Failed, vars
<1>7. RoundScored' = RoundScored
  BY <1>1, <1>6 DEF RoundScored, vars
<1>8. AtRound' /\ AtProviders' /\ AtJudge' /\ AtSettle'
  BY <1>1, <1>6, <1>7 DEF IInv, AtRound, AtProviders, AtJudge, AtSettle, vars
<1> QED
  BY <1>2, <1>3, <1>4, <1>5, <1>8 DEF IInv

\* Every step keeps the invariant.
LEMMA NextInv ==
    ASSUME IInv, [Next]_vars
    PROVE  IInv'
<1>1. CASE RefuseMock \/ RefuseMaterials \/ JudgeRaises \/ CommitRaises
  BY <1>1, RaisingInv
<1>2. CASE Start
  BY <1>2, StartInv
<1>3. CASE BeginRound
  BY <1>3, BeginRoundInv
<1>4. CASE RoundsExhausted
  BY <1>4, RoundsExhaustedInv
<1>5. ASSUME NEW i \in Positions,
             \/ SkipProvider(i) \/ ProviderOverBudget(i)
             \/ CallProvider(i) \/ ProviderRaises(i)
      PROVE  IInv'
  BY <1>5, SkipProviderInv, ProviderOverBudgetInv, CallProviderInv, RaisingInv
<1>6. CASE ReachConsensus \/ RejectConsensus
  BY <1>6, ReachConsensusInv, RejectConsensusInv
<1>7. CASE JudgeOverBudget \/ JudgeText
  BY <1>7, JudgeOverBudgetInv, JudgeTextInv
<1>8. CASE Settle \/ Commit
  BY <1>8, SettleInv, CommitInv
<1>9. CASE Ended \/ UNCHANGED vars
  BY <1>9, StutterInv DEF Ended
<1> QED
  BY <1>1, <1>2, <1>3, <1>4, <1>5, <1>6, <1>7, <1>8, <1>9 DEF Next, Step

-----------------------------------------------------------------------------
(* The money.                                                              *)

\* One more price, one more evaluation.
LEMMA OneMore ==
    ASSUME NEW n \in Nat, NEW c \in Nat
    PROVE  (n + 1) * c = n * c + c
OBVIOUS

\* The fees are a number, and a call not made before adds its price.
LEMMA FeesGrow ==
    ASSUME TypeOK, SpendInv, NEW i \in Positions, NEW r \in Nat \ {0},
           <<r, i>> \notin candidates, request' = request,
           candidates' = candidates \cup {<<r, i>>}
    PROVE  /\ Fees \in Nat
           /\ Fees' = Fees + request.providers[i].cost
<1> DEFINE y == <<r, i>>
           f == [c \in candidates |-> request.providers[c[2]].cost]
           g == [c \in candidates \cup {y} |-> request.providers[c[2]].cost]
<1>1. \A c \in candidates \cup {y} : c[2] \in Positions
  BY DEF TypeOK, Calls
<1>2. \A c \in candidates \cup {y} : request.providers[c[2]].cost \in Nat
  BY <1>1, ProviderType
<1>3. /\ IsFiniteSet(DOMAIN f) /\ \A x \in DOMAIN f : f[x] \in Nat
      /\ y \notin DOMAIN f /\ DOMAIN g = DOMAIN f \cup {y}
      /\ g[y] \in Nat /\ \A x \in DOMAIN f : g[x] = f[x]
  BY <1>2 DEF SpendInv
<1>4. g[y] = request.providers[i].cost
  OBVIOUS
<1>5. Fees = SumFunction(f) /\ Fees' = SumFunction(g)
  BY DEF Fees
<1>6. SumFunction(f) \in Nat /\ SumFunction(g) = SumFunction(f) + g[y]
  <2> HIDE DEF f, g, y
  <2> QED
    BY <1>3, SumGrows
<1> HIDE DEF f, g, y
<1> QED
  BY <1>4, <1>5, <1>6

\* The fees are a number.
LEMMA FeesType ==
    ASSUME TypeOK, SpendInv
    PROVE  Fees \in Nat
<1> DEFINE f == [c \in candidates |-> request.providers[c[2]].cost]
<1>1. \A c \in candidates : request.providers[c[2]].cost \in Nat
  BY ProviderType DEF TypeOK, Calls
<1>2. Fees = SumFunctionOnSet(f, candidates)
  BY DEF Fees, SumFunction
<1>3. IsFiniteSet(candidates) /\ \A x \in candidates : f[x] \in Nat
  BY <1>1 DEF SpendInv
<1> HIDE DEF f
<1> QED
  BY <1>2, <1>3, SumType

\* A call to a provider is charged once.
LEMMA CallCharged ==
    ASSUME IInv, SpendInv, NEW i \in Positions, CallProvider(i)
    PROVE  SpendInv'
<1>1. <<round, i>> \notin candidates /\ round \in Nat \ {0}
  BY DEF IInv, TypeOK, AtProviders, CallProvider, IsNext, Scored
<1>2. /\ Fees \in Nat /\ request.providers[i].cost \in Nat
      /\ Fees' = Fees + request.providers[i].cost
  BY <1>1, FeesGrow, ProviderType DEF IInv, CallProvider
<1>3. Cardinality(verdicts) * judge.cost \in Nat
  BY FS_CardinalityType DEF SpendInv, IInv, TypeOK, Evaluator
<1>4. row = NoRow
  BY DEF IInv, PolicyInv, CallProvider
<1>5. spent' = spent + request.providers[i].cost /\ UNCHANGED <<verdicts, judge, row>>
  BY DEF CallProvider, Charged
<1>6. IsFiniteSet(candidates')
  BY FS_AddElement DEF SpendInv, CallProvider
<1>7. verdicts' # {} => (judge = JudgeInForce)'
  BY DEF SpendInv, JudgeInForce, CallProvider
<1>8. spent' = Fees' + Cardinality(verdicts') * judge'.cost
  BY <1>2, <1>3, <1>5 DEF SpendInv
<1> QED
  BY <1>4, <1>5, <1>6, <1>7, <1>8 DEF SpendInv

\* An evaluation is charged once, at the price of the evaluator in force.
LEMMA JudgeCharged ==
    ASSUME IInv, SpendInv, JudgeText
    PROVE  SpendInv'
<1>1. PICK pass \in BOOLEAN : verdicts' = verdicts \cup {<<round, pass>>}
  BY DEF JudgeText
<1>2. <<round, pass>> \notin verdicts
  <2>1. round \in Nat /\ verdicts = Failed(round - 1)
    BY DEF IInv, TypeOK, AtJudge, JudgeText
  <2>2. round \notin 1..(round - 1)
    BY <2>1
  <2> QED
    BY <2>1, <2>2 DEF Failed
<1>3. /\ IsFiniteSet(verdicts') /\ Cardinality(verdicts) \in Nat
      /\ Cardinality(verdicts') = Cardinality(verdicts) + 1
  BY <1>1, <1>2, FS_AddElement, FS_CardinalityType DEF SpendInv
<1>4. judge' = JudgeInForce /\ judge'.cost \in Nat
  BY JudgeType DEF IInv, JudgeText
<1>5. judge' = JudgeInForce'
  BY <1>4 DEF JudgeInForce, LocalJudge, JudgeText
<1>6. Cardinality(verdicts) * judge.cost = Cardinality(verdicts) * judge'.cost
  <2>1. CASE verdicts # {}
    BY <2>1, <1>4 DEF SpendInv
  <2>2. CASE verdicts = {}
    <3>1. Cardinality(verdicts) = 0 /\ judge.cost \in Nat
      BY <2>2, FS_EmptySet DEF IInv, TypeOK, Evaluator
    <3> QED
      BY <3>1, <1>4
  <2> QED
    BY <2>1, <2>2
<1>7. spent' = spent + judge'.cost /\ UNCHANGED <<request, candidates, row>>
  BY <1>4 DEF JudgeText, Charged
<1>8. Fees' = Fees /\ Fees \in Nat
  BY <1>7, FeesType DEF Fees, IInv
<1>9. spent' = Fees' + Cardinality(verdicts') * judge'.cost
  <2>1. Cardinality(verdicts') * judge'.cost
           = Cardinality(verdicts) * judge'.cost + judge'.cost
    BY <1>3, <1>4, OneMore
  <2>2. Cardinality(verdicts) * judge'.cost \in Nat
    BY <1>3, <1>4
  <2> QED
    BY <1>4, <1>6, <1>7, <1>8, <2>1, <2>2 DEF SpendInv
<1>10. row = NoRow
  BY DEF IInv, PolicyInv, JudgeText
<1> QED
  BY <1>3, <1>5, <1>7, <1>9, <1>10 DEF SpendInv

\* An evaluation the budget does not allow may replace the evaluator, and
\* charges nothing.
LEMMA JudgeUncharged ==
    ASSUME IInv, SpendInv, JudgeOverBudget
    PROVE  SpendInv'
<1>1. judge' = JudgeInForce /\ judge'.cost \in Nat
  BY JudgeType DEF IInv, JudgeOverBudget
<1>2. judge' = JudgeInForce'
  BY <1>1 DEF JudgeInForce, LocalJudge, JudgeOverBudget
<1>3. Cardinality(verdicts) * judge.cost = Cardinality(verdicts) * judge'.cost
  <2>1. CASE verdicts # {}
    BY <2>1, <1>1 DEF SpendInv
  <2>2. CASE verdicts = {}
    <3>1. Cardinality(verdicts) = 0 /\ judge.cost \in Nat
      BY <2>2, FS_EmptySet DEF IInv, TypeOK, Evaluator
    <3> QED
      BY <3>1, <1>1
  <2> QED
    BY <2>1, <2>2
<1>4. UNCHANGED <<candidates, verdicts, spent, row, Fees>>
  BY DEF JudgeOverBudget, Fees
<1> QED
  BY <1>2, <1>3, <1>4 DEF SpendInv

\* Every step accounts for what it spends.
LEMMA SpendStep ==
    ASSUME IInv, SpendInv, [Next]_vars
    PROVE  SpendInv'
<1> DEFINE Quiet == UNCHANGED <<request, spent, candidates, judge, verdicts>>
<1>1. CASE Quiet /\ row' = row
  BY <1>1 DEF SpendInv, Fees, JudgeInForce
<1>2. CASE Commit
  BY <1>2 DEF SpendInv, Fees, JudgeInForce, Commit
<1>3. CASE RefuseMock \/ RefuseMaterials \/ Start \/ BeginRound \/ RoundsExhausted
  <2>1. Quiet /\ row' = row
    BY <1>3 DEF RefuseMock, RefuseMaterials, Start, BeginRound, RoundsExhausted
  <2> QED
    BY <1>1, <2>1
<1>4. ASSUME NEW i \in Positions,
             \/ SkipProvider(i) \/ ProviderOverBudget(i)
             \/ CallProvider(i) \/ ProviderRaises(i)
      PROVE  SpendInv'
  <2>1. CASE CallProvider(i)
    BY <2>1, CallCharged
  <2>2. CASE SkipProvider(i) \/ ProviderOverBudget(i) \/ ProviderRaises(i)
    <3>1. Quiet /\ row' = row
      BY <2>2 DEF SkipProvider, ProviderOverBudget, ProviderRaises
    <3> QED
      BY <1>1, <3>1
  <2> QED
    BY <1>4, <2>1, <2>2
<1>5. CASE ReachConsensus \/ RejectConsensus \/ JudgeRaises \/ Settle \/ CommitRaises
  <2>1. Quiet /\ row' = row
    BY <1>5 DEF ReachConsensus, RejectConsensus, JudgeRaises, Settle, CommitRaises
  <2> QED
    BY <1>1, <2>1
<1>6. CASE JudgeOverBudget \/ JudgeText
  BY <1>6, JudgeUncharged, JudgeCharged
<1>7. CASE Ended \/ UNCHANGED vars
  <2>1. Quiet /\ row' = row
    BY <1>7 DEF Ended, vars
  <2> QED
    BY <1>1, <2>1
<1> QED
  BY <1>2, <1>3, <1>4, <1>5, <1>6, <1>7 DEF Next, Step

-----------------------------------------------------------------------------
(* The theorems.                                                           *)

\* run_agent_translation keeps the inductive invariant: at each point of
\* the function the candidates, verdicts, status and workflow state are the
\* ones the rounds so far account for.
THEOREM InvariantHolds == Spec => []IInv
  BY InitInv, NextInv, PTL DEF Spec

\* Every variable of a run keeps its type.
THEOREM TypeCorrect == Spec => []TypeOK
<1>1. IInv => TypeOK
  BY DEF IInv
<1> QED
  BY <1>1, InvariantHolds, PTL

\* The providers and the evaluator together never spend more than the
\* limit, for any costs and any limit.
THEOREM BudgetSafe == Spec => []BudgetRespected
<1>1. IInv => BudgetRespected
  BY DEF IInv
<1> QED
  BY <1>1, InvariantHolds, PTL

\* With the API off no remote provider and no remote evaluator is called,
\* for any provider list.
THEOREM LocalOnly == Spec => []ApiOffStaysLocal
<1>1. IInv => ApiOffStaysLocal
  BY DEF IInv
<1> QED
  BY <1>1, InvariantHolds, PTL

\* A run is finalized only on the text its evaluator passed last, scored
\* over every candidate.
THEOREM FinalizedIsValidated == Spec => []FinalizedTextWasValidated
<1>1. IInv => FinalizedTextWasValidated
  BY DEF IInv
<1> QED
  BY <1>1, InvariantHolds, PTL

\* A self_decision run always leaves the last word to a human.
THEOREM SelfDecisionGated == Spec => []SelfDecisionStaysGated
<1>1. IInv => SelfDecisionStaysGated
  BY DEF IInv, PolicyInv, FinalizedTextWasValidated, SelfDecisionStaysGated
<1> QED
  BY <1>1, InvariantHolds, PTL

\* The stored status of a run and its workflow state agree.
THEOREM StatusShown == Spec => []StatusMatchesWorkflow
<1>1. IInv => StatusMatchesWorkflow
  BY DEF IInv, PolicyInv, AtCommit, Shown, StatusMatchesWorkflow
<1> QED
  BY <1>1, InvariantHolds, PTL

\* No mix of local, keyless and remote providers makes the run apply an
\* event its workflow machine refuses, unless none of them can run.
THEOREM EventsAccepted == Spec => []WorkflowNeverRefuses
<1>1. IInv => WorkflowNeverRefuses
  BY DEF IInv
<1> QED
  BY <1>1, InvariantHolds, PTL

\* The run has spent what its calls cost, at every point.
THEOREM SpendInvariant == Spec => []SpendInv
<1>1. Init => SpendInv
  <2> SUFFICES ASSUME Init PROVE SpendInv
    OBVIOUS
  <2>1. TypeOK
    BY InitInv DEF IInv
  <2>2. IsFiniteSet(candidates) /\ IsFiniteSet(verdicts) /\ Cardinality(verdicts) = 0
    BY FS_EmptySet DEF Init
  <2>3. Fees = 0
    <3> DEFINE f == [c \in candidates |-> request.providers[c[2]].cost]
    <3>1. Fees = SumFunctionOnSet(f, {})
      BY DEF Init, Fees, SumFunction
    <3> QED
      BY <3>1, SumEmpty
  <2> QED
    BY <2>1, <2>2, <2>3 DEF Init, SpendInv, NoRow, TypeOK, Evaluator
<1>2. IInv /\ SpendInv /\ [Next]_vars => SpendInv'
  BY SpendStep
<1> QED
  BY <1>1, <1>2, InvariantHolds, PTL DEF Spec

\* The amount the store reports is the cost of the calls that were made, for
\* every provider list and evaluator.
THEOREM StoredSpendIsTrue == Spec => []SpendAccounted
<1>1. SpendInv => SpendAccounted
  BY DEF SpendInv, SpendAccounted
<1> QED
  BY <1>1, SpendInvariant, PTL

=============================================================================
