-------------------------- MODULE RemoteGateProofs --------------------------
(***************************************************************************)
(* For any configurations, rosters and texts: a confirmation lets one run  *)
(* through; and with the gate on a run makes no remote call the user has   *)
(* not confirmed, save for the evaluator of a self_decision run, sends the *)
(* training text the user confirmed and spends no more than the limit over *)
(* all its tasks.  All but the first assume two things, both of which the  *)
(* code leaves to the user: the files do not change while a run starts,    *)
(* and the text is not blank.                                              *)
(***************************************************************************)
EXTENDS RemoteGate, SumTheorems, TLAPS

\* The controller's mode always has a policy of one to three rounds.
LEMMA PolicyType ==
    ASSUME NEW m
    PROVE  /\ P!PolicyFor(m) \in [rounds : Nat, gate : BOOLEAN, validation : BOOLEAN]
           /\ P!MetaPolicyFor(m) \in [rounds : Nat, gate : BOOLEAN, validation : BOOLEAN]
           /\ P!PolicyFor(m).rounds \in {1, 3}
           /\ P!MetaPolicyFor(m).rounds \in {1, 3}
           /\ P!PolicyFor("self_decision").rounds = 3
BY DEF P!PolicyFor, P!MetaPolicyFor, P!MaxSelfIterations

\* The policy of a task never takes more rounds than the preflight lists.
LEMMA PolicyWithinList ==
    ASSUME NEW p \in Policies
    PROVE  /\ p \in [rounds : Nat, gate : BOOLEAN, validation : BOOLEAN]
           /\ p.rounds \in 1..P!PolicyFor(config.mode).rounds
           /\ config.mode # "self_decision" => p = P!PolicyFor(config.mode)
<1>1. CASE config.mode = "self_decision"
  <2>1. PICK m \in SelectedModes : p = P!MetaPolicyFor(m)
    BY <1>1 DEF Policies
  <2> QED BY <1>1, <2>1, PolicyType
<1>2. CASE config.mode # "self_decision"
  <2>1. p = P!PolicyFor(config.mode)
    BY <1>2 DEF Policies
  <2> QED BY <1>2, <2>1, PolicyType
<1> QED BY <1>1, <1>2

-----------------------------------------------------------------------------
(* Types, and the one confirmation a run uses up: no premise.              *)

\* Every step keeps the types.
LEMMA TypeStep ==
    ASSUME TypeOK, GateAssumption, [Next]_vars
    PROVE  TypeOK'
<1> USE DEF TypeOK
<1>1. CASE Configure \/ EditFiles \/ EndTask \/ Return \/ UNCHANGED vars
  BY <1>1 DEF Configure, EditFiles, EndTask, Return, vars, run
<1>2. ASSUME NEW t \in Texts, Confirm(t) PROVE TypeOK'
  BY <1>2 DEF Confirm, run
<1>3. ASSUME NEW t \in Texts, TranslateFreely(t) \/ TranslateConfirmed(t)
      PROVE  TypeOK'
  BY <1>3 DEF TranslateFreely, TranslateConfirmed, Begin
<1>4. CASE Load
  BY <1>4 DEF Load
<1>5. CASE BeginTask
  <2>1. policy' \in Policies
    BY <1>5 DEF BeginTask
  <2>2. policy' \in [rounds : Nat, gate : BOOLEAN, validation : BOOLEAN]
    BY <2>1, PolicyWithinList
  <2> QED
    BY <1>5, <2>2 DEF BeginTask
<1>6. CASE NextRound
  BY <1>6 DEF NextRound
<1>7. ASSUME NEW c, Send(c), c.cost \in Nat PROVE TypeOK'
  BY <1>7 DEF Send
<1>8. ASSUME NEW p \in Remote(config), CallProvider(p) PROVE TypeOK'
  <2>1. p.cost \in Nat
    BY DEF Remote, GateAssumption, Config, Provider
  <2> DEFINE c == ProviderCall(p, task, round, config, loaded)
  <2>2. Send(c) /\ c.cost \in Nat
    BY <1>8, <2>1 DEF CallProvider, ProviderCall
  <2> HIDE DEF c
  <2> QED
    BY <1>7, <2>2
<1>9. CASE CallJudge
  <2>1. config.judge.cost \in Nat
    BY DEF GateAssumption, Config
  <2> DEFINE c == JudgeCall(task, round, config, loaded)
  <2>2. Send(c) /\ c.cost \in Nat
    BY <1>9, <2>1 DEF CallJudge, JudgeCall
  <2> HIDE DEF c
  <2> QED
    BY <1>7, <2>2
<1> QED
  BY <1>1, <1>2, <1>3, <1>4, <1>5, <1>6, <1>8, <1>9 DEF Next

\* The gate's state keeps its types, whatever the user does.
THEOREM TypeCorrect == Spec => []TypeOK
<1>1. Init => TypeOK
  BY DEF Init, TypeOK, NoPolicy
<1> QED
  BY <1>1, TypeStep, GateAssumption, PTL DEF Spec

\* A fingerprint is never the mark of no confirmation.
LEMMA FingerprintConfirms ==
    ASSUME GateAssumption, NEW t \in Texts, NEW c, NEW f
    PROVE  /\ Fingerprint(t, c, f) # NotConfirmed
           /\ Fingerprint(t, c, f).calls = Listed(t, c, f)
           /\ Fingerprint(t, c, f).files = f
<1>1. Fingerprint(t, c, f).text = t /\ t \in Nat
  BY DEF Fingerprint, GateAssumption
<1> QED
  BY <1>1 DEF Fingerprint, NotConfirmed

\* Every step keeps an open confirmation to what the user saw.
LEMMA OpenStep ==
    ASSUME TypeOK, OpenConfirmation, GateAssumption, [Next]_vars
    PROVE  OpenConfirmation'
<1> USE DEF OpenConfirmation
<1>1. ASSUME UNCHANGED <<confirmed, seen, confirms, opened>>
      PROVE  OpenConfirmation'
  BY <1>1
<1>2. ASSUME NEW t \in Texts, Confirm(t) PROVE OpenConfirmation'
  BY <1>2, FingerprintConfirms DEF Confirm, TypeOK
<1>3. ASSUME NEW t \in Texts, TranslateConfirmed(t) PROVE OpenConfirmation'
  <2>1. confirmed # NotConfirmed
    BY <1>3, FingerprintConfirms DEF TranslateConfirmed
  <2> QED
    BY <1>3, <2>1 DEF TranslateConfirmed, Begin, TypeOK
<1>4. ASSUME NEW t \in Texts, TranslateFreely(t) PROVE OpenConfirmation'
  BY <1>1, <1>4 DEF TranslateFreely, Begin
<1>5. CASE \/ Configure \/ EditFiles \/ Load \/ BeginTask \/ NextRound
           \/ EndTask \/ Return \/ UNCHANGED vars
  BY <1>1, <1>5 DEF Configure, EditFiles, Load, BeginTask, NextRound, EndTask,
                    Return, vars
<1>6. CASE CallJudge \/ \E p \in Remote(config) : CallProvider(p)
  BY <1>1, <1>6 DEF CallJudge, CallProvider, Send
<1> QED
  BY <1>2, <1>3, <1>4, <1>5, <1>6 DEF Next

\* One confirmation, one run: whatever is configured, edited and confirmed.
THEOREM OneRunPerConfirmation == Spec => []ConfirmedOnce
<1>1. Init => OpenConfirmation
  BY DEF Init, OpenConfirmation
<1>2. OpenConfirmation => ConfirmedOnce
  BY DEF OpenConfirmation, ConfirmedOnce
<1> QED
  BY <1>1, <1>2, OpenStep, TypeCorrect, GateAssumption, PTL DEF Spec

-----------------------------------------------------------------------------
(* The run behind the gate, for files that stay put and texts with a task. *)

\* What a list costs: nothing if it is empty, and no less than a part of it.
LEMMA CostEmpty == Cost({}) = 0
<1>1. SumFunctionOnSet([c \in {} |-> c.cost], {}) = 0
  BY SumEmpty
<1> QED
  BY <1>1 DEF Cost, SumFunction

\* The cost of a list is a number.
LEMMA CostType ==
    ASSUME NEW S, IsFiniteSet(S), \A c \in S : c.cost \in Nat
    PROVE  Cost(S) \in Nat
<1> DEFINE f == [c \in S |-> c.cost]
<1>1. Cost(S) = SumFunctionOnSet(f, S)
  BY DEF Cost, SumFunction
<1>2. \A c \in S : f[c] \in Nat
  OBVIOUS
<1> HIDE DEF f
<1> QED
  BY <1>1, <1>2, SumType

\* A part of a list costs no more than the list.
LEMMA CostWithin ==
    ASSUME NEW S, IsFiniteSet(S), \A c \in S : c.cost \in Nat,
           NEW U, U \subseteq S
    PROVE  Cost(U) <= Cost(S)
<1> DEFINE f == [c \in S |-> c.cost]
           g == [c \in U |-> c.cost]
<1>1. Cost(S) = SumFunctionOnSet(f, S) /\ Cost(U) = SumFunctionOnSet(g, U)
  BY DEF Cost, SumFunction
<1>2. /\ IsFiniteSet(U)
      /\ \A c \in U : f[c] = g[c]
      /\ \A c \in S : f[c] \in Nat
  BY FS_Subset
<1> HIDE DEF f, g
<1>3. SumFunctionOnSet(f, U) = SumFunctionOnSet(g, U)
  BY <1>2, SumSame
<1>4. SumFunctionOnSet(f, U) <= SumFunctionOnSet(f, S)
  BY <1>2, SumMonotone
<1> QED
  BY <1>1, <1>3, <1>4

\* A list is finite and its prices are numbers.
LEMMA ListFinite ==
    ASSUME GateAssumption, NEW c \in Configs, NEW t \in Nat, NEW f
    PROVE  /\ IsFiniteSet(Listed(t, c, f))
           /\ \A d \in Listed(t, c, f) : d.cost \in Nat
<1> DEFINE R == P!PolicyFor(c.mode).rounds
           S == Steps(t, c)
           provider == [x \in S \X Remote(c) |->
                           ProviderCall(x[2], x[1][1], x[1][2], c, f)]
           judged == [s \in S |-> JudgeCall(s[1], s[2], c, f)]
<1>1. IsFiniteSet(S)
  <2>1. R \in Nat
    BY PolicyType
  <2>2. IsFiniteSet(1..t) /\ IsFiniteSet(1..R)
    BY <2>1, FS_Interval
  <2> QED
    BY <2>2, FS_Product DEF Steps
<1>2. /\ IsFiniteSet(Remote(c))
      /\ \A p \in Remote(c) : p.cost \in Nat
      /\ c.judge.cost \in Nat
  <2>1. IsFiniteSet(c.roster) /\ Remote(c) \subseteq c.roster
    BY DEF GateAssumption, Remote
  <2>2. c \in Config
    BY DEF GateAssumption
  <2> QED
    BY <2>1, <2>2, FS_Subset DEF Config, Provider
<1>3. IsFiniteSet(Range(provider)) /\ IsFiniteSet(Range(judged))
  <2>1. DOMAIN provider = S \X Remote(c) /\ DOMAIN judged = S
    OBVIOUS
  <2>2. IsFiniteSet(S \X Remote(c))
    BY <1>1, <1>2, FS_Product
  <2> HIDE DEF provider, judged, S
  <2> QED
    BY <1>1, <2>1, <2>2, FiniteRange
<1>4. /\ \A d \in Listed(t, c, f) : d \in Range(provider) \cup Range(judged)
      /\ \A d \in Listed(t, c, f) : d.cost \in Nat
  <2>1. ASSUME NEW s \in S, NEW p \in Remote(c)
        PROVE  /\ ProviderCall(p, s[1], s[2], c, f) \in Range(provider)
               /\ ProviderCall(p, s[1], s[2], c, f).cost \in Nat
    <3>1. <<s, p>> \in S \X Remote(c)
      OBVIOUS
    <3>2. provider[<<s, p>>] = ProviderCall(p, s[1], s[2], c, f)
      BY <3>1
    <3>3. provider[<<s, p>>] \in Range(provider)
      BY <3>1 DEF Range
    <3> QED
      BY <1>2, <3>2, <3>3 DEF ProviderCall
  <2>2. ASSUME NEW s \in S
        PROVE  /\ JudgeCall(s[1], s[2], c, f) \in Range(judged)
               /\ JudgeCall(s[1], s[2], c, f).cost \in Nat
    BY <1>2 DEF JudgeCall, Range
  <2>3. ASSUME NEW d \in Listed(t, c, f)
        PROVE  \/ \E s \in S, p \in Remote(c) : d = ProviderCall(p, s[1], s[2], c, f)
               \/ \E s \in S : d = JudgeCall(s[1], s[2], c, f)
    BY DEF Listed
  <2> HIDE DEF S, provider, judged
  <2> QED
    BY <2>1, <2>2, <2>3
<1>5. IsFiniteSet(Range(provider) \cup Range(judged))
  BY <1>3, FS_Union
<1>6. Listed(t, c, f) \subseteq Range(provider) \cup Range(judged)
  BY <1>4
<1> QED
  BY <1>4, <1>5, <1>6, FS_Subset

\* The invariant holds when the controller is built.
LEMMA RunInit == Init => RunInv
BY DEF Init, RunInv, InsideSteps, ListedAndSeen, JudgeUntrained

\* Where nothing runs there is nothing to say of a run.
LEMMA IdleStep ==
    ASSUME TypeOK, RunInv, FilesStable,
           \/ Configure \/ EditFiles \/ Return
           \/ \E t \in Texts : Confirm(t)
    PROVE  RunInv'
<1>1. pc' = "idle" /\ sent' = {}
  BY DEF Configure, EditFiles, Return, Confirm, RunInv, ListedAndSeen, run
<1> QED
  BY <1>1 DEF RunInv, InsideSteps, ListedAndSeen, JudgeUntrained

\* A run begins with its list seen and within the limit: an empty list needs
\* no one to see it and costs nothing.
LEMMA BeginStep ==
    ASSUME TypeOK, OpenConfirmation, RunInv, GateAssumption, NEW t \in Texts,
           TranslateFreely(t) \/ TranslateConfirmed(t)
    PROVE  RunInv'
<1>1. /\ sent' = {} /\ pc' = "load" /\ text' = t
      /\ config' = config /\ files' = files /\ seen' = seen
  BY DEF TranslateFreely, TranslateConfirmed, Begin, RunInv, ListedAndSeen
<1>2. CASE TranslateFreely(t)
  <2>1. config.require => Listed(t, config, files) = {}
    BY <1>2 DEF TranslateFreely, GateApplies
  <2>2. config.require => ~Exceeds(t, config, files)
    <3>1. config.limit \in Nat
      BY DEF TypeOK, GateAssumption, Config
    <3> QED
      BY <2>1, <3>1, CostEmpty DEF Exceeds
  <2>3. /\ Listed(text', config', files') = Listed(t, config, files)
        /\ Exceeds(text', config', files') = Exceeds(t, config, files)
    BY <1>1
  <2> QED
    BY <1>1, <2>1, <2>2, <2>3 DEF RunInv, InsideSteps, ListedAndSeen, JudgeUntrained
<1>3. CASE TranslateConfirmed(t)
  <2>1. confirmed = Fingerprint(t, config, files) /\ ~Exceeds(t, config, files)
    BY <1>3 DEF TranslateConfirmed
  <2>2. Listed(t, config, files) = seen.calls /\ seen.files = files
    BY <2>1, FingerprintConfirms DEF OpenConfirmation
  <2>3. /\ Listed(text', config', files') = Listed(t, config, files)
        /\ Exceeds(text', config', files') = Exceeds(t, config, files)
    BY <1>1
  <2> QED
    BY <1>1, <2>1, <2>2, <2>3 DEF RunInv, InsideSteps, ListedAndSeen, JudgeUntrained
<1> QED
  BY <1>2, <1>3

\* What is listed stays seen as long as no one changes what it depends on.
LEMMA StillListed ==
    ASSUME pc # "idle", UNCHANGED <<config, files, text, seen>>
    PROVE  /\ Listed(text', config', files') = Listed(text, config, files)
           /\ Exceeds(text', config', files') = Exceeds(text, config, files)
           /\ \A c : Unlisted(c)' <=> Unlisted(c)
BY DEF Unlisted

\* Between the calls.
LEMMA MoveStep ==
    ASSUME TypeOK, RunInv, GateAssumption, 0 \notin Texts,
           Load \/ BeginTask \/ NextRound \/ EndTask \/ UNCHANGED vars
    PROVE  RunInv'
<1>1. /\ UNCHANGED <<config, files, text, seen>>
      /\ sent' = sent
      /\ pc' \in {"idle", "load"} => pc' = pc
      /\ pc' # "idle" => pc # "idle"
  BY DEF Load, BeginTask, NextRound, EndTask, vars, run
<1>2. ListedAndSeen' /\ JudgeUntrained'
  <2>1. JudgeUntrained'
    BY <1>1 DEF RunInv, JudgeUntrained
  <2>2. CASE pc' = "idle"
    BY <1>1, <2>1, <2>2 DEF RunInv, ListedAndSeen
  <2>3. CASE pc' # "idle"
    <3>1. /\ Listed(text', config', files') = Listed(text, config, files)
          /\ Exceeds(text', config', files') = Exceeds(text, config, files)
          /\ \A c : Unlisted(c)' <=> Unlisted(c)
      BY <1>1, <2>3, StillListed
    <3> QED
      BY <1>1, <2>1, <2>3, <3>1 DEF RunInv, ListedAndSeen
  <2> QED
    BY <2>1, <2>2, <2>3
<1>3. InsideSteps'
  <2> USE DEF RunInv
  <2>1. CASE Load
    <3>1. text \in Nat
      BY <2>1 DEF Load, GateAssumption, InsideSteps
    <3> QED
      BY <2>1, <3>1 DEF Load, InsideSteps
  <2>2. CASE BeginTask
    <3>1. /\ text \in Texts /\ text \in Nat /\ text # 0 /\ task \in Nat
          /\ task < text /\ task' = task + 1 /\ round' = 1 /\ pc' = "round"
          /\ UNCHANGED <<config, files, text, loaded>> /\ loaded = files
      BY <2>2 DEF BeginTask, RunTasks, InsideSteps, GateAssumption, TypeOK
    <3>2. policy' \in Policies
      BY <2>2 DEF BeginTask
    <3>3. /\ policy'.rounds \in 1..P!PolicyFor(config.mode).rounds
          /\ config.mode # "self_decision" => policy' = P!PolicyFor(config.mode)
      BY <3>2, PolicyWithinList
    <3>4. P!PolicyFor(config.mode).rounds \in {1, 3}
      BY PolicyType
    <3> QED
      BY <3>1, <3>3, <3>4 DEF InsideSteps
  <2>3. CASE NextRound
    <3>1. /\ policy.rounds \in Nat /\ P!PolicyFor(config.mode).rounds \in {1, 3}
          /\ round \in Nat
      BY PolicyType DEF TypeOK
    <3> QED
      BY <2>3, <3>1 DEF NextRound, InsideSteps
  <2>4. CASE EndTask
    BY <2>4 DEF EndTask, run, InsideSteps
  <2>5. CASE UNCHANGED vars
    BY <2>5 DEF vars, run, InsideSteps
  <2> QED
    BY <2>1, <2>2, <2>3, <2>4, <2>5
<1> QED
  BY <1>2, <1>3 DEF RunInv

\* A call that is sent is one of the list's, and the evaluator's has no
\* training text.
LEMMA SendStep ==
    ASSUME RunInv, NEW c, Send(c),
           c \in Listed(text, config, files) \/ Unlisted(c),
           c.to = "judge" => "training" \notin c.scopes
    PROVE  RunInv'
<1>1. /\ pc = "round" /\ sent' = sent \cup {c}
      /\ UNCHANGED <<config, files, pc, text, loaded, policy, task, round, seen>>
  BY DEF Send
<1>2. InsideSteps'
  BY <1>1 DEF RunInv, InsideSteps
<1>3. ListedAndSeen'
  BY <1>1, StillListed DEF RunInv, ListedAndSeen
<1>4. JudgeUntrained'
  BY <1>1 DEF RunInv, JudgeUntrained
<1> QED
  BY <1>2, <1>3, <1>4 DEF RunInv

\* A call to a provider or to the evaluator keeps the invariant.
LEMMA CallStep ==
    ASSUME TypeOK, RunInv, GateAssumption,
           CallJudge \/ \E p \in Remote(config) : CallProvider(p)
    PROVE  RunInv'
<1>1. ASSUME pc = "round"
      PROVE  /\ loaded = files
             /\ <<task, round>> \in Steps(text, config)
             /\ <<task, round>>[1] = task /\ <<task, round>>[2] = round
  BY <1>1 DEF RunInv, InsideSteps, Steps, GateAssumption
<1>2. ASSUME NEW p \in Remote(config), CallProvider(p) PROVE RunInv'
  <2> DEFINE c == ProviderCall(p, task, round, config, loaded)
  <2>1. pc = "round" /\ Send(c)
    BY <1>2 DEF CallProvider, Send
  <2>2. c \in Listed(text, config, files)
    BY <1>1, <1>2, <2>1 DEF Listed
  <2>3. c.to # "judge"
    <3>1. p \in Provider
      BY <1>2 DEF Remote, GateAssumption, TypeOK, Config
    <3>2. p.id # "judge"
      BY <3>1 DEF Provider
    <3> QED
      BY <3>2 DEF ProviderCall
  <2> HIDE DEF c
  <2> QED
    BY <2>1, <2>2, <2>3, SendStep
<1>3. CASE CallJudge
  <2> DEFINE c == JudgeCall(task, round, config, loaded)
  <2>1. pc = "round" /\ Send(c) /\ policy.validation /\ RemoteJudge(config)
    BY <1>3 DEF CallJudge, Send
  <2>2. c \in Listed(text, config, files) \/ Unlisted(c)
    <3>1. CASE config.mode = "self_decision"
      BY <3>1 DEF Unlisted, JudgeCall
    <3>2. CASE config.mode # "self_decision"
      <4>1. P!PolicyFor(config.mode).validation
        BY <2>1, <3>2 DEF RunInv, InsideSteps
      <4> QED
        BY <1>1, <2>1, <4>1 DEF Listed
    <3> QED
      BY <3>1, <3>2
  <2>3. "training" \notin c.scopes
    BY DEF JudgeCall
  <2> HIDE DEF c
  <2> QED
    BY <2>1, <2>2, <2>3, SendStep
<1> QED
  BY <1>2, <1>3

\* The invariant of the gate and the runs behind it.
THEOREM GateInvariant ==
    ASSUME FilesStable, 0 \notin Texts
    PROVE  Spec => []GateInv
<1>1. Init => GateInv
  BY RunInit DEF Init, GateInv, TypeOK, OpenConfirmation, NoPolicy
<1>2. ASSUME GateInv, [Next]_vars PROVE GateInv'
  <2> USE DEF GateInv
  <2>1. TypeOK' /\ OpenConfirmation'
    BY <1>2, TypeStep, OpenStep, GateAssumption
  <2>2. CASE Configure \/ EditFiles \/ Return \/ \E t \in Texts : Confirm(t)
    BY <1>2, <2>1, <2>2, IdleStep
  <2>3. CASE \E t \in Texts : TranslateFreely(t) \/ TranslateConfirmed(t)
    BY <1>2, <2>1, <2>3, BeginStep, GateAssumption
  <2>4. CASE Load \/ BeginTask \/ NextRound \/ EndTask \/ UNCHANGED vars
    BY <1>2, <2>1, <2>4, MoveStep, GateAssumption
  <2>5. CASE CallJudge \/ \E p \in Remote(config) : CallProvider(p)
    BY <1>2, <2>1, <2>5, CallStep, GateAssumption
  <2> QED
    BY <1>2, <2>2, <2>3, <2>4, <2>5 DEF Next
<1> QED
  BY <1>1, <1>2, PTL DEF Spec

\* No remote call the user has not confirmed.
THEOREM OnlyConfirmedCalls ==
    ASSUME FilesStable, 0 \notin Texts
    PROVE  Spec => []ConfirmedCallsOnly
<1>1. GateInv => ConfirmedCallsOnly
  BY DEF GateInv, RunInv, ListedAndSeen, ConfirmedCallsOnly, Unlisted
<1> QED
  BY <1>1, GateInvariant, PTL

\* The training text that leaves is the one the user confirmed.
THEOREM TrainingAsConfirmed ==
    ASSUME FilesStable, 0 \notin Texts
    PROVE  Spec => []UploadAsConfirmed
<1>1. ASSUME GateInv PROVE UploadAsConfirmed
  <2> SUFFICES ASSUME config.require, NEW c \in sent, "training" \in c.scopes
               PROVE  loaded.training = seen.files.training
    BY DEF UploadAsConfirmed
  <2>1. pc \in {"task", "round"}
    BY <1>1 DEF GateInv, RunInv, ListedAndSeen, TypeOK
  <2>2. c \in Listed(text, config, files)
    BY <1>1, <2>1 DEF GateInv, RunInv, ListedAndSeen, JudgeUntrained, Unlisted
  <2> QED
    BY <1>1, <2>1, <2>2 DEF GateInv, RunInv, ListedAndSeen, InsideSteps
<1> QED
  BY <1>1, GateInvariant, PTL

\* All tasks of a text together spend no more than the limit.
THEOREM LimitOverAllTasks ==
    ASSUME FilesStable, 0 \notin Texts
    PROVE  Spec => []SpendWithinLimit
<1>1. ASSUME GateInv PROVE SpendWithinLimit
  <2> SUFFICES ASSUME config.require, config.mode # "self_decision"
               PROVE  Cost(sent) <= config.limit
    BY DEF SpendWithinLimit
  <2>1. config \in Configs /\ config.limit \in Nat
    BY <1>1, GateAssumption DEF GateInv, TypeOK, GateAssumption, Config
  <2>2. CASE pc = "idle"
    BY <1>1, <2>1, <2>2, CostEmpty DEF GateInv, RunInv, ListedAndSeen
  <2>3. CASE pc # "idle"
    <3> DEFINE L == Listed(text, config, files)
    <3>1. sent \subseteq L /\ ~(Cost(L) > config.limit)
      BY <1>1, <2>3 DEF GateInv, RunInv, ListedAndSeen, Unlisted, Exceeds
    <3>2. text \in Nat
      BY <1>1, <2>3, GateAssumption DEF GateInv, RunInv, InsideSteps, GateAssumption
    <3>3. IsFiniteSet(L) /\ \A c \in L : c.cost \in Nat
      BY <2>1, <3>2, ListFinite, GateAssumption
    <3> HIDE DEF L
    <3>4. Cost(sent) <= Cost(L)
      BY <3>1, <3>3, CostWithin
    <3>5. Cost(L) \in Nat /\ Cost(sent) \in Nat
      BY <3>1, <3>3, CostType, FS_Subset
    <3> QED
      BY <2>1, <3>1, <3>4, <3>5
  <2> QED
    BY <2>2, <2>3
<1> QED
  BY <1>1, GateInvariant, PTL

=============================================================================
