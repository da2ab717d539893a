----------------------------- MODULE RemoteGate -----------------------------
(***************************************************************************)
(* The confirmation gate in front of remote calls: preview_remote_calls,   *)
(* confirm_remote_preflight, _consume_remote_confirmation and              *)
(* translate_text of desktop_agent_app.py over build_remote_call_preflight *)
(* of agent_preflight.py.  The user looks at a list of calls, confirms it, *)
(* may change every setting and file, and then translates; the controller  *)
(* builds the list again, compares fingerprints, reads the files once more *)
(* and runs one agent run per task of the text.  The model keeps the       *)
(* remote calls: who is called, in which task and round, with what data.   *)
(***************************************************************************)
EXTENDS Integers, FiniteSets, FiniteSetsExt

CONSTANTS
    Configs,        \* the configurations the user may set
    Texts,          \* texts, each as its number of tasks; 0 is a blank text
    FileSets,       \* contents of the two files, by version; 0 is no text
    MaxCloud,       \* MAX_CLOUD_PROVIDERS
    FilesStable,    \* whether no one edits the files while a run starts
    MaxConfirms     \* bound: how often the model's user confirms

P == INSTANCE MetaPolicy

\* A provider is remote if it needs the API; a cloud provider may not.
Provider == [id : STRING \ {"judge"}, remote : BOOLEAN, cloud : BOOLEAN, cost : Nat]
Config == [mode : P!AgentMode, api : BOOLEAN, limit : Nat, require : BOOLEAN,
           upload : BOOLEAN, roster : SUBSET Provider,
           judge : [remote : BOOLEAN, cost : Nat]]

ASSUME GateAssumption ==
    /\ Configs \subseteq Config
    /\ \A c \in Configs : /\ IsFiniteSet(c.roster)
                           /\ \A p, q \in c.roster : p.id = q.id => p = q
    /\ Texts \subseteq Nat
    /\ FileSets \subseteq [training : Nat, validation : Nat]
    /\ MaxCloud \in Nat
    /\ FilesStable \in BOOLEAN
    /\ MaxConfirms \in Nat

VARIABLES
    config,     \* controller.config, .providers and .evaluator
    files,      \* what the training and validation file hold on disk
    confirmed,  \* _remote_confirmation_id: the payload it is the hash of
    pc,         \* where in translate_text the controller is
    text,       \* the text being translated
    loaded,     \* the files as the run read them
    policy,     \* the ModePolicy of the current task's run
    task, round,\* where the run is
    paid,       \* what the remote calls of the current task cost
    sent,       \* the remote calls made since translate_text began
    seen,       \* history: the calls and files the user last confirmed
    confirms,   \* history: the confirmations given
    opened      \* history: the runs a confirmation let through

run == <<text, loaded, policy, task, round, paid, sent>>
vars == <<config, files, confirmed, pc, run, seen, confirms, opened>>

NotConfirmed == [text |-> -1]
NoPolicy == [rounds |-> 0, gate |-> TRUE, validation |-> FALSE]

-----------------------------------------------------------------------------
(* The preflight.  The hash of the payload is taken to be collision free.  *)

Remote(c) == {p \in c.roster : p.remote /\ c.api}
RemoteJudge(c) == c.judge.remote /\ c.api

ProviderCall(p, k, r, c, f) ==
    [to |-> p.id, task |-> k, round |-> r, cost |-> p.cost,
     scopes |-> {"source"} \cup
        IF c.upload /\ f.training # 0 THEN {"training"} ELSE {}]

JudgeCall(k, r, c, f) ==
    [to |-> "judge", task |-> k, round |-> r, cost |-> c.judge.cost,
     scopes |-> {"source", "candidate"} \cup
        IF f.validation # 0 THEN {"validation"} ELSE {}]

Steps(t, c) == (1..t) \X (1..P!PolicyFor(c.mode).rounds)

\* preflight.calls: every remote provider, then the remote evaluator if the
\* mode validates, for every task and round.
Listed(t, c, f) ==
    {ProviderCall(p, s[1], s[2], c, f) : s \in Steps(t, c), p \in Remote(c)}
    \cup IF RemoteJudge(c) /\ P!PolicyFor(c.mode).validation
         THEN {JudgeCall(s[1], s[2], c, f) : s \in Steps(t, c)} ELSE {}

Cost(calls) == SumFunction([c \in calls |-> c.cost])

FaultyExceeds(t, c, f) == Cost(Listed(1, c, f)) > c.limit
Exceeds(t, c, f) == Cost(Listed(t, c, f)) > c.limit

FaultyFingerprint(t, c, f) == [text |-> t, mode |-> c.mode]

\* The payload of _confirmation_id.  Of a provider it has the name, and of a
\* remote one its calls: the address and the model behind a name are not in it,
\* so that a provider saved anew under its old name keeps the confirmation.
Fingerprint(t, c, f) ==
    [text |-> t, mode |-> c.mode, providers |-> {p.id : p \in c.roster},
     api |-> c.api, limit |-> c.limit, upload |-> c.upload, files |-> f,
     calls |-> Listed(t, c, f)]

-----------------------------------------------------------------------------
Init ==
    /\ config \in Configs
    /\ files \in FileSets
    /\ confirmed = NotConfirmed
    /\ pc = "idle"
    /\ text = 0
    /\ loaded = files
    /\ policy = NoPolicy
    /\ task = 0 /\ round = 0 /\ paid = 0
    /\ sent = {}
    /\ seen = [calls |-> {}, files |-> files]
    /\ confirms = 0 /\ opened = 0

\* Settings page, project profile, provider list: the confirmation stays.
Configure ==
    /\ pc = "idle"
    /\ config' \in Configs
    /\ UNCHANGED <<files, confirmed, pc, run, seen, confirms, opened>>

\* The files belong to the user's editor.
EditFiles ==
    /\ pc = "idle" \/ (pc = "load" /\ ~FilesStable)
    /\ files' \in FileSets
    /\ UNCHANGED <<config, confirmed, pc, run, seen, confirms, opened>>

\* confirm_remote_preflight; a list over budget raises and changes nothing.
Confirm(t) ==
    /\ pc = "idle" /\ confirms < MaxConfirms
    /\ ~Exceeds(t, config, files)
    /\ confirmed' = Fingerprint(t, config, files)
    /\ seen' = [calls |-> Listed(t, config, files), files |-> files]
    /\ confirms' = confirms + 1
    /\ UNCHANGED <<config, files, pc, run, opened>>

FaultyBegin(t) ==
    /\ text' = t + 1
    /\ pc' = "load"
    /\ UNCHANGED <<config, files, loaded, policy, task, round, paid, sent,
                   seen, confirms>>

Begin(t) ==
    /\ text' = t
    /\ pc' = "load"
    /\ UNCHANGED <<config, files, loaded, policy, task, round, paid, sent,
                   seen, confirms>>

GateApplies(t) == config.require /\ Listed(t, config, files) # {}

\* translate_text where the gate has nothing to ask.
TranslateFreely(t) ==
    /\ pc = "idle" /\ ~GateApplies(t)
    /\ Begin(t)
    /\ UNCHANGED <<confirmed, opened>>

FaultyTranslateConfirmed(t) ==
    /\ pc = "idle" /\ GateApplies(t)
    /\ ~Exceeds(t, config, files)
    /\ confirmed = Fingerprint(t, config, files)
    /\ opened' = opened + 1
    /\ Begin(t)
    /\ UNCHANGED confirmed

\* translate_text where it has: the confirmation is used up.  A fingerprint
\* that differs raises PermissionError and changes nothing.
TranslateConfirmed(t) ==
    /\ pc = "idle" /\ GateApplies(t)
    /\ ~Exceeds(t, config, files)
    /\ confirmed = Fingerprint(t, config, files)
    /\ confirmed' = NotConfirmed
    /\ opened' = opened + 1
    /\ Begin(t)

\* The files are read a second time, after the gate.
Load ==
    /\ pc = "load"
    /\ loaded' = files
    /\ task' = 0
    /\ pc' = "task"
    /\ UNCHANGED <<config, files, confirmed, text, policy, round, paid, sent,
                   seen, confirms, opened>>

-----------------------------------------------------------------------------
(* One agent run per task; AgentRun models it in full.                     *)

Materials == loaded.training # 0 /\ loaded.validation # 0

SelectedModes ==
    {P!SelectMode(Materials, config.api, \E p \in config.roster : ~p.remote,
                  config.limit, low, review, risk) :
        low \in BOOLEAN, review \in BOOLEAN, risk \in BOOLEAN}

Policies == IF config.mode = "self_decision"
            THEN {P!MetaPolicyFor(m) : m \in SelectedModes}
            ELSE {P!PolicyFor(config.mode)}

\* A blank text has no unit to translate and still gets its one run.
RunTasks == IF text = 0 THEN 1 ELSE text

BeginTask ==
    /\ pc = "task" /\ task < RunTasks
    /\ policy' \in {p \in Policies : p.validation => Materials}
    /\ task' = task + 1
    /\ round' = 1
    /\ paid' = 0
    /\ pc' = "round"
    /\ UNCHANGED <<config, files, confirmed, text, loaded, sent, seen,
                   confirms, opened>>

ThisRound == {c \in sent : c.task = task /\ c.round = round}
Heard == {c \in ThisRound : c.to # "judge"}

Send(c) ==
    /\ pc = "round"
    /\ paid + c.cost <= config.limit
    /\ paid' = paid + c.cost
    /\ sent' = sent \cup {c}
    /\ UNCHANGED <<config, files, confirmed, pc, text, loaded, policy, task,
                   round, seen, confirms, opened>>

CallProvider(p) ==
    /\ p.id \notin {c.to : c \in ThisRound}
    /\ Cardinality(Heard) < MaxCloud
    /\ Send(ProviderCall(p, task, round, config, loaded))

\* Cloud providers that need no API count against the limit as well.
Keyless == {p \in config.roster : p.cloud /\ ~p.remote}

\* Every remote provider within the limit of cloud providers has answered;
\* which of the cloud providers are within it depends on their order.
RoundHeard == \/ Cardinality(Heard) + Cardinality(Keyless) >= MaxCloud
              \/ {c.to : c \in Heard} = {p.id : p \in Remote(config)}

CallJudge ==
    /\ RoundHeard
    /\ policy.validation /\ RemoteJudge(config)
    /\ "judge" \notin {c.to : c \in ThisRound}
    /\ Send(JudgeCall(task, round, config, loaded))

NextRound ==
    /\ pc = "round" /\ RoundHeard /\ round < policy.rounds
    /\ round' = round + 1
    /\ UNCHANGED <<config, files, confirmed, pc, text, loaded, policy, task,
                   paid, sent, seen, confirms, opened>>

\* The run has a strong consensus, a passing score, no round or no money left.
EndTask ==
    /\ pc = "round"
    /\ pc' = "task"
    /\ UNCHANGED <<config, files, confirmed, run, seen, confirms, opened>>

\* All tasks are done, or something raised: a provider, a file, a store.
Return ==
    /\ pc # "idle"
    /\ pc' = "idle"
    /\ sent' = {}
    /\ UNCHANGED <<config, files, confirmed, text, loaded, policy, task,
                   round, paid, seen, confirms, opened>>

Next == \/ Configure \/ EditFiles
        \/ \E t \in Texts : Confirm(t) \/ TranslateFreely(t) \/ TranslateConfirmed(t)
        \/ Load \/ BeginTask
        \/ \E p \in Remote(config) : CallProvider(p)
        \/ CallJudge \/ NextRound \/ EndTask \/ Return

Spec == Init /\ [][Next]_vars

-----------------------------------------------------------------------------
(* Properties.                                                             *)

\* The types of the gate's state: the text in work is one that was passed, and
\* policies, positions and amounts are numbers the run can have.
TypeOK ==
    /\ config \in Configs /\ files \in FileSets /\ loaded \in FileSets
    /\ pc \in {"idle", "load", "task", "round"}
    /\ text \in Texts \cup {0}
    /\ policy \in [rounds : Nat, gate : BOOLEAN, validation : BOOLEAN]
    /\ task \in Nat /\ round \in Nat /\ paid \in Nat
    /\ seen.files \in FileSets
    /\ confirms \in Nat /\ opened \in Nat

\* The evaluator of a self_decision run, which the preflight leaves out.
Unlisted(c) == c.to = "judge" /\ config.mode = "self_decision"

\* With the gate on, every remote call of a run is one the user saw, with
\* that receiver, task, round, data and price, in the list last confirmed,
\* whatever was reconfigured, edited or confirmed in between.  The receiver is
\* what the list shows of it, the name of a provider, not its address.  Two
\* things it rests on: the text is not blank (a blank one lists no call, so
\* nothing asks for a confirmation, and the run still calls every provider
\* once), and the files stay put between the gate and their second reading.
ConfirmedCallsOnly ==
    config.require => \A c \in sent : c \in seen.calls \/ Unlisted(c)

\* The gate is what keeps a long text within the limit: each task has the
\* whole limit for itself, but what all of them spend remotely stays inside
\* it, because the list that was confirmed did.
SpendWithinLimit ==
    config.require /\ config.mode # "self_decision" => Cost(sent) <= config.limit

\* One confirmation lets one run through, whichever settings come back.
ConfirmedOnce == opened <= confirms

\* user_manual_zh.md:324 says that the preflight lists the remote evaluator.
\* A self_decision run that picks self_iterative calls it all the same.
EvaluatorIsListed ==
    config.require => \A c \in sent : c.to = "judge" => c \in seen.calls

\* The training text that leaves the process is the one on disk when the user
\* confirmed, whatever was edited and confirmed since: the confirmation is
\* bound to its content (desktop_agent_core_zh.md:11).
UploadAsConfirmed ==
    config.require =>
        \A c \in sent : "training" \in c.scopes =>
            loaded.training = seen.files.training

-----------------------------------------------------------------------------
(* The inductive invariant behind the properties, for files that stay put   *)
(* and texts that are not blank.  TypeOK and OpenConfirmation need neither. *)

\* A confirmation that is still open is of what the user saw, and is the
\* one that has not let a run through yet.
OpenConfirmation ==
    /\ confirmed # NotConfirmed => /\ confirmed.calls = seen.calls
                                   /\ confirmed.files = seen.files
                                   /\ opened < confirms
    /\ opened <= confirms

\* The position of the run is one of the steps the preflight lists.
InsideSteps ==
    /\ pc # "idle" => text \in Texts
    /\ pc \in {"task", "round"} => loaded = files /\ task \in 0..text
    /\ pc = "round" =>
        /\ task > 0
        /\ policy.rounds <= P!PolicyFor(config.mode).rounds
        /\ config.mode # "self_decision" =>
              policy.validation = P!PolicyFor(config.mode).validation
        /\ round \in 1..P!PolicyFor(config.mode).rounds

\* What is listed for the run has been seen, within the limit and with the
\* files on disk now, and what is sent is listed.
ListedAndSeen ==
    /\ pc \in {"idle", "load"} => sent = {}
    /\ pc # "idle" /\ config.require =>
        /\ Listed(text, config, files) \subseteq seen.calls
        /\ ~Exceeds(text, config, files)
        /\ Listed(text, config, files) = {} \/ seen.files = files
    /\ pc # "idle" =>
        \A c \in sent : c \in Listed(text, config, files) \/ Unlisted(c)

\* The evaluator gets the validation text, never the training text.
JudgeUntrained == \A c \in sent : c.to = "judge" => "training" \notin c.scopes

\* Everything at once, as the proof needs it.
RunInv == InsideSteps /\ ListedAndSeen /\ JudgeUntrained
GateInv == TypeOK /\ OpenConfirmation /\ RunInv

=============================================================================
