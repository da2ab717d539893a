# Consensus-Translation in TLA+

Specifications, model-checking runs and machine-checked proofs for the Python
program in `src/`: a desktop translation agent that asks several engines for a
translation, scores their consensus, has a human confirm the result and learns
lexicon entries from it. Paths below are relative to
`src/src/consensus_translation/` unless they start with `docs/`.

## 1. The system

The program has no threads and no event loop of its own: a window's handlers
run one after the other. What makes it hard is elsewhere. Several windows or
processes share one SQLite file and several JSON files; a call to a provider,
an evaluator, a file or the store may raise or be the last thing the process
does; an operation is often several transactions; and what a user confirmed is
used later, when settings and files may have changed.

| Component | State it keeps | Operations | Where it is hard |
| --- | --- | --- | --- |
| Workflow machine (`agent_workflow_state.py`) | the state of one run | `apply(event)`, raises on an event its state refuses | which events a run applies depends on who answered |
| Mode policy and policy agent (`agent_contracts.py`, `agent_meta_policy.py`) | none | `policy_for_mode`, `select_mode` | the policy of a `self_decision` run is merged from two sources |
| Agent run (`agent_workflows.py`) | budget, candidates, decision, evaluator, status, trace | `run_agent_translation`: rounds, provider calls, consensus, judging, verdict, commit | order of budget checks, retries, exceptions between calls, verdict decided from flags set rounds ago |
| Audit store (`agent_store.py`, `agent_finalize.py`) | runs, revision events, lexicon tables, ratings, profiles, provider configurations | record, correct, confirm, skip, mark special, edit, import, confirm/reject run, rate | a confirmation is three steps on two connections; several windows; crashes |
| Context slices (`agent_context.py`, `agent_continuation.py`) | the plan of one text | plan, run each slice, stitch, verify | units that are merged, units of no token, a context without room, a slice that raises |
| Remote gate (`agent_preflight.py`, `desktop_agent_app.py`) | the confirmation id | preview, confirm, translate | configuration and files change between confirmation and use |
| Consensus and scoring (`agent_consensus.py`, `mdwc.py`) | none | collect, align, score, arbitrate | boundaries of weights and thresholds |
| Ratings (`agent_feedback.py`, `services/finalize_service.py`) | ratings table, history file | submit, skip, summarise | two stores written one after the other |
| Input plugins (`agent_input_plugins.py`) | inbox folder, archive, error folder, seen hashes; hook buffers | capture, append | files are moved one by one, the hashes saved once, at the end |
| JSON stores (`lexicon.py`, `desktop_qt/history_store.py`, `desktop_qt/settings_store.py`, `agent_credentials.py`) | one file each | read, change, write back | several processes; a crash inside a write |
| Job runner and Streamlit page (`workflows.py`, `engines.py`, `merging.py`, `src/app.py`) | session state, lexicon file | run, confirm, revise, pretrain | engines that fail one by one; a page that is interrupted between two assignments; sessions that share the lexicon file |
| Migration (`agent_lexicon_migration.py`) | none | import the lexicon file into the database | an import that dies half way; two at once |
| Provider settings (`desktop_agent_app.py`, `agent_credentials.py`, `agent_provider_config.py`) | credentials file, provider rows | save, load the enabled ones | a key in one store, its row in another |
| Application service (`desktop_qt/application_service.py`) | the last result, services | translate, save history, rate, configure | composes the others |

How they interact: the application service updates the controller's
configuration and calls `translate_text`; the controller passes the gate, reads
the files and calls `run_context_managed_translation`; that plans the slices and
starts one agent run per task; a run calls providers and an evaluator, drives
its workflow machine and commits to the store through the finalize service; the
review pages confirm or skip what the store holds.

What must hold: a run stays within its budget and behind the API switch and
finalizes nothing unvalidated; a proposal is decided once and reaches the
lexicon exactly when it is confirmed; a long text is translated completely and
once; no remote call leaves the process that the user did not confirm; a text
dropped into the inbox is returned once and its file is kept; the history shows
what the database holds; a provider saved with a key has it; ratings move later
scores, and the choice of the mode, the way they point; a correction is filed
under the text it corrects; an import that ends is complete.

## 2. The modules

| Module | Models | Used by |
| --- | --- | --- |
| `WorkflowMachine` | the transition table of the run's workflow, as data | `AgentRun` |
| `MetaPolicy` | `policy_for_mode`, the ladder of `select_mode`, the merged policy | `AgentRun`, `RemoteGate`, `RiskPolicy` |
| `AgentRun` | `run_agent_translation`, one call that leaves the process per step | `MCAgentRun`, `AgentRunProofs` |
| `ReviewLedger` | abstract: what the store promises the reviewer, a confirmation in one step | `RevisionStore` (refinement) |
| `RevisionStore` | runs, revision events and lexicon tables under several windows | `MCRevisionStore`, `RevisionStoreProofs` |
| `ContextSlices` | cutting, planning, running, stitching a text; the preflight's own task list | `MCContextSlices`, `ContextSlicesProofs` |
| `RemoteGate` | preflight, confirmation, translate, and the remote calls of the runs behind it | `MCRemoteGate`, `RemoteGateProofs` |
| `FolderInbox` | `FolderInboxInputPlugin.capture` in several windows, and the producers | `MCFolderInbox`, `FolderInboxProofs` |
| `Feedback` | what the stored ratings say of a task: relevance, averages, ratios, penalty, boost | `Consensus`, `RiskPolicy` |
| `Consensus` | collecting, aligning, scoring and arbitrating candidates | `Desk`, `LocalJob` |
| `RiskPolicy` | risk score, rating review, the mode a `self_decision` run chooses | `Desk` |
| `Desk` | the windows over the database and three JSON files: translate, history, rate, settings, profile, keys | `MCDesk`, `DeskProofs` |
| `LocalJob` | `run_local_job`: engines, merging, scoring, audit | `ChatSession` |
| `ChatSession` | the Streamlit page, the lexicon file, the migration | `MCChatSession`, `ChatSessionProofs` |
| `SumTheorems` | no code: what holds of sums over finite sets, and of the order of a finite set of numbers | `AgentRunProofs`, `ContextSlicesProofs`, `RemoteGateProofs`, `DeskProofs` |

They compose as the code does: `Desk` reads the ratings with `Feedback`, scores
a run with `Consensus` and asks `RiskPolicy`, which instantiates `MetaPolicy`,
what a run would choose; `ChatSession` takes its texts from `LocalJob`, whose
audit is `Consensus` again; `AgentRun` and `RemoteGate` leave the scores open and
so cover whatever `Consensus` and `RiskPolicy` decide.

An operator named `Faulty...` is a plausible slip in the definition right below
it, kept to show that a property notices; no specification uses one.

### AgentRun

`request` holds the arguments of the call, `pc` the place in the function, the
other variables the function's locals of the same names. `CallProvider`,
`ProviderRaises`, `JudgeText`, `JudgeRaises`, `Commit` and `CommitRaises` are
the calls and what they may do; `ProviderOverBudget` and `JudgeOverBudget` are
the two budget stops; `Settle` is the verdict. Texts and scores are gone: a
decision says whether it has a text, whether its score reaches 0.75 and whether
it asks for review, with the implications arbitration guarantees between the
three. A call costs its estimate, as the providers and evaluators of the
program report it. `select_mode` compares a coverage, a rating history and a
risk score with thresholds: three Boolean inputs here, computed in `RiskPolicy`.

### RevisionStore

One SQLite transaction is one step. Confirming an event is `ReadById` or
`ReadBySource`, then `Upsert`, which commits on a connection of its own, then
`Mark`; `Abandon` is the death of the process or an exception in between. A row
that a skip deleted has phase `skipped` and keeps its place, since SQLite's
`autoincrement` never gives its id out again. `Shown` maps the store to
`ReviewLedger`: an event whose target has been written counts as confirmed.

### ContextSlices

A paragraph is its number of tokens and a unit is known by its index. The two
loops of `plan_context_slices` are `CutParagraph` and `PlanUnit`, the runs
`RunInitial` and `RunContinuation`, and `Verification` is what
`_verify_stitched_text` can really tell: of its four conditions only the empty
part can fail. `PlannedTasks` is `agent_preflight._planned_tasks`.
What is counted is the source text of a task, which is all the plan counts. The
prompt also carries instructions, lexicon, training text and, in a continuation,
the brief of the task before (`agent_providers.py:288`,
`agent_continuation.py:97`); nothing compares the sum with the context, and the
model says nothing of it.

### RemoteGate

The user reconfigures, edits files, confirms and translates in any order while
the window is idle. `Fingerprint` is the payload of `_confirmation_id`; the
hash over it is taken to be free of collisions. The run behind the gate is
reduced to its remote calls: `BeginTask`, `CallProvider`, `CallJudge`,
`NextRound`, `EndTask` allow at least the calls `AgentRun` makes. Cloud providers
without a key (`Keyless`) call nobody and still count against
`MAX_CLOUD_PROVIDERS`, as in `agent_workflows.py:91`. Providers and evaluators
are known by their ids, as they are to the fingerprint; the address and the model
behind an id are neither in it nor in the model. A text is its number of tasks. `seen`, `confirms` and `opened` are history variables.

### FolderInbox

`capture` is cut at every file operation: `Open` loads the seen hashes, `List`
takes the directory once, `Visit` tests `is_file` and the suffix, the `Read...`
actions are the three ways out of the `try`, `Target` and `Move` the two halves
of `_move_unique`, `Truncate` and `Write` those of `write_text`, `Return` the
end. A move that raises inside the `try`, as that of a seen duplicate may, sends
the file to the error folder. `Abort` is an exception nobody catches (a move whose source is gone, a
folder that cannot be written) or the end of the process: the caller gets
nothing. A payload stands for its own hash. The archive and the error folder are
sets of slots, a slot being a name and the index `_move_unique` appended; names
that already end in an index are not told apart. What a payload may be (too
large, not UTF-8, JSON or not, JSON that is no object) is given by constants, and
`Unparsable` combines them as `_parse_payload` does. `mishaps` records what has gone
wrong, and every property names the mishaps it excludes. Each of these premises
is needed: without any one of them TLC finds the property violated.

### Feedback, Consensus, RiskPolicy

Pure operators over records. Shares are integers in parts of `One` = 180000,
which every average of up to six ratings divides; a score is a sum of such
shares weighted with percents, so that `100 * One` is 1.0 and no rounding decides
a comparison. A text is a sequence of segments; how alike two texts are
(`SequenceMatcher.ratio`) is the constant `Overlap`. `Relevant` is the ladder of
`rating_summary_from_records`: exact matches, or else the topic's, or else the
language pair's, or else the provider's.

### Desk

A handler of a window is cut where it goes to a store: `Translate` reads the
ratings, `RecordRun` stores the run and, in a Qt window with history on, goes on
to `HistoryRead`, `HistoryTruncate` and `HistoryFill`, the three steps of a file
that is read, truncated and filled; `SubmitRating` commits the rating and then
walks the same three. `SaveSettings`, `KeyTruncate` and `KeyFill`, `OpenFile` and
`SaveProfile` are the other read-change-write handlers, and `SaveRow` follows
`KeyFill`. `Fails` is a write that raises (that of the profile after the recent
files, too), `Restart` the end of the process
between any two steps. A file being written is `Torn`, which each store reads in
its own way: history and settings as their defaults, credentials with an
exception. A run is a record of its config, its task, how many ratings it read
and its score; `Scored` with no ratings is the score it would have had without
any. A rating is filed under
the config the window has now, not under the run's
(`desktop_qt/application_service.py:266`); `Rating` does the same. The table of
runs has no columns for topic or languages, so `HistoryBacked` asks that a row of
the history have its run and its rating in the database, and no more.
`wished`, `expected`, `opened`, `keyed` and `faults` are history variables.

### LocalJob, ChatSession

`AnswersA` and `AnswersB` are the sets of what the two engines may answer, a model
being a function of its route or a failure, with the pivot over English.
`Audit` returns what `_legacy_consensus_audit` does: status, votes, conflicts and
whether to review. `ChatSession` has the page's session state, one variable per
key. `RunLocal` sets source and topic and clears the rest, `RunSafe` is
`run_local_job_safe`, `FinishLocal` stores its payload and its error. Streamlit
may stop a script at any access to the session state: of the assignments an
action makes, in the order of the code, the first *n* are made (`Made`), and a
job whose script was stopped is over (`Onward`). `Load`, `Truncate` and `Fill`
are the steps of `LexiconRepo.apply_revision`. `StartImport`, `ImportEntry`,
`EndImport` and `ImportDies` are the migration, which needs a file that exists.
Sessions are threads of one server, importers processes of their own;
`ServerDies` ends every session. The history `mishaps` notes overlapping writers,
writes that were cut, jobs that were interrupted and pretrain jobs that raised.

## 3. The runs

| Run | Question | States | Bounds |
| --- | --- | --- | --- |
| `agent_run` | safety and termination of a run, agreement of its status and its workflow | 63,124 | eight provider lists: empty, one kind, both kinds in either order, keyless cloud, a mock, more cloud than allowed; two evaluators; limits -1, 0, 1, 4 over costs 0 and 1 cut a run before, inside and after its first round; up to three rounds is the code's own bound |
| `agent_run_skipped` | is skipping every provider harmless? No | violation | the same |
| `revision_store` | two windows and crashes | 178,476 | two windows, two events for one run, two sources: enough for a stale confirmation to meet a skip, a second confirmation and an edit of the same slot |
| `revision_store_solo` | refinement of `ReviewLedger` | 17,564 | one window, no interruption, two layers, so that `ReadBySource` has to choose |
| `revision_store_crash` | does an unconfirmed proposal stay out of the lexicon? No | violation | one window, one event |
| `context_slices` | completeness, source text within the window, prices | 21,747 | three paragraphs of 0 to 4 tokens, room for 0, 2 or 3: paragraphs that fit, are cut with and without a rest, are stepped over, have no token |
| `context_slices_order` | is a passed text in source order? No | violation | the same |
| `remote_gate` | confirmed calls, spending, one run per confirmation, upload | 1,107,099 | nine configurations, each differing from another in one thing the fingerprint must tell apart; texts of one and two tasks; three states of the files; two confirmations, so that an old one may be used for a new list; three cloud providers, one of them keyless, against a limit of two |
| `folder_inbox` | texts returned once, files kept, archive and error folder as promised | 2,102,924 | two windows with symmetry; three names (text, JSON, unsupported) and payloads that parse under both, one or none; two drops and three captures: a text dropped again, under the same or another name, with a capture in between, after it or at the same time |
| `desk` | history, ratings, keys and recent files under three windows; what ratings do to scores and modes | 449,050 | two Qt windows with symmetry and a Tk window; two tasks (agreed and disputed candidates), two configurations; stars 1 and 5; history and recent files of two, so that both overflow; two providers; four ratings, handlers or restarts, handlers other than a rating among the first three (`MaxWorkOps`): three translations or files overflow a list of two, a change meets the steps of two other windows, and a run may be followed by three ratings |
| `chat_session` | corrections, final texts, texts offered, lexicon file and import | 1,091,172 | two sessions with symmetry, one importer; two forms with two texts that one model translates alike and the pivot differently; a correction and a blank one; four jobs, corrections, imports or deaths, jobs in the first three (`MaxJobOps`); scripts are stopped half way until two of them have begun, and one more may follow a stopped job (`MaxStopOps`): a failed job, a stopped one and a correction |
| `remote_gate_evaluator` | is every evaluator listed? No | violation | the `self_decision` configuration |

What the violations show is in `PROJECT.json` under `findings`, with the lines of
the documents they contradict. Two more follow from the same models and are
kept as premises of `ConfirmedCallsOnly` rather than runs of their own:

- a blank text has no task, so its preflight lists nothing and asks for nothing,
  but `run_context_managed_translation` still starts one run for it, which calls
  every provider with an empty text (`desktop_agent_app.py:231`,
  `agent_continuation.py:186`); with `Texts = {0}` TLC finds the unconfirmed call;
- the training and validation files are read once for the preflight and again
  for the run (`desktop_agent_app.py:242`); with `FilesStable = FALSE` TLC finds
  `UploadAsConfirmed` violated by an edit in between;

and one of `SourceWithinWindow`: a context no larger than the reserved output
leaves no room, the text is not cut, and the report's limit check passes all
the same because it looks for a trace line every task gets
(`agent_continuation.py:99,128`).

The premises of the inbox's properties are hazards of their own: two windows
that capture at the same time may both return a text (`DeliveredOnce`), a capture
that is cut short has archived texts nobody was given (`NothingLost`,
`agent_input_plugins.py:189`), and two windows with a name used again file a
text unread or one over another (`Kept`, `agent_input_plugins.py:251`).

Those of `desk` and `chat_session` are, too:

- a window that adds a translation while another rates loses one of the two
  (`HistoryInStep` without `faults`), and settings read while they are being
  saved count as the defaults, so a translation is kept the user wanted unkept;
- a write of the credentials that is cut short leaves a file that no later save
  can read, and one row without a key keeps `load_enabled_provider_configs` from
  loading any (`agent_credentials.py:27`);
- a local job interrupted by the next click leaves the old text with the new
  source, and its correction is filed there (`EntriesAsAsked`, `src/app.py:438`);
- `LowRatingsHoldBack` needs both of its premises. A low rating without ticked
  issues lowers the issue ratios and with them the risk, by at most .005. And
  with three low ratings of the language pair under another mode, which hold a
  run back, the first one of its own topic and mode narrows the relevant ratings
  to a single sample, too few to count, and frees it.

- `OfferedIsAudited` needs both of its premises: after a failed local run, one
  that is interrupted before its payload is stored, or a pretrain run that raises,
  clears the error and keeps the payload, and the failure text is offered for
  confirmation (`src/app.py:413-485`), where
  `docs/superpowers/specs/2026-05-07-local-mode-chat-revision-and-lexicon-writeback-design.md:100`
  has a failure show nothing but its message. A script stopped between the
  payload and the error (`src/app.py:448`) does the same.

The audit of a local job, which has no cloud candidates, never scores above .585
and always asks for review.

Deadlock is checked in every run: a finished run stutters, as do an inbox within
its bounds, windows and sessions whose handlers have all returned; a store and a
gate always have a next operation.

### Fairness

Only `agent_run` needs any. `FairSpec` assumes `WF_vars(Step)`: a run that can
take its next statement eventually does. Provider and evaluator calls carry
timeouts or run in the process, so they return or raise, and nothing else in
the function waits. No fairness is assumed between the alternatives of a step:
which provider raises, what a score is and when the budget ends stay open.

## 4. The proofs

`AgentRunProofs`, `RevisionStoreProofs`, `ContextSlicesProofs`,
`RemoteGateProofs`, `FolderInboxProofs`, `DeskProofs` and `ChatSessionProofs`
hold for every value of the constants that satisfies the named assumptions of
their modules: any provider lists, costs and limits; any number of windows, runs,
sources and events; any text and context; any configurations and files; any
names, payloads, drops and captures; any windows, forms, tasks, ratings,
providers and limits; any sessions, models and importers. Every invariant and
every action property of a passing run is a theorem. The type invariants of
`AgentRun`, `RevisionStore`, `ContextSlices`, `FolderInbox` and `ChatSession` are
proved and no longer part of a run.

`SumTheorems` is what the money, the tokens and the averages rest on. A sum over
a finite set is a fold, defined by recursion on the set. That the fold exists,
takes its terms in any order and grows with them is shown without induction: of
all the finite subsets where a claim would fail one contains no other, and taking
an element from it gives the contradiction (`SmallestSubset`).

The assumptions say what the code builds: the counts a task is scored with are
numbers and its texts can be compared (`JobAssumption`), a file's torn content is not one of
its proper ones (`TornAssumption`), the marker lists are finite. Nothing is
assumed of the order or the number of anything.

- **AgentRun.** `IInv` says for each value of `pc` what the run has gathered:
  at the head of round *r+1* the candidates are those of every runnable provider
  in rounds 1..*r* and every earlier verdict failed (`AtRound`); inside a round
  the providers still to visit are the only ones missing (`AtProviders`); after
  scoring the machine is in `consensusScoring` (`AtJudge`, `AtSettle`). Without
  these the verdict step alone cannot tell that a finalized text was validated
  against everything. From it follow `BudgetSafe`, `LocalOnly`,
  `FinalizedIsValidated`, `SelfDecisionGated`, `StatusShown`, `EventsAccepted`.
  `SpendInv` carries the money: what is spent is the sum over the answers and
  judgements held, at every call and across the exception paths, so that what is
  stored at the end is, too (`StoredSpendIsTrue`).
- **RevisionStore.** `StoreInv` adds `DeskHonest`: what an open confirmation has
  read is the identity and slot of a row that was inserted, and once it claims
  to have written, the slot is not empty. Rows never change slot and ids are
  not reused, so the entry names its proposal (`EntriesTraceable`), and the
  action properties follow step by step. `SoloKeepsLedger` is the refinement,
  for `CanAbandon = FALSE` and a single desk; it rests on `DeskCurrent`.
- **ContextSlices.** `SlicesInv` adds `Frontier`: what is pending lies behind
  every continuation that ran, so no task takes a unit twice. That the
  source text of no task exceeds the window (`TasksFitWindow`) needs the sum of the units merged so far
  in the invariant (`WindowInv`); that the tasks run are those priced, in order
  (`PricedTasksRun`), needs the rank of each pending unit (`RankInv`).
- **RemoteGate.** `GateInv` adds that an open confirmation is of the list the
  user saw (`OpenConfirmation`), that the run's position is one of the listed
  steps (`InsideSteps`), and that what is sent is listed (`ListedAndSeen`).
  `TypeCorrect` and `OneRunPerConfirmation` need no premise. The theorems on
  calls, upload and spending assume `FilesStable` and that no text is blank, for
  the reasons above. Spending is bounded over all the tasks of a text: what is
  sent is part of a list whose cost the preflight compared with the limit.
- **FolderInbox.** `InboxInv` (in the proof module) adds that without an overlap
  one window is at work (`Alone`), that its target is free or nothing is left to
  move (`TargetsFree`), that its hashes cover what was returned and what it holds
  is new (`HashesCover`), and that every hash and every file on its way to the
  archive stands for a text returned or in hand (`HashesEarned`,
  `ArchivalEarned`). `Move` alone cannot tell that it overwrites nothing.
  `FileOnce` has an invariant of its own (`FileInv`), which allows overlaps: a
  file whose turn is over in one window is gone, and no other window settles it.
- **Desk.** `KeysInv` says what a handler between reading the credentials and
  saving its row carries: unless faults met the file, the set it will write
  contains every key on file, and a row about to be saved with a key finds it
  there (`KeysFollowed`). `HistoryInv` says that every list a handler is about to
  write shows only stored runs and ratings (`HistoryFromDatabase`): it needs no
  premise, since each step writes what it read plus something committed before.
  - `RatingsPullScores`: a run's score is what its ratings and its task make it
    (`RunsScored`), and the adjustment grows with each average and boost and
    falls with each penalty. With low ratings only, every term lies at or below
    the neutral middle; the score without ratings is the middle itself.
  - `RecentsAreLatest`: opening a file moves it to the front of a list without
    repetitions (`RecentsKept`), and cutting the list to its limit commutes with
    that, so what was cut off earlier is never missed.
  - `HistoryIsInStep`: `HistoryKept` splits into what no overlap can have changed:
    the runs wanted there in their order (`RunsKept`), the settings (`SettingsKept`)
    and the list, complete but for the rating some window is still on its way to
    write (`ListKept`, `InStep`, `Pending`).
  - `LowRatingsHold`: no invariant but a comparison of two summaries, before and
    after the rating. Averages that are low stay low. From three low ratings on a
    run is reviewed. Below that the one part of the risk that can fall is the
    share of misjudged ratings, and it loses less than the share of low ratings
    gains; the ticked issues raise every ratio by name.
  - `DecisionsCovered`: `AgentRun` leaves the decision of a run open, except that
    one below .75 asks for a review and one without a text scores nothing. Both
    hold of every decision `Consensus` makes, for any ratings and tasks, and its
    score lies between 0 and 1.0: what is proved of a run holds whatever the
    scoring decides.
- **ChatSession.** One invariant per theorem, each on top of `TypeOK`: what a
  session's page shows, its pending correction and its source belong to one job
  (`EntriesFiled`); the context names the payload whose final text is kept
  (`FinalBelongs`); a write on its way holds everything accepted before
  (`LexiconKept`); what an import has left to do is all that is missing
  (`ImportsDone`). `OfferedWasHeard` rests on what a page holds between two
  scripts: a payload has no text, is one whose audit heard an engine, or is a failure
  with its error beside it (`Accounted`); the buttons clear that error for the time
  of a job, and a job that does not replace the payload was stopped or raised and
  is in `mishaps`.

Only model-checked: `Terminates`, a liveness property under fairness. The four
runs that expect a violation refute what a document says, and TLC's behaviour is
all there is to show.

## 5. Not modelled

- **Providers and evaluators.** HTTP and subprocess adapters are seen as calls
  that answer or raise; their request formats, timeouts and parsing are not
  modelled, nor is `agent_provider_smoke.py`.
- **Hook buffer and OCR.** A buffer is memory of one window and a capture of it one
  step; `translate_plugin_input`, which empties the buffer before it translates,
  is called by no window. OCR is a subprocess.
- **Interface.** Pages, bridges, translations and help texts pass calls on; what
  their handlers change is in `Desk` and `RemoteGate`. View contracts and
  capability services project stored data. The TypeScript mock-up in `UI design/`
  has no logic of its own.
- **First generation.** The research engine (no caller selects it), the display of
  stages, revision errors and diff ratios, and `evaluation.py`;
  `run_agent_batch_translation` is a loop over runs.
- **Serialisation and tooling.** Exports and acceptance reports, schema creation,
  packaging, diagnostics, release and runtime discovery: files and formats
  without a protocol.

What would come next: a refinement of `AgentRun` by `Desk` (one run is one step
there), and the hook buffer if a window starts to use it.
