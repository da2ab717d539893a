-------------------------------- MODULE Desk --------------------------------
(***************************************************************************)
(* DesktopApplicationService and DesktopAgentController with the stores    *)
(* they share between windows: the SQLite database (runs, ratings, the     *)
(* project profile, provider rows), where a statement commits by itself,   *)
(* and three JSON files (translation_history.json, credentials.json,       *)
(* user_settings.json) that are read, changed and rewritten whole.  A      *)
(* handler of a window runs to its end before the window's next one, but   *)
(* windows are processes of their own: their steps interleave, a process   *)
(* may end between any two of them, and a file is empty between the open   *)
(* that truncates it and the write that fills it.                          *)
(*                                                                         *)
(* Qt windows keep a history and take ratings; the Tk window of            *)
(* desktop_agent_app.py translates without a history and saves projects.   *)
(* A translation is one call of the agent run (module AgentRun): here it   *)
(* reads the ratings, scores its candidates and stores its row, or raises. *)
(***************************************************************************)
EXTENDS Consensus, RiskPolicy

CONSTANTS
    Windows,        \* the windows on the data directory
    Tk,             \* those of the Tk application
    Forms,          \* what a page may say when a text is translated or a
                    \* project saved: the config fields [in] and the [task]
    Job,            \* what the agent run may score, by the name of the task
    Specials,       \* the special entries of the lexicon, and the confirmed
    Corrections,    \* user corrections among its events: [row, topic, source]
    DefaultConfig,  \* DesktopAgentConfig()
    Rates,          \* the stars users give
    Issues(_),      \* the kinds of issue they tick along with them
    Paths,          \* the files users open
    Providers,      \* provider ids
    ProviderForms,  \* what the providers page may say: [id, key, on]
    Blank,          \* an empty field
    Torn,           \* what a JSON file holds between truncation and write
    HistoryLimit,   \* TranslationHistoryStore.limit
    RecentLimit,    \* how many recent files a profile keeps
    MaxOps,         \* bound: the handlers called and the restarts
    MaxWorkOps      \* bound: how many of them may come before a handler
                    \* other than a rating is called

ASSUME DeskAssumption ==
    /\ Tk \subseteq Windows
    /\ Rates \subseteq Stars
    /\ \A stars \in Rates : Issues(stars) \subseteq Kinds
    /\ DefaultConfig = [f \in DOMAIN DefaultConfig |-> DefaultConfig[f]]
    /\ \A f \in DOMAIN DefaultConfig : DefaultConfig[f] # Blank
    /\ ProviderForms \subseteq [id : Providers, key : BOOLEAN, on : BOOLEAN]
    /\ HistoryLimit \in Nat \ {0}
    /\ RecentLimit \in Nat \ {0}
    /\ MaxOps \in Nat /\ MaxWorkOps \in Nat
    /\ Torn # TRUE /\ Torn # FALSE
    /\ \A s \in SUBSET Providers : Torn # s

\* A task can be scored and its risk counted: its texts can be compared, its
\* counts are numbers, and there is room for those the run makes.
Measured(task) ==
    LET items == {task.candidates[k] : k \in DOMAIN task.candidates}
        texts == {c.text : c \in items} \cup {task.glossary, task.memory}
    IN  /\ task.candidates \in Seq(items)
        /\ \A c \in items : c.conf \in Nat /\ c.hits \in Nat
        /\ \A t, u \in texts : Overlap(t, u) \in Nat
        /\ {task.glossaryHits, task.topicMatch, task.coverage,
            task.spent, task.limit, task.rounds, task.tags, task.tokens} \subseteq Nat
        /\ {"markers", "corrections"} \subseteq DOMAIN task

ASSUME JobAssumption ==
    /\ IsFiniteSet(Specials) /\ IsFiniteSet(Corrections)
    /\ \A form \in Forms : Measured(Job[form.task])

VARIABLES
    runs,       \* agent_runs: the config, the ratings read, the score
    ratings,    \* translation_ratings, in the order of their ids
    profile,    \* project_profile: at most one row [cfg, recent]
    rows,       \* provider_configs: id -> enabled, for the ids saved
    history,    \* translation_history.json, newest first
    keys,       \* credentials.json: the ids with a key
    settings,   \* user_settings.json: auto_save_history
    config,     \* controller.config of each window
    last,       \* _last_translation: its run, 0 for none
    loaded,     \* controller.providers
    job,        \* the handler a window is in, and what it has read
    ops,        \* handlers called and restarts, bounded by MaxOps
    wished,     \* history: auto_save_history as it was last saved
    expected,   \* history: the runs users may expect in the history
    opened,     \* history: the files opened, latest first
    keyed,      \* history: the providers whose row was saved with a key
    faults      \* history: the stores on which two handlers overlapped
                \* or a handler was cut short

database == <<runs, ratings, profile, rows>>
files == <<history, keys, settings>>
windows == <<config, last, loaded, job>>
ghosts == <<wished, expected, opened, keyed, faults>>
vars == <<database, files, windows, ops, ghosts>>

Take(s, n) == SubSeq(s, 1, Least(n, Len(s)))
NoProfile == <<>>
Recents == IF profile = NoProfile THEN <<>> ELSE profile[1].recent

-----------------------------------------------------------------------------
(* Handlers and their steps.                                               *)

Idle == [at |-> "idle"]
Goto(w, j) == job' = [job EXCEPT ![w] = j]
Leave(w) == Goto(w, Idle)

\* A user calls a handler of a window that is not in one.
Call(w) == job[w] = Idle /\ ops' = ops + 1
Works(w) == Call(w) /\ ops < MaxWorkOps

\* The store that is left behind its database when a handler ends here.
StoreOf(at) ==
    CASE at \in {"read", "truncate", "fill"} -> {"history"}
      [] at = "keyFill" -> {"keys"}
      [] at = "settingsFill" -> {"settings"}
      [] at = "recent" -> {"profile"}
      [] OTHER -> {}

\* Another window is between reading a store and writing it back.
Busy(w, steps) == \E v \in Windows \ {w} : job[v].at \in steps
Meets(w, store, steps) ==
    faults' = faults \cup IF Busy(w, steps) THEN {store} ELSE {}

FaultyUpdated(old, in) == in
\* _update_config of a Qt page: a blank field changes nothing.
Updated(old, in) ==
    [f \in DOMAIN old |-> IF in[f] = Blank THEN old[f] ELSE in[f]]

\* sync_config_from_ui of the Tk window: a blank field is the default.
Configured(w, in) == Updated(IF w \in Tk THEN DefaultConfig ELSE config[w], in)

-----------------------------------------------------------------------------
(* Translating.                                                            *)

\* translate_text up to the agent run's read of the ratings.
Translate(w, in, task) ==
    /\ Works(w)
    /\ config' = [config EXCEPT ![w] = Configured(w, in)]
    /\ Goto(w, [at |-> "run", task |-> task, seen |-> Len(ratings)])
    /\ UNCHANGED <<database, files, last, loaded, ghosts>>

\* The run raises: the page shows the error and previews the remote calls,
\* and the config of the call stays.
TranslateFails(w) ==
    /\ job[w].at = "run"
    /\ Leave(w)
    /\ UNCHANGED <<database, files, config, last, loaded, ops, ghosts>>

Ids(task) == {Job[task].candidates[k].id : k \in DOMAIN Job[task].candidates}

\* count_special_entries and count_user_corrections: the rows of the topic
\* whose source is in the text.
Matching(lexicon, cfg, task) ==
    {row \in lexicon : row.topic = cfg.topic
                     /\ \E i \in DOMAIN Job[task].source : Job[task].source[i] = row.source}
Markers(cfg, task) == Cardinality(Matching(Specials, cfg, task))
UserCorrections(cfg, task) == Cardinality(Matching(Corrections, cfg, task))

\* The job with what the run counts before it begins.
Counted(cfg, task) ==
    [Job[task] EXCEPT !.markers = Markers(cfg, task),
                      !.corrections = UserCorrections(cfg, task)]

\* The ratings the run has read, in the order of their ids, and what they
\* say of a task.
Seen(w) == SubSeq(ratings, 1, job[w].seen)
Signals(rs, cfg, task) == Summary(rs, cfg, Ids(task))

Scored(rs, cfg, task) ==
    Decide(Counted(cfg, task), Signals(rs, cfg, task)).score

Run(w) == [cfg |-> config[w], task |-> job[w].task, seen |-> job[w].seen,
           score |-> Scored(Seen(w), config[w], job[w].task)]

\* UserSettingsStore.load: a file it cannot read means the defaults.
AutoSaves == IF settings = Torn THEN TRUE ELSE settings

\* The run is stored and becomes the window's last translation; a Qt window
\* loads the settings and goes on to the history.
RecordRun(w) ==
    /\ job[w].at = "run"
    /\ runs' = Append(runs, Run(w))
    /\ last' = [last EXCEPT ![w] = Len(runs) + 1]
    /\ \/ /\ w \in Tk
          /\ Leave(w)
          /\ UNCHANGED <<expected, faults>>
       \/ /\ w \notin Tk /\ AutoSaves
          /\ Goto(w, [at |-> "read", op |-> "add", run |-> Len(runs) + 1,
                      stars |-> 0, wished |-> wished])
          /\ Meets(w, "settings", {"settingsFill"})
          /\ UNCHANGED expected
       \/ /\ w \notin Tk /\ ~AutoSaves
          /\ Leave(w)
          /\ Meets(w, "settings", {"settingsFill"})
          /\ expected' = IF wished THEN <<Len(runs) + 1>> \o expected ELSE expected
    /\ UNCHANGED <<ratings, profile, rows, files, config, loaded, ops,
                   wished, opened, keyed>>

-----------------------------------------------------------------------------
(* Rating: submit_translation_rating.  The rating is filed under the       *)
(* config the window has now.                                              *)

Rating(w, run, stars) ==
    [run |-> run, cfg |-> config[w], stars |-> stars, issues |-> Issues(stars),
     providers |-> Ids(runs[run].task), score |-> runs[run].score]

FaultyFiled(w, stars) == Rating(w, Len(runs), Least(stars, HighRating))
Filed(w, stars) == Rating(w, last[w], stars)

\* record_translation_rating
Stored(rating) == Append(ratings, rating)

SubmitRating(w, stars) ==
    /\ w \notin Tk
    /\ last[w] # 0
    /\ Call(w)
    /\ ratings' = Stored(Filed(w, stars))
    /\ Goto(w, [at |-> "read", op |-> "rate", run |-> last[w],
                stars |-> stars, wished |-> FALSE])
    /\ UNCHANGED <<runs, profile, rows, files, config, last, loaded, ghosts>>

-----------------------------------------------------------------------------
(* TranslationHistoryStore.                                                *)

\* list_recent: nothing for a file that cannot be read.
Listed == IF history = Torn THEN <<>> ELSE Take(history, HistoryLimit)

Record(run, stars) == [run |-> run, cfg |-> runs[run].cfg, stars |-> stars]

FaultyAdded(run) == Take(Append(Listed, Record(run, 0)), HistoryLimit)
Added(run) == Take(<<Record(run, 0)>> \o Listed, HistoryLimit)

\* The first record of the run gets the rating.
First(run) == {i \in DOMAIN Listed :
                  /\ Listed[i].run = run
                  /\ \A j \in 1..(i - 1) : Listed[j].run # run}
Rated(run, stars) ==
    [i \in DOMAIN Listed |->
        IF i \in First(run) THEN [Listed[i] EXCEPT !.stars = stars] ELSE Listed[i]]

HistoryRead(w) ==
    /\ job[w].at = "read"
    /\ Meets(w, "history", {"truncate", "fill"})
    /\ \/ /\ job[w].op = "add"
          /\ Goto(w, [at |-> "truncate", list |-> Added(job[w].run)])
          /\ expected' = IF job[w].wished
                         THEN <<job[w].run>> \o expected ELSE expected
       \/ /\ job[w].op = "rate" /\ First(job[w].run) # {}
          /\ Goto(w, [at |-> "truncate", list |-> Rated(job[w].run, job[w].stars)])
          /\ UNCHANGED expected
       \/ /\ job[w].op = "rate" /\ First(job[w].run) = {}
          /\ Leave(w)
          /\ UNCHANGED expected
    /\ UNCHANGED <<database, files, config, last, loaded, ops, wished, opened, keyed>>

HistoryTruncate(w) ==
    /\ job[w].at = "truncate"
    /\ Meets(w, "history", {"truncate", "fill"})
    /\ history' = Torn
    /\ Goto(w, [at |-> "fill", list |-> job[w].list])
    /\ UNCHANGED <<database, keys, settings, config, last, loaded, ops,
                   wished, expected, opened, keyed>>

\* Two writes into one open file may leave something that cannot be read.
HistoryFill(w) ==
    /\ job[w].at = "fill"
    /\ \/ history' = job[w].list
       \/ history # Torn /\ history' = Torn
    /\ Leave(w)
    /\ Meets(w, "history", {"truncate", "fill"})
    /\ UNCHANGED <<database, keys, settings, config, last, loaded, ops,
                   wished, expected, opened, keyed>>

ClearHistory(w) ==
    /\ w \notin Tk
    /\ Works(w)
    /\ history' = Torn
    /\ Meets(w, "history", {"truncate", "fill"})
    /\ Goto(w, [at |-> "fill", list |-> <<>>])
    /\ expected' = <<>>
    /\ UNCHANGED <<database, keys, settings, config, last, loaded,
                   wished, opened, keyed>>

-----------------------------------------------------------------------------
(* UserSettingsStore.save                                                  *)

SaveSettings(w, auto) ==
    /\ w \notin Tk
    /\ Works(w)
    /\ settings' = Torn
    /\ Meets(w, "settings", {"settingsFill"})
    /\ Goto(w, [at |-> "settingsFill", value |-> auto])
    /\ UNCHANGED <<database, history, keys, config, last, loaded,
                   wished, expected, opened, keyed>>

SettingsFill(w) ==
    /\ job[w].at = "settingsFill"
    /\ \/ settings' = job[w].value
       \/ settings # Torn /\ settings' = Torn
    /\ wished' = job[w].value
    /\ Meets(w, "settings", {"settingsFill"})
    /\ Leave(w)
    /\ UNCHANGED <<database, history, keys, config, last, loaded, ops,
                   expected, opened, keyed>>

-----------------------------------------------------------------------------
(* The project profile: a row that is read, changed and written back.      *)

\* The other paths of a list, in their order.
Others(path, list) == Kept(list, {i \in DOMAIN list : list[i] # path})

FaultyWithFirst(path, recent) == Take(<<path>> \o recent, RecentLimit)
\* record_recent_file: the path comes first, what else was there follows.
WithFirst(path, recent) ==
    Take(<<path>> \o Others(path, recent), RecentLimit)

OpenFile(w, path) ==
    /\ Works(w)
    /\ Goto(w, [at |-> "recent", list |-> WithFirst(path, Recents)])
    /\ Meets(w, "profile", {"recent"})
    /\ opened' = <<path>> \o Others(path, opened)
    /\ UNCHANGED <<database, files, config, last, loaded, wished, expected, keyed>>

\* Save Project of the Tk window keeps the recent files it finds.
SaveProject(w, in) ==
    /\ w \in Tk
    /\ Works(w)
    /\ config' = [config EXCEPT ![w] = Configured(w, in)]
    /\ Goto(w, [at |-> "recent", list |-> Recents])
    /\ Meets(w, "profile", {"recent"})
    /\ UNCHANGED <<database, files, last, loaded, wished, expected, opened, keyed>>

\* save_project_profile stores the config of the window along with them.
SaveProfile(w) ==
    /\ job[w].at = "recent"
    /\ profile' = <<[cfg |-> config[w], recent |-> job[w].list]>>
    /\ Meets(w, "profile", {"recent"})
    /\ Leave(w)
    /\ UNCHANGED <<runs, ratings, rows, files, config, last, loaded, ops,
                   wished, expected, opened, keyed>>

\* load_project_profile: the stored config replaces the window's.
Loaded(old) == IF profile = NoProfile THEN old ELSE profile[1].cfg

\* project_summary_lines loads the profile to show it.
HomePage(w) ==
    /\ w \notin Tk
    /\ Works(w)
    /\ config' = [config EXCEPT ![w] = Loaded(@)]
    /\ UNCHANGED <<database, files, last, loaded, job, ghosts>>

-----------------------------------------------------------------------------
(* Provider settings: a key in a file, then a row in the database.         *)

FaultyWithKey(id) == {id}
\* LocalCredentialStore.set_secret adds its key to those it has read; _load
\* raises on a file it cannot parse, and nothing is saved.
WithKey(id) == keys \cup {id}

SaveProvider(w, form) ==
    /\ Works(w)
    /\ \/ /\ ~form.key
          /\ Goto(w, [at |-> "row", id |-> form.id, key |-> FALSE, on |-> form.on])
          /\ UNCHANGED faults
       \/ /\ form.key /\ keys # Torn
          /\ Goto(w, [at |-> "keyTruncate", id |-> form.id, on |-> form.on,
                      set |-> WithKey(form.id)])
          /\ Meets(w, "keys", {"keyTruncate", "keyFill"})
       \/ /\ form.key /\ keys = Torn
          /\ Meets(w, "keys", {"keyTruncate", "keyFill"})
          /\ UNCHANGED job
    /\ UNCHANGED <<database, files, config, last, loaded,
                   wished, expected, opened, keyed>>

KeyTruncate(w) ==
    /\ job[w].at = "keyTruncate"
    /\ keys' = Torn
    /\ Meets(w, "keys", {"keyTruncate", "keyFill"})
    /\ Goto(w, [at |-> "keyFill", id |-> job[w].id, on |-> job[w].on,
                set |-> job[w].set])
    /\ UNCHANGED <<database, history, settings, config, last, loaded, ops,
                   wished, expected, opened, keyed>>

KeyFill(w) ==
    /\ job[w].at = "keyFill"
    /\ \/ keys' = job[w].set
       \/ keys # Torn /\ keys' = Torn
    /\ Meets(w, "keys", {"keyTruncate", "keyFill"})
    /\ Goto(w, [at |-> "row", id |-> job[w].id, key |-> TRUE, on |-> job[w].on])
    /\ UNCHANGED <<database, history, settings, config, last, loaded, ops,
                   wished, expected, opened, keyed>>

\* upsert_provider_config
SaveRow(w) ==
    /\ job[w].at = "row"
    /\ rows' = [id \in DOMAIN rows \cup {job[w].id} |->
                   IF id = job[w].id THEN job[w].on ELSE rows[id]]
    /\ keyed' = IF job[w].key THEN keyed \cup {job[w].id} ELSE keyed
    /\ Leave(w)
    /\ UNCHANGED <<runs, ratings, profile, files, config, last, loaded, ops,
                   wished, expected, opened, faults>>

\* load_enabled_provider_configs lists the rows, then fetches every key; one
\* that is missing, or a file it cannot parse, leaves the providers alone.
Enabled == {id \in DOMAIN rows : rows[id]}

LoadProviders(w) ==
    /\ Works(w)
    /\ Goto(w, [at |-> "load", ids |-> Enabled])
    /\ UNCHANGED <<database, files, config, last, loaded, ghosts>>

KeysHeld(ids) == ids = {} \/ (keys # Torn /\ ids \subseteq keys)

LoadKeys(w) ==
    /\ job[w].at = "load"
    /\ loaded' = [loaded EXCEPT ![w] = IF KeysHeld(job[w].ids) THEN job[w].ids ELSE @]
    /\ Leave(w)
    /\ UNCHANGED <<database, files, config, last, ops, ghosts>>

-----------------------------------------------------------------------------
(* What may go wrong.                                                      *)

\* A write raises: the page shows the error, and what the handler did before
\* stays done.  (Where nothing was done before, it is as if the handler had
\* not been called.)
Fails(w) ==
    /\ job[w].at \in {"truncate", "fill", "settingsFill", "recent", "keyFill", "row"}
    /\ faults' = faults \cup StoreOf(job[w].at)
    /\ Leave(w)
    /\ UNCHANGED <<database, files, config, last, loaded, ops,
                   wished, expected, opened, keyed>>

\* The process ends and is started again: the window has the stored config,
\* and no last translation.
Restart(w) ==
    /\ ops < MaxOps
    /\ ops' = ops + 1
    /\ faults' = faults \cup StoreOf(job[w].at)
    /\ config' = [config EXCEPT ![w] = Loaded(DefaultConfig)]
    /\ last' = [last EXCEPT ![w] = 0]
    /\ loaded' = [loaded EXCEPT ![w] = {}]
    /\ Leave(w)
    /\ UNCHANGED <<database, files, wished, expected, opened, keyed>>

-----------------------------------------------------------------------------

Init ==
    /\ runs = <<>> /\ ratings = <<>> /\ profile = NoProfile /\ rows = <<>>
    /\ history = <<>> /\ keys = {} /\ settings = TRUE
    /\ config = [w \in Windows |-> DefaultConfig]
    /\ last = [w \in Windows |-> 0]
    /\ loaded = [w \in Windows |-> {}]
    /\ job = [w \in Windows |-> Idle]
    /\ ops = 0
    /\ wished = TRUE /\ expected = <<>> /\ opened = <<>>
    /\ keyed = {} /\ faults = {}

Handlers(w) ==
    /\ ops < MaxOps
    /\ \/ \E form \in Forms : Translate(w, form.in, form.task)
       \/ \E stars \in Rates : SubmitRating(w, stars)
       \/ ClearHistory(w)
       \/ \E auto \in BOOLEAN : SaveSettings(w, auto)
       \/ \E path \in Paths : OpenFile(w, path)
       \/ \E form \in Forms : SaveProject(w, form.in)
       \/ HomePage(w)
       \/ \E form \in ProviderForms : SaveProvider(w, form)
       \/ LoadProviders(w)

Steps(w) ==
    \/ TranslateFails(w) \/ RecordRun(w)
    \/ HistoryRead(w) \/ HistoryTruncate(w) \/ HistoryFill(w)
    \/ SettingsFill(w)
    \/ SaveProfile(w)
    \/ KeyTruncate(w) \/ KeyFill(w) \/ SaveRow(w)
    \/ LoadKeys(w)

\* No window is in a handler: the users may leave it at that.
Rest == (\A w \in Windows : job[w] = Idle) /\ UNCHANGED vars

Next ==
    \/ \E w \in Windows : Handlers(w) \/ Steps(w) \/ Fails(w) \/ Restart(w)
    \/ Rest

Spec == Init /\ [][Next]_vars

-----------------------------------------------------------------------------
(* Properties.                                                             *)

Tasks == {form.task : form \in Forms}
Inputs == {form.in : form \in Forms} \cup {DefaultConfig}
Values == {in[f] : in \in Inputs, f \in DOMAIN DefaultConfig} \ {Blank}
Config == [DOMAIN DefaultConfig -> Values]
Entry == [run : Nat \ {0}, cfg : Config, stars : 0..5]

\* A file that is empty is not a list of records.
ASSUME TornAssumption == Torn \notin Seq(Entry)

JobOK(j) ==
    /\ j.at \in {"idle", "run", "read", "truncate", "fill", "settingsFill",
                 "recent", "keyTruncate", "keyFill", "row", "load"}
    /\ j.at = "run" => j.task \in Tasks /\ j.seen \in 0..Len(ratings)
    /\ j.at = "read" => /\ j.op \in {"add", "rate"}
                        /\ j.run \in DOMAIN runs
                        /\ j.stars \in 0..5
    /\ j.at \in {"truncate", "fill"} => j.list \in Seq(Entry)
    /\ j.at = "settingsFill" => j.value \in BOOLEAN
    /\ j.at = "recent" => j.list \in Seq(Paths)
    /\ j.at \in {"keyTruncate", "keyFill", "row"} =>
          j.id \in Providers /\ j.on \in BOOLEAN
    /\ j.at \in {"keyTruncate", "keyFill"} => j.set \subseteq Providers
    /\ j.at = "row" => j.key \in BOOLEAN
    /\ j.at = "load" => j.ids \subseteq Providers

\* The variables keep their types: files hold what a handler wrote or
\* nothing, and a handler in progress holds what its step needs.
TypeOK ==
    /\ runs \in Seq([cfg : Config, task : Tasks, seen : Nat, score : Int])
    /\ ratings \in Seq([run : Nat, cfg : Config, stars : Stars, issues : SUBSET Kinds,
                        providers : SUBSET UNION {Ids(t) : t \in Tasks}, score : Int])
    /\ profile \in Seq([cfg : Config, recent : Seq(Paths)]) /\ Len(profile) <= 1
    /\ DOMAIN rows \subseteq Providers /\ \A id \in DOMAIN rows : rows[id] \in BOOLEAN
    /\ history = Torn \/ history \in Seq(Entry)
    /\ keys = Torn \/ keys \subseteq Providers
    /\ settings \in BOOLEAN \cup {Torn}
    /\ config \in [Windows -> Config]
    /\ last \in [Windows -> 0..Len(runs)]
    /\ loaded \in [Windows -> SUBSET Providers]
    /\ DOMAIN job = Windows /\ \A w \in Windows : JobOK(job[w])
    /\ ops \in 0..MaxOps
    /\ wished \in BOOLEAN
    /\ expected \in Seq(DOMAIN runs)
    /\ opened \in Seq(Paths)
    /\ keyed \subseteq Providers
    /\ faults \subseteq {"history", "keys", "settings", "profile"}

\* A record is backed by the database: its run is stored there, and so is
\* the rating it shows.
Backed(e) ==
    /\ e.run \in DOMAIN runs
    /\ e.stars = 0 \/ \E i \in DOMAIN ratings :
          ratings[i].run = e.run /\ ratings[i].stars = e.stars

\* The database is written before the history: whatever windows overlap,
\* whatever write fails and wherever a process ends, the history never shows
\* a run or a rating the database does not have.
HistoryBacked ==
    history # Torn => \A i \in DOMAIN history : Backed(history[i])

LastRating(run) ==
    LET given == {i \in DOMAIN ratings : ratings[i].run = run}
    IN  IF given = {} THEN 0 ELSE ratings[Max(given)].stars

\* While no handler overlaps another on the history or the settings and none
\* is cut short, the history holds the newest runs made since it was last
\* cleared and while the user wanted one, each with the last rating its user
\* gave.
HistoryInStep ==
    /\ faults \cap {"history", "settings"} = {}
    /\ \A w \in Windows : job[w].at \notin {"read", "truncate", "fill"}
    => history = [i \in 1..Least(HistoryLimit, Len(expected)) |->
                     Record(expected[i], LastRating(expected[i]))]

\* A provider saved with a key has it: its row follows the key, and no later
\* key drops it, unless two handlers were at the file together or one was
\* cut short while the file was empty.
KeysBeforeRows ==
    ("keys" \notin faults /\ \A w \in Windows : job[w].at # "keyFill")
        => keys # Torn /\ keyed \subseteq keys

\* While no two windows write the profile together and no such write fails,
\* its recent files are the last files opened, each once, whatever else
\* saved the project.
RecentsInStep ==
    ("profile" \notin faults /\ \A w \in Windows : job[w].at # "recent")
        => Recents = Take(opened, RecentLimit)

\* Ratings pull the score their way: a run that follows low ratings only, of
\* whatever topics, modes and providers, scores no more than it would
\* without any, and one that follows high ratings only no less.
RatingsPullTheirWay ==
    \A i \in DOMAIN runs :
        LET r == runs[i]
            stars == {ratings[j].stars : j \in 1..r.seen}
            unrated == Scored(<<>>, r.cfg, r.task)
        IN  stars # {} =>
              /\ (\A n \in stars : n <= LowRating) => r.score <= unrated
              /\ (\A n \in stars : n >= HighRating) => r.score >= unrated

\* The mode a self_decision run of a task would choose.
Chosen(rs, cfg, task) == SelectedMode(Context(Counted(cfg, task), Signals(rs, cfg, task)))

\* Low ratings never free a run: where ratings of just this topic, language
\* pair, mode and provider exist, one more low one, with its issues ticked,
\* never lets a self_decision run iterate by itself that had to wait for its
\* user before.
LowRatingsHoldBack ==
    \A w \in {v \in Windows : last[v] # 0 /\ config[v].mode = "self_decision"},
       stars \in {n \in Rates : n <= LowRating /\ Issues(n) = Kinds} :
        LET task == runs[last[w]].task
        IN  /\ Exact(ratings, config[w], Ids(task)) # {}
            /\ Chosen(Stored(Filed(w, stars)), config[w], task) = "self_iterative"
            => Chosen(ratings, config[w], task) = "self_iterative"

=============================================================================
