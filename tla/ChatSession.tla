----------------------------- MODULE ChatSession -----------------------------
(***************************************************************************)
(* The Streamlit page app.py over workflows.py and lexicon.py: sessions of *)
(* one server process run local and pretrain jobs (module LocalJob), the   *)
(* user confirms or corrects the provisional text, and corrections go to   *)
(* lexicon.json, which a LexiconRepo reads whole, changes and writes back. *)
(* agent_lexicon_migration.py imports that file into the desktop agent's   *)
(* database, entry by entry, from processes of its own.                    *)
(*                                                                         *)
(* The script runs from top to bottom at every click.  Sessions are        *)
(* threads: their steps interleave between the file operations of a job.   *)
(* Streamlit stops a script whose user clicks on, at its next access to    *)
(* the page or to the session state: of the assignments an action makes to *)
(* the session state, the first n are made, in the order of the code.      *)
(***************************************************************************)
EXTENDS LocalJob

CONSTANTS
    Sessions,       \* the browser sessions of the page
    Importers,      \* the processes that run the migration
    Forms,          \* what the sidebar may say when a button is pressed:
                    \* [text, file, selected, manual]
    NoFile,         \* nothing is uploaded
    Revisions,      \* what users type in as a correction
    Languages,      \* the language pairs users select
    FailureText,    \* the provisional text of a job that failed
    Blank,          \* an empty topic
    Torn,           \* what lexicon.json holds between truncation and write
    MaxOps,         \* bound: jobs, corrections, imports and deaths
    MaxJobOps,      \* bound: the one of these until which jobs are run
    MaxStopOps      \* bound: the one after which no script is stopped half
                    \* way, and where a job was stopped, one more may begin

ASSUME ChatAssumption ==
    /\ \A form \in Forms : form.selected # Blank
    /\ FailureText # NoText
    /\ MaxOps \in Nat /\ MaxJobOps \in Nat /\ MaxStopOps \in Nat

VARIABLES
    source,     \* last_source_text of each session, NoText at first
    topic,      \* last_topic, Blank at first
    payload,    \* latest_payload: mode, provisional text, the status of
                \* the audit, and (a history) the key of the job
    final,      \* final_output_text
    context,    \* final_output_context
    awaiting,   \* awaiting_revision
    failed,     \* whether there is a local_run_error
    job,        \* the job a session is in, and what it has read
    lexicon,    \* lexicon.json: <<topic, source>> -> target
    table,      \* lexicon_terms of the database: the same
    importer,   \* the import a process is in
    ops,        \* what was started, bounded by MaxOps
    asked,      \* history: the <<key, target>> that users, correcting a text
                \* shown for a key, and pretrain jobs wanted filed
    accepted,   \* history: the last target filed under each key
    mishaps     \* history: "overlap" of two writers of lexicon.json, "cut"
                \* writes, "interrupted" jobs, and pretrain jobs that
                \* "raised"

page == <<source, topic, payload, final, context, awaiting, failed>>
stores == <<lexicon, table>>
ghosts == <<asked, accepted, mishaps>>
vars == <<page, job, stores, importer, ops, ghosts>>

Set(var, s, value) == [var EXCEPT ![s] = value]

Idle == [at |-> "idle"]
Goto(s, j) == job' = Set(job, s, j)
Leave(s) == Goto(s, Idle)

\* The k-th assignment of a script of which n are made.
Made(k, n, var, s, value) == IF k <= n THEN Set(var, s, value) ELSE var

\* Bound: no script is stopped after MaxStopOps.
StopBound(whole) == whole \/ ops <= MaxStopOps

\* A script that runs a job goes on, or is stopped by the user's next click.
Onward(s, whole, j) ==
    /\ StopBound(whole)
    /\ Goto(s, IF whole THEN j ELSE Idle)
    /\ mishaps' = mishaps \cup IF whole THEN {} ELSE {"interrupted"}

\* The user clicks while the session's script has run to its end.
Click(s) == job[s] = Idle
Begin ==
    /\ ops < MaxOps /\ ("interrupted" \in mishaps => ops <= MaxStopOps)
    /\ ops' = ops + 1

\* Another session is between reading lexicon.json and having written it.
Overlaps(s) ==
    IF \E t \in Sessions \ {s} : job[t].at \in {"truncate", "fill"}
    THEN {"overlap"} ELSE {}

Entry(key, target, entries) ==
    [k \in DOMAIN entries \cup {key} |-> IF k = key THEN target ELSE entries[k]]

-----------------------------------------------------------------------------
(* The sidebar.                                                            *)

AllowedMimes == [txt |-> {"text/plain"},
                 md |-> {"text/markdown", "text/x-markdown", "text/plain"},
                 docx |-> {"docx"}]

\* extract_uploaded_text: the file is of a supported kind, says so (or says
\* nothing) and can be decoded or parsed.
Extracted(file) ==
    /\ file # NoFile
    /\ file.ext \in DOMAIN AllowedMimes
    /\ file.mime \in AllowedMimes[file.ext] \cup {""}
    /\ file.readable

\* resolve_input_text
InputText(form) ==
    IF Extracted(form.file) /\ form.file.text # NoText THEN form.file.text ELSE form.text

\* resolve_topic_value
TopicValue(form) == IF form.manual # Blank THEN form.manual ELSE form.selected

NoContext == <<>>

\* clear_chat_revision_state, which both buttons call first.
FaultyCleared(s, n) ==
    /\ awaiting' = Made(1, n, awaiting, s, FALSE)
    /\ failed' = Made(2, n, failed, s, FALSE)
    /\ UNCHANGED <<final, context>>
Cleared(s, n) ==
    /\ final' = Made(1, n, final, s, NoText)
    /\ awaiting' = Made(2, n, awaiting, s, FALSE)
    /\ context' = Made(3, n, context, s, NoContext)
    /\ failed' = Made(4, n, failed, s, FALSE)

\* The local job: the source and the topic are noted, then the engines run.
RunLocal(s, form, n) ==
    /\ Click(s) /\ Begin /\ ops < MaxJobOps
    /\ source' = Made(1, n, source, s, InputText(form))
    /\ topic' = Made(2, n, topic, s, TopicValue(form))
    /\ Cleared(s, n - 2)
    /\ Onward(s, n = 6, [at |-> "local", key |-> <<TopicValue(form), InputText(form)>>])
    /\ UNCHANGED <<payload, stores, importer, asked, accepted>>

\* What the page tells apart in what a local job returns.
Payload(key, text, audit) ==
    [mode |-> "local", text |-> text, audit |-> audit, key |-> key]

FaultyRunSafe(key, a, b) ==
    LET result == LocalResult(key[2], a, b)
    IN  [payload |-> IF BothFailed(a, b) THEN Payload(key, FailureText, "none")
                     ELSE Payload(key, result.text, result.audit.status),
         failed |-> FALSE]
\* run_local_job_safe: the job raises if neither engine answered, and then
\* there is a failure payload and an error.
RunSafe(key, a, b) ==
    LET result == LocalResult(key[2], a, b)
    IN  IF BothFailed(a, b)
        THEN [payload |-> Payload(key, FailureText, "none"), failed |-> TRUE]
        ELSE [payload |-> Payload(key, result.text, result.audit.status), failed |-> FALSE]

FinishLocal(s, a, b, n) ==
    /\ job[s].at = "local"
    /\ Onward(s, n = 2, Idle)
    /\ LET run == RunSafe(job[s].key, a, b)
       IN  /\ payload' = Made(1, n, payload, s, run.payload)
           /\ failed' = Made(2, n, failed, s, run.failed)
    /\ UNCHANGED <<source, topic, final, context, awaiting, stores, importer, ops,
                   asked, accepted>>

\* The pretrain job notes neither source nor topic.
RunPretrain(s, form, n) ==
    /\ Click(s) /\ Begin /\ ops < MaxJobOps
    /\ Cleared(s, n)
    /\ Onward(s, n = 4, [at |-> "pretrain", key |-> <<TopicValue(form), InputText(form)>>])
    /\ UNCHANGED <<source, topic, payload, stores, importer, asked, accepted>>

-----------------------------------------------------------------------------
(* The lexicon: LexiconRepo().apply_revision.                              *)

FaultyRevised(key, target) == Entry(key, target, <<>>)
\* What is written back: what was read, with the entry.
Revised(key, target) == Entry(key, target, lexicon)

\* The file is read and the entry added.
Load(s, key, target, by) ==
    /\ lexicon # Torn
    /\ Goto(s, [at |-> "truncate", key |-> key, target |-> target, by |-> by,
                store |-> Revised(key, target)])
    /\ mishaps' = mishaps \cup Overlaps(s)

\* run_pretrain_job files its final text without asking; a failure of both
\* engines or a file it cannot parse is not caught, and the page keeps its
\* payload.
FilePretrained(s, a, b) ==
    /\ job[s].at = "pretrain"
    /\ LET key == job[s].key
           text == FinalText(a, b)
       IN  \/ /\ ~BothFailed(a, b)
              /\ Load(s, key, text, "pretrain")
              /\ asked' = asked \cup {<<key, text>>}
           \/ /\ BothFailed(a, b) \/ lexicon = Torn
              /\ Leave(s)
              /\ mishaps' = mishaps \cup {"raised"}
              /\ UNCHANGED asked
    /\ UNCHANGED <<page, stores, importer, ops, accepted>>

Truncate(s) ==
    /\ job[s].at = "truncate"
    /\ lexicon' = Torn
    /\ Goto(s, [at |-> "fill", key |-> job[s].key, target |-> job[s].target,
                by |-> job[s].by, store |-> job[s].store])
    /\ mishaps' = mishaps \cup Overlaps(s)
    /\ UNCHANGED <<page, table, importer, ops, asked, accepted>>

\* Two writes at the same time may leave a mixture behind.
Fill(s) ==
    /\ job[s].at = "fill"
    /\ \/ lexicon' = job[s].store
       \/ lexicon # Torn /\ lexicon' = Torn
    /\ accepted' = Entry(job[s].key, job[s].target, accepted)
    /\ Goto(s, [at |-> "filed", target |-> job[s].target, by |-> job[s].by])
    /\ mishaps' = mishaps \cup Overlaps(s)
    /\ UNCHANGED <<page, table, importer, ops, asked>>

\* A write that raises: a correction shows its error and is awaited again, a
\* pretrain job ends the script.
WriteFails(s) ==
    /\ job[s].at \in {"truncate", "fill"}
    /\ Leave(s)
    /\ mishaps' = mishaps \cup (IF job[s].at = "fill" THEN {"cut"} ELSE {})
                         \cup (IF job[s].by = "pretrain" THEN {"raised"} ELSE {})
    /\ UNCHANGED <<page, stores, importer, ops, asked, accepted>>

-----------------------------------------------------------------------------
(* The result and its correction.                                          *)

\* A payload without a provisional text: none yet, or a pretrain job's.
Bare(mode) == [mode |-> mode, text |-> NoText, audit |-> "none",
               key |-> <<Blank, NoText>>]

\* build_payload_context
ContextOf(p) == IF p.text = NoText THEN NoContext ELSE <<p.mode, p.text>>

\* decide_final_output_display
ShowsFinal(s) ==
    /\ final[s] # NoText
    /\ ContextOf(payload[s]) # NoContext
    /\ context[s] = ContextOf(payload[s])

\* The page shows a provisional text with its two buttons, not so for the
\* failure text of a local job.
Offers(s) ==
    /\ ~ShowsFinal(s)
    /\ payload[s].text # NoText
    /\ ~(failed[s] /\ payload[s].text = FailureText)

Shown(s, text, n) ==
    /\ StopBound(n = 3)
    /\ final' = Made(1, n, final, s, text)
    /\ context' = Made(2, n, context, s, ContextOf(payload[s]))
    /\ awaiting' = Made(3, n, awaiting, s, FALSE)

Confirm(s, n) ==
    /\ Click(s) /\ Offers(s)
    /\ Shown(s, payload[s].text, n)
    /\ UNCHANGED <<source, topic, payload, failed, job, stores, importer, ops, ghosts>>

ClickRevise(s) ==
    /\ Click(s) /\ Offers(s)
    /\ awaiting' = Set(awaiting, s, TRUE)
    /\ UNCHANGED <<source, topic, payload, final, context, failed, job, stores,
                   importer, ops, ghosts>>

FaultyKey(s, now) == <<now, source[s]>>
\* What a correction is filed under: the last local job's source and topic,
\* or else the topic the sidebar says now.
Key(s, now) == <<IF topic[s] = Blank THEN now ELSE topic[s], source[s]>>

\* decide_final_output_action: a blank correction is not written back.
Writes(s, text) == payload[s].text # NoText /\ text # NoText

\* A correction is typed in; a file that cannot be parsed is reported.
SubmitRevision(s, text, now) ==
    /\ Click(s) /\ Begin
    /\ Offers(s) /\ awaiting[s] /\ Writes(s, text)
    /\ \/ Load(s, Key(s, now), text, "revise")
       \/ lexicon = Torn /\ UNCHANGED <<job, mishaps>>
    /\ asked' = asked \cup {<<payload[s].key, text>>}
    /\ UNCHANGED <<page, stores, importer, accepted>>

\* The entry is filed: a correction becomes the final text, a pretrain job
\* the payload.
FinishRevision(s, n) ==
    /\ job[s].at = "filed" /\ job[s].by = "revise"
    /\ Shown(s, job[s].target, n)
    /\ Leave(s)
    /\ UNCHANGED <<source, topic, payload, failed, stores, importer, ops, ghosts>>

FinishPretrain(s, n) ==
    /\ job[s].at = "filed" /\ job[s].by = "pretrain"
    /\ payload' = Made(1, n, payload, s, Bare("pretrain"))
    /\ Onward(s, n = 1, Idle)
    /\ UNCHANGED <<source, topic, final, context, awaiting, failed, stores,
                   importer, ops, asked, accepted>>

-----------------------------------------------------------------------------
(* The migration: import_json_lexicon.                                     *)

\* The file is read; one it cannot parse, or that no entry has yet brought
\* into being, ends the process.
StartImport(i) ==
    /\ importer[i].at # "import" /\ Begin
    /\ lexicon # Torn /\ DOMAIN lexicon # {}
    /\ importer' = Set(importer, i, [at |-> "import", read |-> lexicon,
                                     rest |-> DOMAIN lexicon, alone |-> TRUE])
    /\ UNCHANGED <<page, job, stores, ghosts>>

\* upsert_lexicon_entry, a transaction of its own.
Upserted(key, target) == Entry(key, target, table)

ImportEntry(i, key) ==
    /\ importer[i].at = "import" /\ key \in importer[i].rest
    /\ table' = Upserted(key, importer[i].read[key])
    /\ importer' =
          [k \in Importers |->
              [at |-> importer[k].at, read |-> importer[k].read,
               rest |-> IF k = i THEN importer[k].rest \ {key} ELSE importer[k].rest,
               alone |-> IF k = i THEN importer[k].alone ELSE FALSE]]
    /\ UNCHANGED <<page, job, lexicon, ops, ghosts>>

NoImport == [at |-> "none", read |-> <<>>, rest |-> {}, alone |-> FALSE]

EndImport(i) ==
    /\ importer[i].at = "import" /\ importer[i].rest = {}
    /\ importer' = Set(importer, i, [at |-> "done", read |-> importer[i].read,
                                     rest |-> {}, alone |-> importer[i].alone])
    /\ UNCHANGED <<page, job, stores, ops, ghosts>>

FaultyImportDies(i) ==
    /\ importer[i].at = "import"
    /\ importer' = Set(importer, i, [at |-> "done", read |-> importer[i].read,
                                     rest |-> {}, alone |-> importer[i].alone])
    /\ UNCHANGED <<page, job, stores, ops, ghosts>>
\* An upsert raises, or the process ends: what was imported stays.
ImportDies(i) ==
    /\ importer[i].at = "import"
    /\ importer' = Set(importer, i, NoImport)
    /\ UNCHANGED <<page, job, stores, ops, ghosts>>

-----------------------------------------------------------------------------

Fresh(value) == [s \in Sessions |-> value]

\* A new server process: every session starts over.
NewPages ==
    /\ source' = Fresh(NoText) /\ topic' = Fresh(Blank)
    /\ payload' = Fresh(Bare("none")) /\ final' = Fresh(NoText)
    /\ context' = Fresh(NoContext) /\ awaiting' = Fresh(FALSE)
    /\ failed' = Fresh(FALSE) /\ job' = Fresh(Idle)

ServerDies ==
    /\ Begin
    /\ NewPages
    /\ mishaps' = mishaps \cup IF \E s \in Sessions : job[s].at = "fill"
                               THEN {"cut"} ELSE {}
    /\ UNCHANGED <<stores, importer, asked, accepted>>

Init ==
    /\ source = Fresh(NoText) /\ topic = Fresh(Blank)
    /\ payload = Fresh(Bare("none")) /\ final = Fresh(NoText)
    /\ context = Fresh(NoContext) /\ awaiting = Fresh(FALSE)
    /\ failed = Fresh(FALSE) /\ job = Fresh(Idle)
    /\ lexicon = <<>> /\ table = <<>>
    /\ importer = [i \in Importers |-> NoImport]
    /\ ops = 0
    /\ asked = {} /\ accepted = <<>> /\ mishaps = {}

\* What both engines may answer to a text, in the languages of the click.
Answers(text) ==
    UNION {AnswersA(pair[1], pair[2], text) \X AnswersB(pair[1], pair[2], text) :
              pair \in Languages}

Clicks(s) ==
    \/ \E form \in Forms : \/ \E n \in 1..6 : RunLocal(s, form, n)
                          \/ \E n \in 1..4 : RunPretrain(s, form, n)
    \/ \E n \in 1..3 : Confirm(s, n)
    \/ ClickRevise(s)
    \/ \E text \in Revisions, form \in Forms : SubmitRevision(s, text, TopicValue(form))

Steps(s) ==
    \/ /\ job[s].at \in {"local", "pretrain"}
       /\ \E said \in Answers(job[s].key[2]) :
             \/ \E n \in 0..2 : FinishLocal(s, said[1], said[2], n)
             \/ FilePretrained(s, said[1], said[2])
    \/ Truncate(s) \/ Fill(s) \/ WriteFails(s)
    \/ \E n \in 0..3 : FinishRevision(s, n)
    \/ \E n \in 0..1 : FinishPretrain(s, n)

Imports(i) ==
    \/ StartImport(i) \/ (\E key \in importer[i].rest : ImportEntry(i, key))
    \/ EndImport(i) \/ ImportDies(i)

\* No job and no import is under way: the users may leave it at that.
Rest ==
    /\ \A s \in Sessions : job[s] = Idle
    /\ \A i \in Importers : importer[i].at # "import"
    /\ UNCHANGED vars

Next ==
    \/ \E s \in Sessions : Clicks(s) \/ Steps(s)
    \/ \E i \in Importers : Imports(i)
    \/ ServerDies
    \/ Rest

Spec == Init /\ [][Next]_vars

-----------------------------------------------------------------------------
(* Properties.                                                             *)

Topics == {TopicValue(form) : form \in Forms}
Inputs == {InputText(form) : form \in Forms}
Keys == Topics \X Inputs

JobOK(j) ==
    /\ j.at \in {"idle", "local", "pretrain", "truncate", "fill", "filed"}
    /\ j.at \in {"local", "pretrain"} => j.key \in Keys
    /\ j.at \in {"truncate", "fill"} =>
          j.key \in DOMAIN j.store /\ j.store[j.key] = j.target
    /\ j.at \in {"truncate", "fill", "filed"} => j.by \in {"revise", "pretrain"}

\* The variables keep their types, and what a job is about to write holds
\* its entry.
TypeOK ==
    /\ source \in [Sessions -> Inputs \cup {NoText}]
    /\ topic \in [Sessions -> Topics \cup {Blank}]
    /\ awaiting \in [Sessions -> BOOLEAN] /\ failed \in [Sessions -> BOOLEAN]
    /\ DOMAIN payload = Sessions /\ DOMAIN final = Sessions
    /\ DOMAIN context = Sessions
    /\ \A s \in Sessions : payload[s].mode \in {"none", "local", "pretrain"}
    /\ DOMAIN job = Sessions /\ \A s \in Sessions : JobOK(job[s])
    /\ DOMAIN importer = Importers
    /\ \A i \in Importers : /\ importer[i].at \in {"none", "import", "done"}
                            /\ importer[i].rest \subseteq DOMAIN importer[i].read
    /\ ops \in 0..MaxOps
    /\ mishaps \subseteq {"overlap", "cut", "interrupted", "raised"}

\* Every entry is among the wishes.
Within(entries, wishes) == \A key \in DOMAIN entries : <<key, entries[key]>> \in wishes

\* A correction is filed under the topic and the source of the job whose
\* text it corrects, whatever the sidebar says by then, and nothing else
\* gets into lexicon.json or, from there, into the database, unless a local
\* job was interrupted, which leaves the last job's text with the new source.
EntriesAsAsked ==
    "interrupted" \notin mishaps =>
        (lexicon # Torn => Within(lexicon, asked)) /\ Within(table, asked)

\* While no two sessions are at lexicon.json together and no write is cut
\* short, it holds the last target filed under every key, whatever sessions
\* and jobs filed the others.
LexiconInStep ==
    (mishaps \cap {"overlap", "cut"} = {} /\ \A s \in Sessions : job[s].at # "fill")
        => lexicon = accepted

\* The final text on the page belongs to the job on the page: it is the
\* job's own text or was asked for as its correction, though the page tells
\* jobs apart by their texts alone.
FinalAnswersPayload ==
    \A s \in Sessions : ShowsFinal(s) =>
        final[s] = payload[s].text \/ <<payload[s].key, final[s]>> \in asked

\* An import that has ended has brought every entry it read into the
\* database, and is found there unless another import wrote since, however
\* often earlier ones died half way and whatever they left.
ImportsComplete ==
    \A i \in Importers : importer[i].at = "done" =>
        \A key \in DOMAIN importer[i].read :
            /\ key \in DOMAIN table
            /\ importer[i].alone => table[key] = importer[i].read[key]

\* A text that may be confirmed or corrected is one that an engine gave and
\* the audit has heard: the failure text of a local job is shown, and never
\* offered, however jobs of both kinds, their failures and corrections follow
\* each other, unless a job was interrupted or a pretrain job raised, which
\* clear the error and leave the payload.
OfferedIsAudited ==
    mishaps \cap {"interrupted", "raised"} = {} =>
        \A s \in Sessions : Click(s) /\ Offers(s) =>
            payload[s].audit = "agent-consensus-audit"

=============================================================================
