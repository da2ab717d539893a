-------------------------- MODULE ChatSessionProofs --------------------------
(***************************************************************************)
(* For any sessions, forms, models and corrections: what lexicon.json and  *)
(* the database hold was asked for, the file holds the last target of      *)
(* every key, a final text belongs to its job, and an import that ended is *)
(* complete, each under the premises the property names; a text that is    *)
(* offered to be confirmed or corrected is one the job's audit has heard.  *)
(***************************************************************************)
EXTENDS ChatSession, FiniteSetTheorems, SequenceTheorems, TLAPS

-----------------------------------------------------------------------------
(* What a step does to the variables it sets.                              *)

\* A session that goes on to j, while the others stay where they are.
LEMMA GotoStep ==
    ASSUME NEW s \in Sessions, NEW j, DOMAIN job = Sessions, Goto(s, j)
    PROVE  /\ DOMAIN job' = Sessions
           /\ job'[s] = j
           /\ \A t \in Sessions : t # s => job'[t] = job[t]
BY DEF Goto, Set

\* A session that goes on to write has read the file and holds it with its entry.
LEMMA LoadStep ==
    ASSUME NEW s \in Sessions, NEW key, NEW target, NEW by, DOMAIN job = Sessions,
           Load(s, key, target, by)
    PROVE  /\ DOMAIN job' = Sessions
           /\ \A t \in Sessions : t # s => job'[t] = job[t]
           /\ job'[s].at = "truncate" /\ job'[s].key = key
           /\ job'[s].target = target /\ job'[s].by = by
           /\ job'[s].store = Entry(key, target, lexicon)
           /\ key \in DOMAIN job'[s].store /\ job'[s].store[key] = target
           /\ lexicon # Torn
           /\ mishaps' = mishaps \cup Overlaps(s)
<1>. DEFINE store == Entry(key, target, lexicon)
<1>1. key \in DOMAIN store /\ store[key] = target
  BY DEF Entry
<1>. DEFINE next == [at |-> "truncate", key |-> key, target |-> target,
                    by |-> by, store |-> store]
<1>2. Goto(s, next)
  BY DEF Load, Revised
<1>. HIDE DEF store
<1>3. /\ DOMAIN job' = Sessions /\ \A t \in Sessions : t # s => job'[t] = job[t]
      /\ job'[s] = next
  BY <1>2, GotoStep
<1>4. lexicon # Torn /\ mishaps' = mishaps \cup Overlaps(s)
  BY DEF Load
<1>. QED
  BY <1>1, <1>3, <1>4 DEF store

\* A session that goes on to j, or is left where nothing runs.
LEMMA OnwardStep ==
    ASSUME NEW s \in Sessions, NEW whole \in BOOLEAN, NEW j, DOMAIN job = Sessions,
           Onward(s, whole, j)
    PROVE  /\ DOMAIN job' = Sessions
           /\ job'[s] = IF whole THEN j ELSE Idle
           /\ \A t \in Sessions : t # s => job'[t] = job[t]
           /\ mishaps' = mishaps \cup IF whole THEN {} ELSE {"interrupted"}
BY DEF Onward, Goto, Set

\* The page of a session with a part of what was shown cleared, in order.
LEMMA ClearedStep ==
    ASSUME NEW s \in Sessions, NEW n \in Int, TypeOK, Cleared(s, n)
    PROVE  /\ awaiting' \in [Sessions -> BOOLEAN] /\ failed' \in [Sessions -> BOOLEAN]
           /\ DOMAIN final' = Sessions /\ DOMAIN context' = Sessions
           /\ final'[s] \in {final[s], NoText} /\ (n >= 1 => final'[s] = NoText)
           /\ \A t \in Sessions : t # s => final'[t] = final[t] /\ failed'[t] = failed[t]
           /\ n < 4 => failed' = failed
<1>1. /\ awaiting' \in [Sessions -> BOOLEAN] /\ failed' \in [Sessions -> BOOLEAN]
      /\ \A t \in Sessions : t # s => failed'[t] = failed[t]
      /\ n < 4 => failed' = failed
  BY DEF TypeOK, Cleared, Made, Set
<1>2. /\ DOMAIN final' = Sessions /\ DOMAIN context' = Sessions
      /\ final'[s] \in {final[s], NoText} /\ (n >= 1 => final'[s] = NoText)
      /\ \A t \in Sessions : t # s => final'[t] = final[t]
  BY DEF TypeOK, Cleared, Made, Set
<1>. QED
  BY <1>1, <1>2

\* A topic the page resolves is never blank.
LEMMA TopicsAreWords == Blank \notin Topics
BY ChatAssumption DEF Topics, TopicValue

-----------------------------------------------------------------------------
(* Types.                                                                  *)

\* New pages and empty stores have their types.
LEMMA TypeInit == Init => TypeOK
BY ChatAssumption DEF Init, TypeOK, JobOK, Fresh, Bare, Idle, NoImport

\* A click that runs a job, or stops on the way there, keeps the jobs' types.
LEMMA PartlyRuns ==
    ASSUME TypeOK, NEW s \in Sessions, NEW whole \in BOOLEAN, NEW key \in Keys,
           NEW at \in {"local", "pretrain"}, Onward(s, whole, [at |-> at, key |-> key])
    PROVE  /\ DOMAIN job' = Sessions /\ (\A t \in Sessions : JobOK(job[t]))'
           /\ mishaps' \subseteq {"overlap", "cut", "interrupted", "raised"}
<1>. DEFINE next == [at |-> at, key |-> key]
<1>1. /\ next.at = at /\ next.key = key
  OBVIOUS
<1>. HIDE DEF next
<1>2. /\ DOMAIN job' = Sessions
      /\ job'[s] = IF whole THEN next ELSE Idle
      /\ \A t \in Sessions : t # s => job'[t] = job[t]
      /\ mishaps' = mishaps \cup IF whole THEN {} ELSE {"interrupted"}
  BY OnwardStep DEF TypeOK, next
<1>3. JobOK(next) /\ JobOK(Idle)
  BY <1>1 DEF JobOK, Idle
<1>4. \A t \in Sessions : JobOK(job'[t])
  BY <1>2, <1>3 DEF TypeOK
<1>5. (\A t \in Sessions : JobOK(job[t]))'
  BY <1>4 DEF JobOK
<1>. QED
  BY <1>2, <1>5 DEF TypeOK

\* Every step keeps the types.
LEMMA TypeStep ==
    ASSUME TypeOK, [Next]_vars
    PROVE  TypeOK'
<1>1. ASSUME NEW s \in Sessions, NEW form \in Forms, NEW n \in 1..6,
             RunLocal(s, form, n)
      PROVE  TypeOK'
  <2>. DEFINE key == <<TopicValue(form), InputText(form)>>
  <2>1. /\ Cleared(s, n - 2) /\ Onward(s, n = 6, [at |-> "local", key |-> key])
        /\ ops < MaxOps /\ ops' = ops + 1
        /\ UNCHANGED <<payload, lexicon, table, importer, asked, accepted>>
    BY <1>1 DEF RunLocal, Begin, stores
  <2>2. /\ source' \in [Sessions -> Inputs \cup {NoText}]
        /\ topic' \in [Sessions -> Topics \cup {Blank}]
    BY <1>1 DEF TypeOK, RunLocal, Made, Set, Topics, Inputs
  <2>3. key \in Keys
    BY DEF Topics, Inputs, Keys
  <2>. HIDE DEF key
  <2>4. PICK m \in Int, whole \in BOOLEAN, at \in {"local", "pretrain"} :
           /\ Cleared(s, m)
           /\ Onward(s, whole, [at |-> at, key |-> key])
    <3>1. n - 2 \in Int /\ (n = 6) \in BOOLEAN /\ "local" \in {"local", "pretrain"}
      OBVIOUS
    <3>. QED
      BY <2>1, <3>1, Zenon
  <2>5. /\ awaiting' \in [Sessions -> BOOLEAN] /\ failed' \in [Sessions -> BOOLEAN]
        /\ DOMAIN final' = Sessions /\ DOMAIN context' = Sessions
    BY <2>4, ClearedStep
  <2>6. /\ DOMAIN job' = Sessions /\ (\A t \in Sessions : JobOK(job[t]))'
        /\ mishaps' \subseteq {"overlap", "cut", "interrupted", "raised"}
    BY <2>3, <2>4, PartlyRuns
  <2>. QED
    BY <2>1, <2>2, <2>5, <2>6, ChatAssumption DEF TypeOK
<1>2. ASSUME NEW s \in Sessions, NEW form \in Forms, NEW n \in 1..4,
             RunPretrain(s, form, n)
      PROVE  TypeOK'
  <2>. DEFINE key == <<TopicValue(form), InputText(form)>>
  <2>1. /\ Cleared(s, n) /\ Onward(s, n = 4, [at |-> "pretrain", key |-> key])
        /\ ops < MaxOps /\ ops' = ops + 1
        /\ UNCHANGED <<source, topic, payload, lexicon, table, importer, asked, accepted>>
    BY <1>2 DEF RunPretrain, Begin, stores
  <2>3. key \in Keys
    BY DEF Topics, Inputs, Keys
  <2>. HIDE DEF key
  <2>4. PICK m \in Int, whole \in BOOLEAN, at \in {"local", "pretrain"} :
           /\ Cleared(s, m)
           /\ Onward(s, whole, [at |-> at, key |-> key])
    <3>1. n \in Int /\ (n = 4) \in BOOLEAN /\ "pretrain" \in {"local", "pretrain"}
      OBVIOUS
    <3>. QED
      BY <2>1, <3>1, Zenon
  <2>5. /\ awaiting' \in [Sessions -> BOOLEAN] /\ failed' \in [Sessions -> BOOLEAN]
        /\ DOMAIN final' = Sessions /\ DOMAIN context' = Sessions
    BY <2>4, ClearedStep
  <2>6. /\ DOMAIN job' = Sessions /\ (\A t \in Sessions : JobOK(job[t]))'
        /\ mishaps' \subseteq {"overlap", "cut", "interrupted", "raised"}
    BY <2>3, <2>4, PartlyRuns
  <2>. QED
    BY <2>1, <2>5, <2>6, ChatAssumption DEF TypeOK
<1>3. ASSUME NEW s \in Sessions, NEW n \in 1..3, Confirm(s, n)
      PROVE  TypeOK'
  BY <1>3, ChatAssumption DEF TypeOK, JobOK, vars, page, stores, ghosts,
     Confirm, Shown, Made, Set
<1>4. ASSUME NEW s \in Sessions, ClickRevise(s)
      PROVE  TypeOK'
  BY <1>4, ChatAssumption DEF TypeOK, JobOK, vars, page, stores, ghosts,
     ClickRevise, Set
<1>5. ASSUME NEW s \in Sessions, NEW form \in Forms, NEW text \in Revisions,
                 SubmitRevision(s, text, TopicValue(form))
      PROVE  TypeOK'
  <2>1. CASE Load(s, Key(s, TopicValue(form)), text, "revise")
    <3>1. /\ JobOK(job'[s]) /\ DOMAIN job' = Sessions
          /\ \A t \in Sessions : t # s => job'[t] = job[t]
      BY <2>1, LoadStep DEF JobOK, TypeOK
    <3>2. mishaps' \subseteq {"overlap", "cut", "interrupted", "raised"}
      BY <2>1 DEF Load, Overlaps, TypeOK
    <3>3. \A t \in Sessions : JobOK(job'[t])
      BY <3>1 DEF TypeOK
    <3>4. DOMAIN job' = Sessions /\ (\A t \in Sessions : JobOK(job[t]))'
      BY <3>1, <3>3 DEF JobOK
    <3>. QED
      BY <1>5, <3>2, <3>4, ChatAssumption DEF TypeOK, SubmitRevision,
         Begin, page, stores
  <2>2. CASE UNCHANGED <<job, mishaps>>
    BY <1>5, <2>2, ChatAssumption DEF TypeOK, JobOK, SubmitRevision, Begin,
       page, stores
  <2>. QED
    BY <1>5, <2>1, <2>2 DEF SubmitRevision
<1>6. ASSUME NEW s \in Sessions, NEW a, NEW b, NEW n \in 0..2,
             FinishLocal(s, a, b, n)
      PROVE  TypeOK'
  BY <1>6, ChatAssumption DEF TypeOK, JobOK, vars, page, stores, ghosts,
     FinishLocal, RunSafe, Payload, Made, Onward, Idle, Goto, Set
<1>7. ASSUME NEW s \in Sessions, NEW a, NEW b, FilePretrained(s, a, b)
      PROVE  TypeOK'
  <2>1. CASE Load(s, job[s].key, FinalText(a, b), "pretrain")
    <3>1. /\ JobOK(job'[s]) /\ DOMAIN job' = Sessions
          /\ \A t \in Sessions : t # s => job'[t] = job[t]
      BY <2>1, LoadStep DEF JobOK, TypeOK
    <3>2. mishaps' \subseteq {"overlap", "cut", "interrupted", "raised"}
      BY <2>1 DEF Load, Overlaps, TypeOK
    <3>3. \A t \in Sessions : JobOK(job'[t])
      BY <3>1 DEF TypeOK
    <3>4. DOMAIN job' = Sessions /\ (\A t \in Sessions : JobOK(job[t]))'
      BY <3>1, <3>3 DEF JobOK
    <3>. QED
      BY <1>7, <3>2, <3>4, ChatAssumption DEF TypeOK, FilePretrained, page, stores
  <2>2. CASE Leave(s) /\ UNCHANGED asked /\ mishaps' = mishaps \cup {"raised"}
    BY <1>7, <2>2 DEF TypeOK, JobOK, FilePretrained, Leave, Idle, Goto, Set,
       page, stores
  <2>. QED
    BY <1>7, <2>1, <2>2 DEF FilePretrained
<1>8. ASSUME NEW s \in Sessions, Truncate(s)
      PROVE  TypeOK'
  BY <1>8, ChatAssumption DEF TypeOK, JobOK, vars, page, stores, ghosts,
     Truncate, Overlaps, Goto, Set
<1>9. ASSUME NEW s \in Sessions, Fill(s)
      PROVE  TypeOK'
  BY <1>9, ChatAssumption DEF TypeOK, JobOK, vars, page, stores, ghosts, Fill,
     Overlaps, Goto, Set
<1>10. ASSUME NEW s \in Sessions, NEW n \in 0..3, FinishRevision(s, n)
      PROVE  TypeOK'
  BY <1>10, ChatAssumption DEF TypeOK, JobOK, vars, page, stores, ghosts,
     FinishRevision, Shown, Made, Leave, Idle, Goto, Set
<1>11. ASSUME NEW s \in Sessions, NEW n \in 0..1, FinishPretrain(s, n)
      PROVE  TypeOK'
  BY <1>11, ChatAssumption DEF TypeOK, JobOK, vars, page, stores, ghosts,
     FinishPretrain, Bare, Made, Onward, Idle, Goto, Set
<1>12. ASSUME NEW s \in Sessions, WriteFails(s)
      PROVE  TypeOK'
  BY <1>12, ChatAssumption DEF TypeOK, JobOK, vars, page, stores, ghosts,
     WriteFails, Leave, Idle, Goto, Set
<1>13. ASSUME NEW i \in Importers, StartImport(i)
      PROVE  TypeOK'
  BY <1>13, ChatAssumption DEF TypeOK, JobOK, vars, page, stores, ghosts,
     StartImport, Begin, Set
<1>14. ASSUME NEW i \in Importers, NEW key \in importer[i].rest, ImportEntry(i, key)
      PROVE  TypeOK'
  BY <1>14, ChatAssumption DEF TypeOK, JobOK, vars, page, stores, ghosts,
     ImportEntry, Upserted
<1>15. ASSUME NEW i \in Importers, EndImport(i)
      PROVE  TypeOK'
  BY <1>15, ChatAssumption DEF TypeOK, JobOK, vars, page, stores, ghosts,
     EndImport, Set
<1>16. ASSUME NEW i \in Importers, ImportDies(i)
      PROVE  TypeOK'
  BY <1>16, ChatAssumption DEF TypeOK, JobOK, vars, page, stores, ghosts,
     ImportDies, NoImport, Set
<1>17. CASE ServerDies
  BY <1>17, ChatAssumption DEF TypeOK, JobOK, vars, page, stores, ghosts,
     ServerDies, Begin, NewPages, Fresh, Bare, Idle
<1>18. CASE UNCHANGED vars
  BY <1>18, ChatAssumption DEF TypeOK, JobOK, vars, page, stores, ghosts
<1>. QED
  BY <1>1, <1>2, <1>3, <1>4, <1>5, <1>6, <1>7, <1>8, <1>9, <1>10, <1>11,
     <1>12, <1>13, <1>14, <1>15, <1>16, <1>17, <1>18
     DEF Next, Clicks, Steps, Imports, Rest

\* The variables of the page, its jobs and the migration keep their types.
THEOREM TypeCorrect == Spec => []TypeOK
BY TypeInit, TypeStep, PTL DEF Spec

-----------------------------------------------------------------------------
(* What is filed was asked for.                                            *)

\* A local job noted its topic and source, and a text on the page is of the
\* topic and source noted last.
JobNoted(s) ==
    /\ job[s].at = "local" =>
          job[s].key = <<topic[s], source[s]>> /\ topic[s] # Blank
    /\ (job[s].at # "local" /\ payload[s].text # NoText) =>
          payload[s].key = <<topic[s], source[s]>> /\ topic[s] # Blank

AskInv ==
    "interrupted" \notin mishaps =>
        /\ \A s \in Sessions : JobNoted(s)
        /\ \A s \in Sessions :
              job[s].at \in {"truncate", "fill"} => Within(job[s].store, asked)
        /\ \A i \in Importers : Within(importer[i].read, asked)
        /\ lexicon # Torn => Within(lexicon, asked)
        /\ Within(table, asked)

\* Entries that were wished for, and one more that was, are among the wishes.
LEMMA EntryWithin ==
    ASSUME NEW key, NEW target, NEW entries, NEW old, NEW new,
           Within(entries, old), old \subseteq new, <<key, target>> \in new
    PROVE  Within(Entry(key, target, entries), new)
BY DEF Within, Entry

\* The session is about to write this store.
WritesOnly(s, store) ==
    /\ DOMAIN job' = Sessions
    /\ job'[s].at = "truncate" /\ job'[s].store = store
    /\ \A t \in Sessions : t # s => job'[t] = job[t]

\* A session goes on to write entries that were asked for.
LEMMA WritesStep ==
    ASSUME AskInv, "interrupted" \notin mishaps, NEW s \in Sessions, NEW store,
           NEW wish, asked' = asked \cup {wish}, Within(store, asked'),
           WritesOnly(s, store), UNCHANGED <<page, stores, importer>>,
           job[s].at # "local"
    PROVE  AskInv'
BY DEF AskInv, JobNoted, Within, WritesOnly, page, stores

\* At first nothing is filed and nothing shown.
LEMMA AskInit == Init => AskInv
BY DEF Init, AskInv, JobNoted, Within, Fresh, Bare, Idle, NoImport

\* Every step files, shows and imports only what was asked for.
LEMMA AskStep ==
    ASSUME TypeOK, TypeOK', AskInv, [Next]_vars
    PROVE  AskInv'
<1>1. ASSUME NEW s \in Sessions, NEW form \in Forms, NEW n \in 1..6,
             RunLocal(s, form, n)
      PROVE  AskInv'
  <2>1. TopicValue(form) # Blank
    BY TopicsAreWords DEF Topics
  <2>. QED
    BY <1>1, <2>1 DEF TypeOK, AskInv, JobNoted, page, stores, ghosts,
       RunLocal, Cleared, Made, Onward, Goto, Set
<1>2. ASSUME NEW s \in Sessions, NEW form \in Forms, NEW n \in 1..4,
             RunPretrain(s, form, n)
      PROVE  AskInv'
  BY <1>2 DEF TypeOK, AskInv, JobNoted, vars, page, stores, ghosts,
     RunPretrain, Click, Idle, Cleared, Made, Onward, Goto, Set
<1>3. ASSUME NEW s \in Sessions, NEW n \in 1..3, Confirm(s, n)
      PROVE  AskInv'
  BY <1>3 DEF TypeOK, AskInv, JobNoted, vars, page, stores, ghosts, Confirm,
     Shown, Made, Set
<1>4. ASSUME NEW s \in Sessions, ClickRevise(s)
      PROVE  AskInv'
  BY <1>4 DEF TypeOK, AskInv, JobNoted, vars, page, stores, ghosts, ClickRevise, Set
<1>5. ASSUME NEW s \in Sessions, NEW form \in Forms, NEW text \in Revisions,
                 SubmitRevision(s, text, TopicValue(form))
      PROVE  AskInv'
  <2>. DEFINE key == Key(s, TopicValue(form))
  <2>1. CASE Load(s, key, text, "revise")
    <3>1. SUFFICES ASSUME "interrupted" \notin mishaps'
                   PROVE  AskInv'
      BY DEF AskInv
    <3>2. "interrupted" \notin mishaps
      BY <2>1, <3>1 DEF Load
    <3>3. key = payload[s].key
      BY <1>5, <3>2 DEF SubmitRevision, Click, Idle, Offers, Key, AskInv, JobNoted
    <3>4. asked' = asked \cup {<<key, text>>}
      BY <1>5, <3>3 DEF SubmitRevision
    <3>5. UNCHANGED <<page, stores, importer>> /\ job[s].at # "local"
      BY <1>5 DEF SubmitRevision, Click, Idle
    <3>. HIDE DEF key
    <3>6. lexicon # Torn /\ Goto(s, [at |-> "truncate", key |-> key, target |-> text,
                                     by |-> "revise", store |-> Entry(key, text, lexicon)])
      BY <2>1 DEF Load, Revised
    <3>7. Within(Entry(key, text, lexicon), asked')
      <4>1. Within(lexicon, asked)
        BY <3>2, <3>6 DEF AskInv
      <4>2. asked \subseteq asked' /\ <<key, text>> \in asked'
        BY <3>4
      <4>. QED
        BY <4>1, <4>2, EntryWithin
    <3>8. WritesOnly(s, Entry(key, text, lexicon))
      BY <3>6 DEF WritesOnly, TypeOK, Goto, Set
    <3>. QED
      BY <3>2, <3>4, <3>7, <3>8, <3>5, WritesStep
  <2>2. CASE UNCHANGED <<job, mishaps>>
    BY <1>5, <2>2 DEF SubmitRevision, AskInv, JobNoted, Within, page, stores
  <2>. QED
    BY <1>5, <2>1, <2>2 DEF SubmitRevision
<1>6. ASSUME NEW s \in Sessions, NEW a, NEW b, NEW n \in 0..2,
             FinishLocal(s, a, b, n)
      PROVE  AskInv'
  BY <1>6 DEF TypeOK, AskInv, JobNoted, vars, page, stores, ghosts,
     FinishLocal, RunSafe, Payload, Made, Onward, Idle, Goto, Set
<1>7. ASSUME NEW s \in Sessions, NEW a, NEW b, FilePretrained(s, a, b)
      PROVE  AskInv'
  <2>. DEFINE key == job[s].key
              text == FinalText(a, b)
  <2>1. CASE Load(s, key, text, "pretrain") /\ asked' = asked \cup {<<key, text>>}
    <3>1. SUFFICES ASSUME "interrupted" \notin mishaps'
                   PROVE  AskInv'
      BY DEF AskInv
    <3>2. "interrupted" \notin mishaps
      BY <2>1, <3>1 DEF Load
    <3>3. asked' = asked \cup {<<key, text>>}
      BY <2>1
    <3>4. UNCHANGED <<page, stores, importer>> /\ job[s].at = "pretrain"
      BY <1>7 DEF FilePretrained
    <3>. HIDE DEF key, text
    <3>5. lexicon # Torn /\ Goto(s, [at |-> "truncate", key |-> key, target |-> text,
                                     by |-> "pretrain", store |-> Entry(key, text, lexicon)])
      BY <2>1 DEF Load, Revised
    <3>6. Within(Entry(key, text, lexicon), asked')
      <4>1. Within(lexicon, asked)
        BY <3>2, <3>5 DEF AskInv
      <4>2. asked \subseteq asked' /\ <<key, text>> \in asked'
        BY <3>3
      <4>. QED
        BY <4>1, <4>2, EntryWithin
    <3>7. WritesOnly(s, Entry(key, text, lexicon))
      BY <3>5 DEF WritesOnly, TypeOK, Goto, Set
    <3>. QED
      BY <3>2, <3>3, <3>6, <3>7, <3>4, WritesStep
  <2>2. CASE Leave(s) /\ UNCHANGED asked /\ mishaps' = mishaps \cup {"raised"}
    BY <1>7, <2>2 DEF TypeOK, FilePretrained, AskInv, JobNoted, Leave, Idle,
       Goto, Set, page, stores
  <2>. QED
    BY <1>7, <2>1, <2>2 DEF FilePretrained
<1>8. ASSUME NEW s \in Sessions, Truncate(s)
      PROVE  AskInv'
  BY <1>8 DEF TypeOK, AskInv, JobNoted, vars, page, stores, ghosts, Truncate,
     Goto, Set
<1>9. ASSUME NEW s \in Sessions, Fill(s)
      PROVE  AskInv'
  BY <1>9 DEF TypeOK, AskInv, JobNoted, vars, page, stores, ghosts, Fill, Goto, Set
<1>10. ASSUME NEW s \in Sessions, NEW n \in 0..3, FinishRevision(s, n)
      PROVE  AskInv'
  BY <1>10 DEF TypeOK, AskInv, JobNoted, vars, page, stores, ghosts,
     FinishRevision, Shown, Made, Leave, Idle, Goto, Set
<1>11. ASSUME NEW s \in Sessions, NEW n \in 0..1, FinishPretrain(s, n)
      PROVE  AskInv'
  BY <1>11 DEF TypeOK, AskInv, JobNoted, vars, page, stores, ghosts,
     FinishPretrain, Bare, Made, Onward, Idle, Goto, Set
<1>12. ASSUME NEW s \in Sessions, WriteFails(s)
      PROVE  AskInv'
  BY <1>12 DEF TypeOK, AskInv, JobNoted, vars, page, stores, ghosts,
     WriteFails, Leave, Idle, Goto, Set
<1>13. ASSUME NEW i \in Importers, StartImport(i)
      PROVE  AskInv'
  BY <1>13 DEF TypeOK, AskInv, JobNoted, vars, page, stores, ghosts,
     StartImport, Begin, Set
<1>14. ASSUME NEW i \in Importers, NEW key \in importer[i].rest, ImportEntry(i, key)
      PROVE  AskInv'
  <2>. DEFINE target == importer[i].read[key]
  <2>1. /\ table' = Entry(key, target, table)
        /\ \A k \in Importers : importer'[k].read = importer[k].read
        /\ UNCHANGED <<page, job, lexicon, asked, mishaps>>
        /\ key \in DOMAIN importer[i].read
    BY <1>14 DEF ImportEntry, Upserted, ghosts, TypeOK
  <2>2. ASSUME "interrupted" \notin mishaps
        PROVE  Within(table', asked)
    <3>1. <<key, target>> \in asked /\ Within(table, asked)
      BY <2>1, <2>2 DEF AskInv, Within
    <3>. HIDE DEF target
    <3>. QED
      BY <2>1, <3>1, EntryWithin
  <2>. QED
    BY <2>1, <2>2 DEF AskInv, JobNoted, page
<1>15. ASSUME NEW i \in Importers, EndImport(i)
      PROVE  AskInv'
  BY <1>15 DEF TypeOK, AskInv, JobNoted, vars, page, stores, ghosts, EndImport, Set
<1>16. ASSUME NEW i \in Importers, ImportDies(i)
      PROVE  AskInv'
  BY <1>16 DEF TypeOK, AskInv, JobNoted, vars, page, stores, ghosts,
     ImportDies, NoImport, Set, Within
<1>17. CASE ServerDies
  BY <1>17 DEF TypeOK, AskInv, JobNoted, vars, page, stores, ghosts,
     ServerDies, Begin, NewPages, Fresh, Bare, Idle
<1>18. CASE UNCHANGED vars
  BY <1>18 DEF TypeOK, AskInv, JobNoted, vars, page, stores, ghosts
<1>. QED
  BY <1>1, <1>2, <1>3, <1>4, <1>5, <1>6, <1>7, <1>8, <1>9, <1>10, <1>11,
     <1>12, <1>13, <1>14, <1>15, <1>16, <1>17, <1>18
     DEF Next, Clicks, Steps, Imports, Rest

\* For any forms, models and sessions: nothing is filed that was not asked
\* for under its key, unless a local job was interrupted.
THEOREM EntriesFiled == Spec => []EntriesAsAsked
<1>1. AskInv => EntriesAsAsked
  BY DEF AskInv, EntriesAsAsked
<1>. QED
  BY <1>1, AskInit, AskStep, TypeCorrect, PTL DEF Spec

-----------------------------------------------------------------------------
(* The final text belongs to the job on the page.                          *)

Writing(s) == job[s].at \in {"truncate", "fill", "filed"}

\* There is no final text while a job runs; there is one once it is the
\* payload's or was asked for, and a correction that is being filed was.
FinalSound(s) ==
    /\ \/ final[s] = NoText
       \/ final[s] = payload[s].text
       \/ <<payload[s].key, final[s]>> \in asked
    /\ (job[s].at \in {"local", "pretrain"} \/ (Writing(s) /\ job[s].by = "pretrain"))
          => final[s] = NoText
    /\ (Writing(s) /\ job[s].by = "revise") =>
          <<payload[s].key, job[s].target>> \in asked

FinalInv == \A s \in Sessions : FinalSound(s)

\* At first no final text is shown.
LEMMA FinalInit == Init => FinalInv
BY DEF Init, FinalInv, FinalSound, Writing, Fresh, Idle

\* A job that is begun has no final text any more.
LEMMA PartlyFinal ==
    ASSUME TypeOK, FinalInv, NEW s \in Sessions, NEW m \in Int, Cleared(s, m),
           NEW whole \in BOOLEAN, whole => m >= 1, NEW at \in {"local", "pretrain"},
           \E key : Onward(s, whole, [at |-> at, key |-> key]),
           UNCHANGED <<payload, asked>>, job[s] = Idle
    PROVE  FinalInv'
<1>1. /\ final'[s] \in {final[s], NoText} /\ (whole => final'[s] = NoText)
      /\ \A t \in Sessions : t # s => final'[t] = final[t]
  BY ClearedStep
<1>2. PICK key : Onward(s, whole, [at |-> at, key |-> key])
  OBVIOUS
<1>3. /\ \A t \in Sessions : t # s => job'[t] = job[t]
      /\ whole => job'[s].at = at
      /\ ~whole => job'[s].at = "idle"
  BY <1>2, OnwardStep DEF TypeOK, Idle
<1>. QED
  BY <1>1, <1>3 DEF FinalInv, FinalSound, Writing

\* Every step keeps the final texts with their jobs.
LEMMA FinalStep ==
    ASSUME TypeOK, TypeOK', FinalInv, [Next]_vars
    PROVE  FinalInv'
<1>1. ASSUME NEW s \in Sessions, NEW form \in Forms, NEW n \in 1..6,
             RunLocal(s, form, n)
      PROVE  FinalInv'
  <2>1. /\ Cleared(s, n - 2) /\ UNCHANGED <<payload, asked>> /\ job[s] = Idle
        /\ \E key : Onward(s, n = 6, [at |-> "local", key |-> key])
    BY <1>1 DEF RunLocal, Click
  <2>2. PICK m \in Int, whole \in BOOLEAN, at \in {"local", "pretrain"} :
           /\ Cleared(s, m) /\ (whole => m >= 1)
           /\ \E key : Onward(s, whole, [at |-> at, key |-> key])
    <3>1. n - 2 \in Int /\ (n = 6) \in BOOLEAN /\ "local" \in {"local", "pretrain"}
          /\ (n = 6 => n - 2 >= 1)
      OBVIOUS
    <3>. QED
      BY <2>1, <3>1, Zenon
  <2>. QED
    BY <2>1, <2>2, PartlyFinal
<1>2. ASSUME NEW s \in Sessions, NEW form \in Forms, NEW n \in 1..4,
             RunPretrain(s, form, n)
      PROVE  FinalInv'
  <2>1. /\ Cleared(s, n) /\ UNCHANGED <<payload, asked>> /\ job[s] = Idle
        /\ \E key : Onward(s, n = 4, [at |-> "pretrain", key |-> key])
    BY <1>2 DEF RunPretrain, Click
  <2>2. PICK m \in Int, whole \in BOOLEAN, at \in {"local", "pretrain"} :
           /\ Cleared(s, m) /\ (whole => m >= 1)
           /\ \E key : Onward(s, whole, [at |-> at, key |-> key])
    <3>1. n \in Int /\ (n = 4) \in BOOLEAN /\ "pretrain" \in {"local", "pretrain"}
          /\ (n = 4 => n >= 1)
      OBVIOUS
    <3>. QED
      BY <2>1, <3>1, Zenon
  <2>. QED
    BY <2>1, <2>2, PartlyFinal
<1>3. ASSUME NEW s \in Sessions, NEW n \in 1..3, Confirm(s, n)
      PROVE  FinalInv'
  BY <1>3 DEF TypeOK, FinalInv, FinalSound, Writing, vars, page, ghosts,
     Confirm, Click, Idle, Shown, Made, Set
<1>4. ASSUME NEW s \in Sessions, ClickRevise(s)
      PROVE  FinalInv'
  BY <1>4 DEF TypeOK, FinalInv, FinalSound, Writing, vars, page, ghosts, ClickRevise
<1>5. ASSUME NEW s \in Sessions, NEW form \in Forms, NEW text \in Revisions,
                 SubmitRevision(s, text, TopicValue(form))
      PROVE  FinalInv'
  <2>1. CASE Load(s, Key(s, TopicValue(form)), text, "revise")
    <3>1. /\ DOMAIN job' = Sessions /\ \A t \in Sessions : t # s => job'[t] = job[t]
          /\ job'[s].at = "truncate" /\ job'[s].target = text /\ job'[s].by = "revise"
      BY <2>1 DEF TypeOK, Load, Goto, Set
    <3>2. job[s].at = "idle" /\ <<payload[s].key, text>> \in asked' /\ asked \subseteq asked'
      BY <1>5 DEF SubmitRevision, Click, Idle
    <3>. QED
      BY <1>5, <3>1, <3>2 DEF SubmitRevision, FinalInv, FinalSound, Writing, page
  <2>2. CASE UNCHANGED <<job, mishaps>>
    BY <1>5, <2>2 DEF SubmitRevision, FinalInv, FinalSound, Writing, page
  <2>. QED
    BY <1>5, <2>1, <2>2 DEF SubmitRevision
<1>6. ASSUME NEW s \in Sessions, NEW a, NEW b, NEW n \in 0..2,
             FinishLocal(s, a, b, n)
      PROVE  FinalInv'
  <2>1. /\ \A t \in Sessions : t # s => payload'[t] = payload[t]
        /\ UNCHANGED <<final, asked>> /\ job[s].at = "local"
    BY <1>6 DEF TypeOK, FinishLocal, Made, Set
  <2>2. /\ DOMAIN job' = Sessions /\ \A t \in Sessions : t # s => job'[t] = job[t]
        /\ job'[s].at = "idle"
    BY <1>6 DEF TypeOK, FinishLocal, Onward, Idle, Goto, Set
  <2>. QED
    BY <2>1, <2>2 DEF FinalInv, FinalSound, Writing, Writing
<1>7. ASSUME NEW s \in Sessions, NEW a, NEW b, FilePretrained(s, a, b)
      PROVE  FinalInv'
  <2>1. CASE Load(s, job[s].key, FinalText(a, b), "pretrain")
    <3>1. /\ DOMAIN job' = Sessions /\ \A t \in Sessions : t # s => job'[t] = job[t]
          /\ job'[s].at = "truncate" /\ job'[s].by = "pretrain"
      BY <2>1 DEF TypeOK, Load, Goto, Set
    <3>2. job[s].at = "pretrain" /\ asked \subseteq asked'
      BY <1>7 DEF FilePretrained
    <3>. QED
      BY <1>7, <3>1, <3>2 DEF FilePretrained, FinalInv, FinalSound, Writing, page
  <2>2. CASE Leave(s) /\ UNCHANGED asked /\ mishaps' = mishaps \cup {"raised"}
    BY <1>7, <2>2 DEF TypeOK, FilePretrained, FinalInv, FinalSound, Writing,
       Leave, Idle, Goto, Set, page
  <2>. QED
    BY <1>7, <2>1, <2>2 DEF FilePretrained
<1>8. ASSUME NEW s \in Sessions, Truncate(s)
      PROVE  FinalInv'
  BY <1>8 DEF TypeOK, FinalInv, FinalSound, Writing, vars, page, ghosts,
     Truncate, Goto, Set
<1>9. ASSUME NEW s \in Sessions, Fill(s)
      PROVE  FinalInv'
  BY <1>9 DEF TypeOK, FinalInv, FinalSound, Writing, vars, page, ghosts, Fill,
     Goto, Set
<1>10. ASSUME NEW s \in Sessions, NEW n \in 0..3, FinishRevision(s, n)
      PROVE  FinalInv'
  BY <1>10 DEF TypeOK, FinalInv, FinalSound, Writing, vars, page, ghosts,
     FinishRevision, Shown, Made, Leave, Idle, Goto, Set
<1>11. ASSUME NEW s \in Sessions, NEW n \in 0..1, FinishPretrain(s, n)
      PROVE  FinalInv'
  <2>1. /\ job[s].at = "filed" /\ job[s].by = "pretrain" /\ UNCHANGED <<final, asked>>
        /\ \A t \in Sessions : t # s => payload'[t] = payload[t]
    BY <1>11 DEF TypeOK, FinishPretrain, Made, Set
  <2>2. /\ DOMAIN job' = Sessions /\ \A t \in Sessions : t # s => job'[t] = job[t]
        /\ job'[s].at = "idle"
    BY <1>11 DEF TypeOK, FinishPretrain, Onward, Idle, Goto, Set
  <2>. QED
    BY <2>1, <2>2 DEF FinalInv, FinalSound, Writing
<1>12. ASSUME NEW s \in Sessions, WriteFails(s)
      PROVE  FinalInv'
  BY <1>12 DEF TypeOK, FinalInv, FinalSound, Writing, vars, page, ghosts,
     WriteFails, Leave, Idle, Goto, Set
<1>13. ASSUME NEW i \in Importers, StartImport(i)
      PROVE  FinalInv'
  BY <1>13 DEF TypeOK, FinalInv, FinalSound, Writing, vars, page, ghosts,
     StartImport
<1>14. ASSUME NEW i \in Importers, NEW key \in importer[i].rest, ImportEntry(i, key)
      PROVE  FinalInv'
  BY <1>14 DEF TypeOK, FinalInv, FinalSound, Writing, vars, page, ghosts,
     ImportEntry
<1>15. ASSUME NEW i \in Importers, EndImport(i)
      PROVE  FinalInv'
  BY <1>15 DEF TypeOK, FinalInv, FinalSound, Writing, vars, page, ghosts, EndImport
<1>16. ASSUME NEW i \in Importers, ImportDies(i)
      PROVE  FinalInv'
  BY <1>16 DEF TypeOK, FinalInv, FinalSound, Writing, vars, page, ghosts, ImportDies
<1>17. CASE ServerDies
  BY <1>17 DEF TypeOK, FinalInv, FinalSound, Writing, vars, page, ghosts,
     ServerDies, NewPages, Fresh, Idle
<1>18. CASE UNCHANGED vars
  BY <1>18 DEF TypeOK, FinalInv, FinalSound, Writing, vars, page, ghosts
<1>. QED
  BY <1>1, <1>2, <1>3, <1>4, <1>5, <1>6, <1>7, <1>8, <1>9, <1>10, <1>11,
     <1>12, <1>13, <1>14, <1>15, <1>16, <1>17, <1>18
     DEF Next, Clicks, Steps, Imports, Rest

\* For any sessions and jobs: a final text is that of the job on the page.
THEOREM FinalBelongs == Spec => []FinalAnswersPayload
<1>1. FinalInv => FinalAnswersPayload
  BY DEF FinalInv, FinalSound, FinalAnswersPayload, ShowsFinal
<1>. QED
  BY <1>1, FinalInit, FinalStep, TypeCorrect, PTL DEF Spec

-----------------------------------------------------------------------------
(* The lexicon file and the targets accepted.                              *)

AtFile(s) == job[s].at \in {"truncate", "fill"}
Undisturbed == mishaps \cap {"overlap", "cut"} = {}

\* One session is at the file, with what was accepted and its own entry to
\* write, and the file is empty only between its two steps.
InStep ==
    /\ \A s, t \in Sessions : AtFile(s) /\ AtFile(t) => s = t
    /\ \A s \in Sessions : AtFile(s) =>
          job[s].store = Entry(job[s].key, job[s].target, accepted)
    /\ (\E s \in Sessions : job[s].at = "fill") => lexicon = Torn
    /\ (\A s \in Sessions : job[s].at # "fill") => lexicon = accepted

LexInv == Undisturbed => InStep

\* At first the file and the record of what was filed are empty.
LEMMA LexInit == Init => LexInv
BY DEF Init, LexInv, InStep, AtFile, Fresh, Idle

\* A step of a session outside the file, or out of it for good.
Elsewhere(s) ==
    /\ DOMAIN job' = Sessions
    /\ \A t \in Sessions : t # s => job'[t] = job[t]
    /\ job'[s].at \notin {"truncate", "fill"}
    /\ UNCHANGED <<lexicon, accepted>> /\ mishaps \subseteq mishaps'
    /\ job[s].at = "fill" => "cut" \in mishaps'

\* A step away from the file leaves it in step.
LEMMA ElsewhereStep ==
    ASSUME LexInv, NEW s \in Sessions, Elsewhere(s)
    PROVE  LexInv'
<1>1. Undisturbed' => Undisturbed /\ job[s].at # "fill"
  BY DEF Elsewhere, Undisturbed
<1>. QED
  BY <1>1 DEF LexInv, InStep, AtFile, Elsewhere

\* A session reads the file to write it.
Enters(s, key, target) ==
    /\ DOMAIN job' = Sessions
    /\ \A t \in Sessions : t # s => job'[t] = job[t]
    /\ job'[s].at = "truncate" /\ job'[s].key = key /\ job'[s].target = target
    /\ job'[s].store = Entry(key, target, lexicon)
    /\ ~AtFile(s) /\ lexicon # Torn
    /\ UNCHANGED <<lexicon, accepted>> /\ mishaps \subseteq mishaps'
    /\ (\E t \in Sessions \ {s} : AtFile(t)) => "overlap" \in mishaps'

\* A session that has read the file undisturbed holds the newest one.
LEMMA EntersStep ==
    ASSUME LexInv, NEW s \in Sessions, NEW key, NEW target, Enters(s, key, target)
    PROVE  LexInv'
<1>1. Undisturbed' => Undisturbed /\ \A t \in Sessions \ {s} : ~AtFile(t)
  BY DEF Enters, Undisturbed
<1>2. Undisturbed => lexicon = accepted
  BY DEF LexInv, InStep, Enters
<1>. QED
  BY <1>1, <1>2 DEF LexInv, InStep, AtFile, Enters

\* Every step keeps the file in step while no two sessions meet there.
LEMMA LexStep ==
    ASSUME TypeOK, TypeOK', LexInv, [Next]_vars
    PROVE  LexInv'
<1>1. ASSUME NEW s \in Sessions, NEW form \in Forms, NEW n \in 1..6,
             RunLocal(s, form, n)
      PROVE  LexInv'
  <2>1. Elsewhere(s)
    BY <1>1 DEF TypeOK, Elsewhere, AtFile, stores, RunLocal, Onward, Click,
       Idle, Goto, Set
  <2>. QED
    BY <2>1, ElsewhereStep
<1>2. ASSUME NEW s \in Sessions, NEW form \in Forms, NEW n \in 1..4,
             RunPretrain(s, form, n)
      PROVE  LexInv'
  <2>1. Elsewhere(s)
    BY <1>2 DEF TypeOK, Elsewhere, AtFile, stores, RunPretrain, Onward,
       Click, Idle, Goto, Set
  <2>. QED
    BY <2>1, ElsewhereStep
<1>3. ASSUME NEW s \in Sessions, NEW n \in 1..3, Confirm(s, n)
      PROVE  LexInv'
  BY <1>3 DEF TypeOK, LexInv, InStep, AtFile, Undisturbed, vars, stores,
     ghosts, Confirm
<1>4. ASSUME NEW s \in Sessions, ClickRevise(s)
      PROVE  LexInv'
  BY <1>4 DEF TypeOK, LexInv, InStep, AtFile, Undisturbed, vars, stores,
     ghosts, ClickRevise
<1>5. ASSUME NEW s \in Sessions, NEW form \in Forms, NEW text \in Revisions,
                 SubmitRevision(s, text, TopicValue(form))
      PROVE  LexInv'
  <2>1. CASE Load(s, Key(s, TopicValue(form)), text, "revise")
    <3>1. Enters(s, Key(s, TopicValue(form)), text)
      BY <1>5, <2>1 DEF Enters, AtFile, TypeOK, Load, Revised, Overlaps,
         Goto, Set, stores, SubmitRevision, Click, Idle
    <3>. QED
      BY <3>1, EntersStep
  <2>2. CASE UNCHANGED <<job, mishaps>>
    BY <1>5, <2>2 DEF SubmitRevision, LexInv, InStep, AtFile, Undisturbed, stores
  <2>. QED
    BY <1>5, <2>1, <2>2 DEF SubmitRevision
<1>6. ASSUME NEW s \in Sessions, NEW a, NEW b, NEW n \in 0..2,
             FinishLocal(s, a, b, n)
      PROVE  LexInv'
  <2>1. Elsewhere(s)
    BY <1>6 DEF TypeOK, Elsewhere, AtFile, stores, FinishLocal,
       Onward, Idle, Goto, Set
  <2>. QED
    BY <2>1, ElsewhereStep
<1>7. ASSUME NEW s \in Sessions, NEW a, NEW b, FilePretrained(s, a, b)
      PROVE  LexInv'
  <2>1. CASE Load(s, job[s].key, FinalText(a, b), "pretrain")
    <3>1. Enters(s, job[s].key, FinalText(a, b))
      BY <1>7, <2>1 DEF Enters, AtFile, TypeOK, Load, Revised, Overlaps,
         Goto, Set, stores, FilePretrained
    <3>. QED
      BY <3>1, EntersStep
  <2>2. CASE Leave(s) /\ UNCHANGED asked /\ mishaps' = mishaps \cup {"raised"}
    <3>1. Elsewhere(s)
      BY <1>7, <2>2 DEF TypeOK, Elsewhere, AtFile, FilePretrained, Leave,
         Idle, Goto, Set, stores
    <3>. QED
      BY <3>1, ElsewhereStep
  <2>. QED
    BY <1>7, <2>1, <2>2 DEF FilePretrained
<1>8. ASSUME NEW s \in Sessions, Truncate(s)
      PROVE  LexInv'
  <2>1. /\ DOMAIN job' = Sessions /\ \A t \in Sessions : t # s => job'[t] = job[t]
        /\ job'[s].at = "fill" /\ job'[s].key = job[s].key
        /\ job'[s].target = job[s].target /\ job'[s].store = job[s].store
    BY <1>8 DEF TypeOK, Truncate, Goto, Set
  <2>2. /\ lexicon' = Torn /\ accepted' = accepted /\ mishaps \subseteq mishaps'
        /\ job[s].at = "truncate"
    BY <1>8 DEF Truncate, ghosts
  <2>3. Undisturbed' => Undisturbed
    BY <2>2 DEF Undisturbed
  <2>. QED
    BY <2>1, <2>2, <2>3 DEF LexInv, InStep, AtFile
<1>9. ASSUME NEW s \in Sessions, Fill(s)
      PROVE  LexInv'
  <2>1. /\ DOMAIN job' = Sessions /\ \A t \in Sessions : t # s => job'[t] = job[t]
        /\ job'[s].at = "filed"
    BY <1>9 DEF TypeOK, Fill, Goto, Set
  <2>2. /\ accepted' = Entry(job[s].key, job[s].target, accepted)
        /\ lexicon' = job[s].store \/ (lexicon # Torn /\ lexicon' = Torn)
        /\ mishaps \subseteq mishaps' /\ job[s].at = "fill"
    BY <1>9 DEF Fill
  <2>3. Undisturbed' => Undisturbed
    BY <2>2 DEF Undisturbed
  <2>. QED
    BY <2>1, <2>2, <2>3 DEF LexInv, InStep, AtFile
<1>10. ASSUME NEW s \in Sessions, NEW n \in 0..3, FinishRevision(s, n)
      PROVE  LexInv'
  <2>1. Elsewhere(s)
    BY <1>10 DEF TypeOK, Elsewhere, AtFile, stores, ghosts, FinishRevision,
       Leave, Idle, Goto, Set
  <2>. QED
    BY <2>1, ElsewhereStep
<1>11. ASSUME NEW s \in Sessions, NEW n \in 0..1, FinishPretrain(s, n)
      PROVE  LexInv'
  <2>1. Elsewhere(s)
    BY <1>11 DEF TypeOK, Elsewhere, AtFile, stores, FinishPretrain,
       Onward, Idle, Goto, Set
  <2>. QED
    BY <2>1, ElsewhereStep
<1>12. ASSUME NEW s \in Sessions, WriteFails(s)
      PROVE  LexInv'
  <2>1. Elsewhere(s)
    BY <1>12 DEF TypeOK, Elsewhere, AtFile, WriteFails, Leave, Idle, Goto,
       Set, stores
  <2>. QED
    BY <2>1, ElsewhereStep
<1>13. ASSUME NEW i \in Importers, StartImport(i)
      PROVE  LexInv'
  BY <1>13 DEF TypeOK, LexInv, InStep, AtFile, Undisturbed, vars, stores,
     ghosts, StartImport
<1>14. ASSUME NEW i \in Importers, NEW key \in importer[i].rest, ImportEntry(i, key)
      PROVE  LexInv'
  BY <1>14 DEF TypeOK, LexInv, InStep, AtFile, Undisturbed, vars, stores,
     ghosts, ImportEntry
<1>15. ASSUME NEW i \in Importers, EndImport(i)
      PROVE  LexInv'
  BY <1>15 DEF TypeOK, LexInv, InStep, AtFile, Undisturbed, vars, stores,
     ghosts, EndImport
<1>16. ASSUME NEW i \in Importers, ImportDies(i)
      PROVE  LexInv'
  BY <1>16 DEF TypeOK, LexInv, InStep, AtFile, Undisturbed, vars, stores,
     ghosts, ImportDies
<1>17. CASE ServerDies
  <2>1. /\ \A t \in Sessions : job'[t].at = "idle"
        /\ UNCHANGED <<lexicon, accepted>> /\ mishaps \subseteq mishaps'
        /\ (\E t \in Sessions : job[t].at = "fill") => "cut" \in mishaps'
    BY <1>17 DEF ServerDies, NewPages, Fresh, Idle, stores
  <2>2. Undisturbed' => Undisturbed /\ \A t \in Sessions : job[t].at # "fill"
    BY <2>1 DEF Undisturbed
  <2>. QED
    BY <2>1, <2>2 DEF LexInv, InStep, AtFile
<1>18. CASE UNCHANGED vars
  BY <1>18 DEF TypeOK, LexInv, InStep, AtFile, Undisturbed, vars, stores, ghosts
<1>. QED
  BY <1>1, <1>2, <1>3, <1>4, <1>5, <1>6, <1>7, <1>8, <1>9, <1>10, <1>11,
     <1>12, <1>13, <1>14, <1>15, <1>16, <1>17, <1>18
     DEF Next, Clicks, Steps, Imports, Rest

\* For any sessions: the file holds the last target of every key.
THEOREM LexiconKept == Spec => []LexiconInStep
<1>1. LexInv => LexiconInStep
  BY DEF LexInv, InStep, Undisturbed, LexiconInStep
<1>. QED
  BY <1>1, LexInit, LexStep, TypeCorrect, PTL DEF Spec

-----------------------------------------------------------------------------
(* The migration.                                                          *)

\* What an import has read and has not left to do is in the database.
Imported(i) ==
    importer[i].at \in {"import", "done"} =>
        /\ importer[i].at = "done" => importer[i].rest = {}
        /\ \A key \in DOMAIN importer[i].read \ importer[i].rest :
              /\ key \in DOMAIN table
              /\ importer[i].alone => table[key] = importer[i].read[key]

ImportInv == \A i \in Importers : Imported(i)

\* At first no import has begun.
LEMMA ImportInit == Init => ImportInv
BY DEF Init, ImportInv, Imported, NoImport

\* Every step keeps what the imports have brought over.
LEMMA ImportStep ==
    ASSUME TypeOK, TypeOK', ImportInv, [Next]_vars
    PROVE  ImportInv'
<1>0. UNCHANGED <<table, importer>> => ImportInv'
  BY DEF ImportInv, Imported
<1>1. ASSUME NEW s \in Sessions, NEW form \in Forms, NEW n \in 1..6,
             RunLocal(s, form, n)
      PROVE  ImportInv'
  BY <1>0, <1>1 DEF stores, RunLocal
<1>2. ASSUME NEW s \in Sessions, NEW form \in Forms, NEW n \in 1..4,
             RunPretrain(s, form, n)
      PROVE  ImportInv'
  BY <1>0, <1>2 DEF stores, RunPretrain
<1>3. ASSUME NEW s \in Sessions, NEW n \in 1..3, Confirm(s, n)
      PROVE  ImportInv'
  BY <1>0, <1>3 DEF stores, Confirm
<1>4. ASSUME NEW s \in Sessions, ClickRevise(s)
      PROVE  ImportInv'
  BY <1>0, <1>4 DEF stores, ClickRevise
<1>5. ASSUME NEW s \in Sessions, NEW form \in Forms, NEW text \in Revisions,
                 SubmitRevision(s, text, TopicValue(form))
      PROVE  ImportInv'
  BY <1>0, <1>5 DEF stores, SubmitRevision
<1>6. ASSUME NEW s \in Sessions, NEW a, NEW b, NEW n \in 0..2,
             FinishLocal(s, a, b, n)
      PROVE  ImportInv'
  BY <1>0, <1>6 DEF stores, FinishLocal
<1>7. ASSUME NEW s \in Sessions, NEW a, NEW b, FilePretrained(s, a, b)
      PROVE  ImportInv'
  BY <1>0, <1>7 DEF stores, FilePretrained
<1>8. ASSUME NEW s \in Sessions, Truncate(s)
      PROVE  ImportInv'
  BY <1>0, <1>8 DEF stores, Truncate
<1>9. ASSUME NEW s \in Sessions, Fill(s)
      PROVE  ImportInv'
  BY <1>0, <1>9 DEF stores, Fill
<1>10. ASSUME NEW s \in Sessions, NEW n \in 0..3, FinishRevision(s, n)
      PROVE  ImportInv'
  BY <1>0, <1>10 DEF stores, FinishRevision
<1>11. ASSUME NEW s \in Sessions, NEW n \in 0..1, FinishPretrain(s, n)
      PROVE  ImportInv'
  BY <1>0, <1>11 DEF stores, FinishPretrain
<1>12. ASSUME NEW s \in Sessions, WriteFails(s)
      PROVE  ImportInv'
  BY <1>0, <1>12 DEF stores, WriteFails
<1>13. ASSUME NEW i \in Importers, StartImport(i)
      PROVE  ImportInv'
  BY <1>13 DEF TypeOK, ImportInv, Imported, vars, stores, StartImport, Set, stores
<1>14. ASSUME NEW i \in Importers, NEW key \in importer[i].rest, ImportEntry(i, key)
      PROVE  ImportInv'
  <2>. DEFINE target == importer[i].read[key]
  <2>1. /\ table' = Entry(key, target, table)
        /\ key \in importer[i].rest /\ importer[i].at = "import"
    BY <1>14 DEF ImportEntry, Upserted
  <2>2. /\ DOMAIN table' = DOMAIN table \cup {key}
        /\ table'[key] = target
        /\ \A k \in DOMAIN table : k # key => table'[k] = table[k]
    <3>. HIDE DEF target
    <3>. QED  BY <2>1 DEF Entry
  <2>3. \A k \in Importers :
           /\ importer'[k].at = importer[k].at /\ importer'[k].read = importer[k].read
           /\ importer'[k].rest = IF k = i THEN importer[k].rest \ {key} ELSE importer[k].rest
           /\ importer'[k].alone = IF k = i THEN importer[k].alone ELSE FALSE
    BY <1>14 DEF ImportEntry
  <2>4. ASSUME NEW k \in Importers  PROVE  Imported(k)'
    <3>1. CASE k = i
      <4>1. ASSUME NEW n \in DOMAIN importer[i].read \ (importer[i].rest \ {key})
            PROVE  /\ n \in DOMAIN table'
                   /\ importer[i].alone => table'[n] = importer[i].read[n]
        BY <2>1, <2>2 DEF ImportInv, Imported
      <4>. QED
        BY <2>1, <2>3, <3>1, <4>1 DEF Imported
    <3>2. CASE k # i
      BY <2>1, <2>2, <2>3, <3>2 DEF ImportInv, Imported, TypeOK
    <3>. QED
      BY <3>1, <3>2
  <2>. QED
    BY <2>4 DEF ImportInv
<1>15. ASSUME NEW i \in Importers, EndImport(i)
      PROVE  ImportInv'
  BY <1>15 DEF TypeOK, ImportInv, Imported, vars, stores, EndImport, Set, stores
<1>16. ASSUME NEW i \in Importers, ImportDies(i)
      PROVE  ImportInv'
  BY <1>16 DEF TypeOK, ImportInv, Imported, vars, stores, ImportDies,
     NoImport, Set, stores
<1>17. CASE ServerDies
  BY <1>17 DEF TypeOK, ImportInv, Imported, vars, stores, ServerDies
<1>18. CASE UNCHANGED vars
  BY <1>18 DEF TypeOK, ImportInv, Imported, vars, stores
<1>. QED
  BY <1>1, <1>2, <1>3, <1>4, <1>5, <1>6, <1>7, <1>8, <1>9, <1>10, <1>11,
     <1>12, <1>13, <1>14, <1>15, <1>16, <1>17, <1>18
     DEF Next, Clicks, Steps, Imports, Rest

\* For any importers and entries: an import that has ended is complete.
THEOREM ImportsDone == Spec => []ImportsComplete
<1>1. ImportInv => ImportsComplete
  BY DEF ImportInv, Imported, ImportsComplete
<1>. QED
  BY <1>1, ImportInit, ImportStep, TypeCorrect, PTL DEF Spec

-----------------------------------------------------------------------------
(* The audit.                                                              *)

\* A candidate that says something.
Says(x) == x.ok /\ x.text # NoText

\* Two lists of one.
LEMMA OneAndOne ==
    ASSUME NEW c, NEW d
    PROVE  <<c>> \o <<d>> = <<c, d>>
<1>1. PICK s, t : s = <<c>> /\ t = <<d>>
  OBVIOUS
<1>2. s \in Seq({c, d}) /\ t \in Seq({c, d}) /\ Len(s) = 1 /\ Len(t) = 1
  BY <1>1
<1>3. s[1] = c /\ t[1] = d
  BY <1>1
<1>4. /\ s \o t \in Seq({c, d}) /\ Len(s \o t) = Len(s) + Len(t)
      /\ \A i \in 1..(Len(s) + Len(t)) :
            (s \o t)[i] = IF i <= Len(s) THEN s[i] ELSE t[i - Len(s)]
  BY <1>2, ConcatProperties
<1>5. Len(s \o t) = 2 /\ (s \o t)[1] = c /\ (s \o t)[2] = d
  <2>1. 2 - Len(s) = 1 /\ 1 <= Len(s) /\ ~(2 <= Len(s))
    BY <1>2
  <2>2. 1 \in 1..(Len(s) + Len(t)) /\ 2 \in 1..(Len(s) + Len(t)) /\ Len(s) + Len(t) = 2
    BY <1>2
  <2>3. (s \o t)[1] = s[1]
    BY <1>4, <2>1, <2>2
  <2>4. (s \o t)[2] = t[2 - Len(s)]
    BY <1>4, <2>1, <2>2
  <2> QED
    BY <1>3, <1>4, <2>1, <2>2, <2>3, <2>4
<1>6. PICK r : r = s \o t
  OBVIOUS
<1>7. r \in Seq({c, d}) /\ Len(r) = 2 /\ r[1] = c /\ r[2] = d
  BY <1>4, <1>5, <1>6
<1>8. r = <<c, d>>
  BY <1>7
<1> QED
  BY <1>1, <1>6, <1>8

\* Something of a list is kept.
LEMMA SomeKept ==
    ASSUME NEW s, NEW I, IsFiniteSet(I), I # {}
    PROVE  Kept(s, I) \o <<>> \o <<>> # <<>>
<1>1. PICK n \in Nat : n = Cardinality(I) /\ n # 0
  BY FS_CardinalityType, FS_EmptySet
<1>2. PICK k : k = Kept(s, I)
  OBVIOUS
<1>3. k = [i \in 1..n |-> k[i]]
  BY <1>1, <1>2 DEF Kept
<1>4. PICK S : S = {k[i] : i \in 1..n}
  OBVIOUS
<1>5. k \in Seq(S) /\ Len(k) = n
  BY <1>3, <1>4
<1>6. PICK e : e = <<>>
  OBVIOUS
<1>7. e \in Seq(S) /\ Len(e) = 0
  BY <1>6
<1>8. k \o e \in Seq(S) /\ Len(k \o e) = n
  BY <1>5, <1>7, ConcatProperties
<1>9. Len((k \o e) \o e) = n
  BY <1>7, <1>8, ConcatProperties
<1>. QED
  BY <1>1, <1>2, <1>6, <1>7, <1>9

\* The audit hears an engine that says something.
LEMMA AuditHears ==
    ASSUME NEW text, NEW a, NEW b, Says(a) \/ Says(b)
    PROVE  Audit(text, a, b).status = "agent-consensus-audit"
<1>1. PICK c : c = [id |-> "legacy-engine-a", text |-> a.text, conf |-> ConfidenceA,
                    kind |-> "local", hits |-> 0, mock |-> FALSE]
  OBVIOUS
<1>2. PICK d : d = [id |-> "legacy-engine-b", text |-> b.text, conf |-> ConfidenceB,
                    kind |-> "local", hits |-> 0, mock |-> FALSE]
  OBVIOUS
<1>3. PICK said : said = (IF a.ok THEN <<c>> ELSE <<>>) \o (IF b.ok THEN <<d>> ELSE <<>>)
  OBVIOUS
<1>4. PICK task : task =
           [source |-> text, glossary |-> NoText, memory |-> NoText,
            glossaryHits |-> 0, terms |-> {}, entities |-> FALSE,
            topicMatch |-> Least((100 * Tags(text)) \div 3, 100), coverage |-> 0,
            spent |-> 0, limit |-> 100, rounds |-> 1, markers |-> 0,
            candidates |-> said]
  OBVIOUS
<1>5. Collected(task) # <<>> => Audit(text, a, b).status = "agent-consensus-audit"
  BY <1>1, <1>2, <1>3, <1>4 DEF Audit, Heard
<1>6. PICK I : I = {k \in DOMAIN said : said[k].text # NoText}
  OBVIOUS
<1>7. Collected(task) = Kept(said, I) \o <<>> \o <<>>
  BY <1>4, <1>6 DEF Collected
<1>8. c.text = a.text /\ d.text = b.text
  BY <1>1, <1>2
<1>9. DOMAIN said \in {{1}, {1, 2}} /\ I # {}
  <2>1. CASE a.ok /\ b.ok
    <3>1. said = <<c, d>>
      BY <1>3, <2>1, OneAndOne
    <3>2. said[1] = c /\ said[2] = d /\ DOMAIN said = {1, 2}
      BY <3>1
    <3>. QED
      BY <1>6, <1>8, <3>2 DEF Says
  <2>2. CASE a.ok /\ ~b.ok
    <3>1. said = <<c>>
      BY <1>3, <2>2
    <3>2. said[1] = c /\ DOMAIN said = {1}
      BY <3>1
    <3>. QED
      BY <1>6, <1>8, <2>2, <3>2 DEF Says
  <2>3. CASE ~a.ok /\ b.ok
    <3>1. said = <<d>>
      BY <1>3, <2>3
    <3>2. said[1] = d /\ DOMAIN said = {1}
      BY <3>1
    <3>. QED
      BY <1>6, <1>8, <2>3, <3>2 DEF Says
  <2>. QED
    BY <2>1, <2>2, <2>3 DEF Says
<1>10. IsFiniteSet(I)
  <2>1. IsFiniteSet({1}) /\ IsFiniteSet({1} \cup {2})
    BY FS_Singleton, FS_AddElement
  <2>2. {1, 2} = {1} \cup {2}
    OBVIOUS
  <2>. QED
    BY <1>6, <1>9, <2>1, <2>2, FS_Subset
<1>. QED
  BY <1>5, <1>7, <1>9, <1>10, SomeKept

\* A text of the job is one that an engine said, or a merger of two.
LEMMA SomeoneSays ==
    ASSUME NEW a, NEW b, ~BothFailed(a, b), FinalText(a, b) # NoText
    PROVE  Says(a) \/ Says(b)
<1>1. Preferred = "left"
  BY DEF Preferred, ScoreA, ScoreB, EngineScore, ConfidenceA, ConfidenceB
<1>2. CASE a.ok /\ b.ok /\ a.text = NoText /\ b.text = NoText
  <2>1. Merge(NoText, NoText) = NoText
    <3>1. Len(<<>>) = 0 /\ Greatest(0, 0) = 0
      BY DEF Greatest
    <3>. QED
      BY <3>1 DEF Merge, NoText
  <2>. QED
    BY <1>2, <2>1 DEF FinalText, WinnerText
<1>3. CASE a.ok /\ b.ok /\ (a.text # NoText \/ b.text # NoText)
  BY <1>3 DEF Says
<1>4. CASE ~(a.ok /\ b.ok)
  BY <1>1, <1>4 DEF FinalText, WinnerText, WinnerSide, Duplicate, BothFailed, Says
<1>. QED
  BY <1>2, <1>3, <1>4

\* What run_local_job_safe hands to the page.
AuditedPayload(p) == p.text # NoText => p.audit = "agent-consensus-audit"

\* The job hands over an audited text, or its failure with an error.
LEMMA RunAudited ==
    ASSUME NEW key, NEW a, NEW b
    PROVE  \/ AuditedPayload(RunSafe(key, a, b).payload)
           \/ /\ RunSafe(key, a, b).payload.text = FailureText
              /\ RunSafe(key, a, b).failed = TRUE
<1>1. CASE BothFailed(a, b)
  BY <1>1 DEF RunSafe, Payload
<1>2. CASE ~BothFailed(a, b)
  <2>1. PICK text, status : text = FinalText(a, b) /\ status = Audit(key[2], a, b).status
    OBVIOUS
  <2>2. RunSafe(key, a, b).payload = Payload(key, text, status)
    BY <1>2, <2>1 DEF RunSafe, LocalResult
  <2>3. text # NoText => status = "agent-consensus-audit"
    BY <1>2, <2>1, SomeoneSays, AuditHears
  <2>. QED
    BY <2>2, <2>3 DEF AuditedPayload, Payload
<1>. QED
  BY <1>1, <1>2

\* A job runs that will replace the payload.
InRun(s) == job[s].at \in {"local", "pretrain"} \/ (Writing(s) /\ job[s].by = "pretrain")

\* A text on the page is audited; the failure text has its error beside it,
\* but for the time of the job that will replace it.
Accounted(s) ==
    \/ AuditedPayload(payload[s])
    \/ payload[s].text = FailureText /\ (failed[s] \/ InRun(s))

Steady == mishaps \cap {"interrupted", "raised"} = {}

AuditInv == Steady => \A s \in Sessions : Accounted(s)

\* A step of one session that leaves it accounted for.
LEMMA AccountedStep ==
    ASSUME AuditInv, NEW s \in Sessions, mishaps \subseteq mishaps',
           \A t \in Sessions \ {s} : /\ payload'[t] = payload[t] /\ failed'[t] = failed[t]
                                     /\ job'[t] = job[t],
           (Steady /\ Steady') => Accounted(s)'
    PROVE  AuditInv'
<1>1. Steady' => Steady
  BY DEF Steady
<1>. QED
  BY <1>1 DEF AuditInv, Accounted, InRun, Writing

\* A step that leaves the page's payload and error, and the kind of the job.
LEMMA AccountedStays ==
    ASSUME AuditInv, UNCHANGED <<payload, failed>>, mishaps \subseteq mishaps',
           NEW s \in Sessions, \A t \in Sessions \ {s} : job'[t] = job[t],
           Steady' => (InRun(s) => InRun(s)')
    PROVE  AuditInv'
<1>1. (Steady /\ Steady') => Accounted(s)'
  BY DEF AuditInv, Accounted, AuditedPayload
<1>. QED
  BY <1>1, AccountedStep

\* A job that is begun will replace the payload; one that is stopped is not
\* spoken of.
LEMMA AccountedRuns ==
    ASSUME TypeOK, AuditInv, NEW s \in Sessions, NEW m \in Int, Cleared(s, m),
           NEW whole \in BOOLEAN, NEW at \in {"local", "pretrain"},
           \E key : Onward(s, whole, [at |-> at, key |-> key]), UNCHANGED payload
    PROVE  AuditInv'
<1>1. PICK key : Onward(s, whole, [at |-> at, key |-> key])
  OBVIOUS
<1>2. /\ \A t \in Sessions : t # s => job'[t] = job[t]
      /\ whole => job'[s].at = at
      /\ ~whole => "interrupted" \in mishaps'
      /\ mishaps \subseteq mishaps'
  BY <1>1, OnwardStep DEF TypeOK
<1>3. \A t \in Sessions : t # s => failed'[t] = failed[t]
  BY ClearedStep
<1>4. ASSUME Steady, Steady' PROVE Accounted(s)'
  <2>1. whole
    BY <1>2, <1>4 DEF Steady
  <2>2. InRun(s)'
    BY <1>2, <2>1 DEF InRun
  <2>. QED
    BY <1>4, <2>2 DEF AuditInv, Accounted, AuditedPayload
<1>. QED
  BY <1>2, <1>3, <1>4, AccountedStep

\* Every step keeps the texts on the page accounted for.
LEMMA AuditStep ==
    ASSUME TypeOK, TypeOK', AuditInv, [Next]_vars
    PROVE  AuditInv'
<1>1. ASSUME NEW s \in Sessions, NEW form \in Forms, NEW n \in 1..6,
             RunLocal(s, form, n)
      PROVE  AuditInv'
  <2>1. /\ Cleared(s, n - 2) /\ UNCHANGED payload
        /\ \E key : Onward(s, n = 6, [at |-> "local", key |-> key])
    BY <1>1 DEF RunLocal
  <2>2. PICK m \in Int, whole \in BOOLEAN, at \in {"local", "pretrain"} :
           /\ Cleared(s, m)
           /\ \E key : Onward(s, whole, [at |-> at, key |-> key])
    <3>1. n - 2 \in Int /\ (n = 6) \in BOOLEAN /\ "local" \in {"local", "pretrain"}
      OBVIOUS
    <3>. QED
      BY <2>1, <3>1, Zenon
  <2>. QED
    BY <2>1, <2>2, AccountedRuns
<1>2. ASSUME NEW s \in Sessions, NEW form \in Forms, NEW n \in 1..4,
             RunPretrain(s, form, n)
      PROVE  AuditInv'
  <2>1. /\ Cleared(s, n) /\ UNCHANGED payload
        /\ \E key : Onward(s, n = 4, [at |-> "pretrain", key |-> key])
    BY <1>2 DEF RunPretrain
  <2>2. PICK m \in Int, whole \in BOOLEAN, at \in {"local", "pretrain"} :
           /\ Cleared(s, m)
           /\ \E key : Onward(s, whole, [at |-> at, key |-> key])
    <3>1. n \in Int /\ (n = 4) \in BOOLEAN /\ "pretrain" \in {"local", "pretrain"}
      OBVIOUS
    <3>. QED
      BY <2>1, <3>1, Zenon
  <2>. QED
    BY <2>1, <2>2, AccountedRuns
<1>3. ASSUME UNCHANGED <<payload, failed, job, mishaps>> PROVE AuditInv'
  BY <1>3 DEF AuditInv, Steady, Accounted, AuditedPayload, InRun, Writing
<1>4. ASSUME NEW s \in Sessions, NEW form \in Forms, NEW text \in Revisions,
             SubmitRevision(s, text, TopicValue(form))
      PROVE  AuditInv'
  <2>1. CASE Load(s, Key(s, TopicValue(form)), text, "revise")
    <3>1. /\ \A t \in Sessions : t # s => job'[t] = job[t]
          /\ mishaps \subseteq mishaps'
      BY <2>1, LoadStep DEF TypeOK
    <3>2. UNCHANGED <<payload, failed>> /\ ~InRun(s)
      BY <1>4 DEF SubmitRevision, Click, Idle, page, InRun, Writing
    <3>. QED
      BY <3>1, <3>2, AccountedStays
  <2>2. CASE UNCHANGED <<job, mishaps>>
    BY <1>3, <1>4, <2>2 DEF SubmitRevision, page
  <2>. QED
    BY <1>4, <2>1, <2>2 DEF SubmitRevision
<1>5. ASSUME NEW s \in Sessions, NEW a, NEW b, NEW n \in 0..2, FinishLocal(s, a, b, n)
      PROVE  AuditInv'
  <2>1. PICK run : run = RunSafe(job[s].key, a, b)
    OBVIOUS
  <2>2. /\ payload' = Made(1, n, payload, s, run.payload)
        /\ failed' = Made(2, n, failed, s, run.failed)
        /\ Onward(s, n = 2, Idle)
    BY <1>5, <2>1 DEF FinishLocal
  <2>3. \A t \in Sessions \ {s} : /\ payload'[t] = payload[t] /\ failed'[t] = failed[t]
                                  /\ job'[t] = job[t]
    BY <2>2 DEF Made, Set, Onward, Goto
  <2>4. mishaps \subseteq mishaps' /\ (Steady' => n = 2)
    BY <2>2 DEF Onward, Steady
  <2>5. n = 2 => payload'[s] = run.payload /\ failed'[s] = run.failed
    BY <2>2 DEF Made, Set, TypeOK
  <2>6. Steady' => Accounted(s)'
    <3>1. AuditedPayload(run.payload) \/ (run.payload.text = FailureText /\ run.failed)
      BY <2>1, RunAudited
    <3>. QED
      BY <2>4, <2>5, <3>1 DEF Accounted, AuditedPayload
  <2>. QED
    BY <2>3, <2>4, <2>6, AccountedStep
<1>6. ASSUME NEW s \in Sessions, NEW a, NEW b, FilePretrained(s, a, b)
      PROVE  AuditInv'
  <2>1. UNCHANGED <<payload, failed>>
    BY <1>6 DEF FilePretrained, page
  <2>2. CASE Load(s, job[s].key, FinalText(a, b), "pretrain")
    <3>1. /\ \A t \in Sessions : t # s => job'[t] = job[t]
          /\ job'[s].at = "truncate" /\ job'[s].by = "pretrain"
          /\ mishaps \subseteq mishaps'
      BY <2>2, LoadStep DEF TypeOK
    <3>2. InRun(s)'
      BY <3>1 DEF InRun, Writing
    <3>. QED
      BY <2>1, <3>1, <3>2, AccountedStays
  <2>3. CASE Leave(s) /\ mishaps' = mishaps \cup {"raised"}
    <3>1. /\ \A t \in Sessions : t # s => job'[t] = job[t]
          /\ mishaps \subseteq mishaps' /\ ~Steady'
      BY <2>3 DEF Leave, Goto, Set, Steady
    <3>. QED
      BY <2>1, <3>1, AccountedStays
  <2>. QED
    BY <1>6, <2>2, <2>3 DEF FilePretrained
<1>7. ASSUME NEW s \in Sessions, Truncate(s) \/ Fill(s)
      PROVE  AuditInv'
  <2>1. /\ \A t \in Sessions : t # s => job'[t] = job[t]
        /\ job'[s].at \in {"fill", "filed"} /\ job'[s].by = job[s].by
        /\ job[s].at \in {"truncate", "fill"}
    BY <1>7 DEF TypeOK, Truncate, Fill, Goto, Set
  <2>2. UNCHANGED <<payload, failed>> /\ mishaps \subseteq mishaps'
    BY <1>7 DEF Truncate, Fill, page
  <2>3. InRun(s) => InRun(s)'
    BY <2>1 DEF InRun, Writing
  <2>. QED
    BY <2>1, <2>2, <2>3, AccountedStays
<1>8. ASSUME NEW s \in Sessions, WriteFails(s)
      PROVE  AuditInv'
  <2>1. /\ \A t \in Sessions : t # s => job'[t] = job[t]
        /\ job[s].at \in {"truncate", "fill"}
    BY <1>8 DEF WriteFails, Leave, Goto, Set
  <2>2. UNCHANGED <<payload, failed>> /\ mishaps \subseteq mishaps'
    BY <1>8 DEF WriteFails, page
  <2>3. Steady' => ~InRun(s)
    BY <1>8, <2>1 DEF WriteFails, Steady, InRun
  <2>. QED
    BY <2>1, <2>2, <2>3, AccountedStays
<1>9. ASSUME NEW s \in Sessions, NEW n \in 0..3, FinishRevision(s, n)
      PROVE  AuditInv'
  <2>1. /\ \A t \in Sessions : t # s => job'[t] = job[t]
        /\ job[s].at = "filed" /\ job[s].by = "revise"
        /\ UNCHANGED <<payload, failed, mishaps>>
    BY <1>9 DEF FinishRevision, Leave, Goto, Set, ghosts
  <2>2. ~InRun(s)
    BY <2>1 DEF InRun
  <2>. QED
    BY <2>1, <2>2, AccountedStays
<1>10. ASSUME NEW s \in Sessions, NEW n \in 0..1, FinishPretrain(s, n)
       PROVE  AuditInv'
  <2>1. /\ payload' = Made(1, n, payload, s, Bare("pretrain")) /\ UNCHANGED failed
        /\ Onward(s, n = 1, Idle)
    BY <1>10 DEF FinishPretrain
  <2>2. \A t \in Sessions \ {s} : /\ payload'[t] = payload[t] /\ failed'[t] = failed[t]
                                  /\ job'[t] = job[t]
    BY <2>1 DEF Made, Set, Onward, Goto
  <2>3. mishaps \subseteq mishaps' /\ (Steady' => n = 1)
    BY <2>1 DEF Onward, Steady
  <2>4. n = 1 => payload'[s].text = NoText
    BY <2>1 DEF Made, Set, Bare, TypeOK
  <2>5. Steady' => Accounted(s)'
    BY <2>3, <2>4 DEF Accounted, AuditedPayload
  <2>. QED
    BY <2>2, <2>3, <2>5, AccountedStep
<1>11. ASSUME NEW s \in Sessions, Clicks(s)
       PROVE  AuditInv'
  <2>1. ASSUME NEW n \in 1..3, Confirm(s, n) PROVE AuditInv'
    BY <1>3, <2>1 DEF Confirm, ghosts
  <2>2. CASE ClickRevise(s)
    BY <1>3, <2>2 DEF ClickRevise, ghosts
  <2>. QED
    BY <1>1, <1>2, <1>4, <1>11, <2>1, <2>2 DEF Clicks
<1>12. ASSUME NEW s \in Sessions, Steps(s)
       PROVE  AuditInv'
  BY <1>5, <1>6, <1>7, <1>8, <1>9, <1>10, <1>12 DEF Steps
<1>13. ASSUME NEW i \in Importers, Imports(i)
       PROVE  AuditInv'
  BY <1>3, <1>13 DEF Imports, StartImport, ImportEntry, EndImport, ImportDies, page, ghosts
<1>14. CASE ServerDies
  <2>1. \A s \in Sessions : payload'[s].text = NoText
    BY <1>14 DEF ServerDies, NewPages, Fresh, Bare
  <2>. QED
    BY <2>1 DEF AuditInv, Accounted, AuditedPayload
<1>15. CASE UNCHANGED vars
  BY <1>3, <1>15 DEF vars, page, ghosts
<1>. QED
  BY <1>11, <1>12, <1>13, <1>14, <1>15 DEF Next, Rest

\* For any sessions, models and languages: a text that is offered to be
\* confirmed or corrected is one the audit has heard, and never the failure
\* text, unless a job was stopped or a pretrain job raised.
THEOREM OfferedWasHeard == Spec => []OfferedIsAudited
<1>1. Init => AuditInv
  <2>1. Init => \A s \in Sessions : payload[s].text = NoText
    BY DEF Init, Fresh, Bare
  <2>. QED
    BY <2>1 DEF AuditInv, Accounted, AuditedPayload
<1>2. AuditInv => OfferedIsAudited
  <2>1. \A s \in Sessions : Click(s) => ~InRun(s)
    BY DEF Click, Idle, InRun, Writing
  <2>. QED
    BY <2>1 DEF AuditInv, Steady, Accounted, AuditedPayload, OfferedIsAudited, Offers
<1>. QED
  BY <1>1, <1>2, AuditStep, TypeCorrect, PTL DEF Spec

=============================================================================
