----------------------------- MODULE DeskProofs -----------------------------
(***************************************************************************)
(* For any windows, texts, ratings and limits, and whatever overlaps, is   *)
(* cut short or fails: the stores keep their types, the history shows      *)
(* nothing the database does not have, and a run scores as the ratings it  *)
(* read say, which pull the score their way; one more low rating never     *)
(* lets a run decide by itself.  While no two handlers meet at a store and *)
(* none is cut short there: a provider saved with a key has it, the recent *)
(* files are the last ones opened, and the history holds the runs its user *)
(* wants there, each with its last rating.                                 *)
(***************************************************************************)
EXTENDS Desk, SumTheorems

-----------------------------------------------------------------------------
(* What a handler's step does to the handlers in progress.                 *)

\* A step of one window leaves the others where they are.
LEMMA GotoStep ==
    ASSUME NEW w \in Windows, NEW j, DOMAIN job = Windows, Goto(w, j)
    PROVE  /\ DOMAIN job' = Windows
           /\ job'[w] = j
           /\ \A v \in Windows : v # w => job'[v] = job[v]
BY DEF Goto

-----------------------------------------------------------------------------
(* The credentials file.                                                   *)

AtKeys(w) == job[w].at \in {"keyTruncate", "keyFill"}
Filling == \E w \in Windows : job[w].at = "keyFill"

\* The id has been saved with a key, or its key is written and its row next.
Saved(id) ==
    \/ id \in keyed
    \/ \E w \in Windows : job[w].at = "row" /\ job[w].key /\ job[w].id = id

OneAtKeys == \A v, w \in Windows : AtKeys(v) /\ AtKeys(w) => v = w
EmptyWhileFilling == Filling => keys = Torn
KeysHaveSaved == ~Filling => keys # Torn /\ \A id : Saved(id) => id \in keys
SetsHaveSaved ==
    \A w \in Windows : AtKeys(w) => \A id : Saved(id) => id \in job[w].set

KeysInv ==
    /\ DOMAIN job = Windows
    /\ keys = Torn \/ keys \subseteq Providers
    /\ \A w \in Windows :
          AtKeys(w) => job[w].set \subseteq Providers /\ job[w].id \in job[w].set
    /\ "keys" \notin faults =>
          OneAtKeys /\ EmptyWhileFilling /\ KeysHaveSaved /\ SetsHaveSaved

\* Before any handler, nothing is saved.
LEMMA KeysInit == Init => KeysInv
BY DeskAssumption DEF Init, KeysInv, Idle, AtKeys, Filling, Saved, OneAtKeys,
   EmptyWhileFilling, KeysHaveSaved, SetsHaveSaved

\* A step to elsewhere that leaves the file alone.
Elsewhere(w) ==
    /\ DOMAIN job' = Windows
    /\ \A v \in Windows : v # w => job'[v] = job[v]
    /\ job'[w].at \notin {"keyTruncate", "keyFill"}
    /\ job'[w].at = "row" => job'[w].key = FALSE
    /\ UNCHANGED <<keys, keyed>> /\ faults \subseteq faults'
    /\ job[w].at = "keyFill" => "keys" \in faults'

\* A step that is not at the credentials file keeps the invariant.
LEMMA KeysElsewhere ==
    ASSUME KeysInv, NEW w \in Windows, Elsewhere(w)
    PROVE  KeysInv'
<1> USE DEF Elsewhere
<1>1. /\ DOMAIN job' = Windows
      /\ \A v \in Windows : v # w => job'[v] = job[v]
  OBVIOUS
<1>2. \A v \in Windows : AtKeys(v)' => v # w /\ AtKeys(v) /\ job'[v] = job[v]
  BY <1>1 DEF AtKeys
<1>3. \A id : Saved(id)' => Saved(id)
  BY <1>1 DEF Saved
<1>4. ASSUME "keys" \notin faults'
      PROVE  OneAtKeys' /\ EmptyWhileFilling' /\ KeysHaveSaved' /\ SetsHaveSaved'
  <2>1. "keys" \notin faults /\ job[w].at # "keyFill"
    BY <1>4
  <2>2. Filling' <=> Filling
    BY <1>1, <2>1 DEF Filling
  <2> QED
    BY <1>2, <1>3, <2>1, <2>2
    DEF KeysInv, OneAtKeys, EmptyWhileFilling, KeysHaveSaved, SetsHaveSaved
<1> QED
  BY <1>1, <1>2, <1>4 DEF KeysInv

\* A step that changes nothing the credentials file depends on.
LEMMA KeysUntouched ==
    ASSUME KeysInv, UNCHANGED <<keys, keyed, job>>, faults \subseteq faults'
    PROVE  KeysInv'
BY DEF KeysInv, AtKeys, Filling, Saved, OneAtKeys, EmptyWhileFilling,
   KeysHaveSaved, SetsHaveSaved

\* Without a fault nobody else was at the file.
LEMMA AloneAtKeys ==
    ASSUME NEW w \in Windows, Meets(w, "keys", {"keyTruncate", "keyFill"})
    PROVE  /\ faults \subseteq faults'
           /\ "keys" \notin faults' =>
                 "keys" \notin faults /\ \A v \in Windows \ {w} : ~AtKeys(v)
BY DEF Meets, Busy, AtKeys

\* Saving a provider begins: its key is added to those read.
LEMMA KeysSaveProvider ==
    ASSUME KeysInv, NEW w \in Windows, NEW form \in ProviderForms,
           SaveProvider(w, form)
    PROVE  KeysInv'
<1>0. job[w].at = "idle" /\ UNCHANGED <<keys, keyed>>
  BY DEF SaveProvider, Call, Works, Idle, files
<1>1. CASE ~form.key
  <2>1. Goto(w, [at |-> "row", id |-> form.id, key |-> FALSE, on |-> form.on])
        /\ UNCHANGED faults
    BY <1>1 DEF SaveProvider
  <2>2. DOMAIN job = Windows
    BY DEF KeysInv
  <2>3. Elsewhere(w)
    BY <1>0, <2>1, <2>2 DEF Goto, Elsewhere
  <2> QED BY <2>3, KeysElsewhere
<1>2. CASE form.key /\ keys = Torn
  BY <1>0, <1>2, KeysUntouched, AloneAtKeys DEF SaveProvider
<1>3. CASE form.key /\ keys # Torn
  <2> DEFINE j == [at |-> "keyTruncate", id |-> form.id, on |-> form.on,
                   set |-> WithKey(form.id)]
  <2>1. Goto(w, j) /\ Meets(w, "keys", {"keyTruncate", "keyFill"})
    BY <1>3 DEF SaveProvider
  <2>2. /\ DOMAIN job' = Windows
        /\ job'[w] = j
        /\ \A v \in Windows : v # w => job'[v] = job[v]
    BY <2>1, GotoStep DEF KeysInv
  <2>3. form.id \in Providers
    BY DeskAssumption
  <2>4. j.set = keys \cup {form.id} /\ j.set \subseteq Providers /\ form.id \in j.set
    BY <1>3, <2>3 DEF KeysInv, WithKey
  <2>5. \A id : Saved(id)' <=> Saved(id)
    BY <1>0, <2>2 DEF Saved
  <2>6. Filling' <=> Filling
    BY <1>0, <2>2 DEF Filling
  <2>7. \A v \in Windows : AtKeys(v)' <=> v = w \/ AtKeys(v)
    BY <2>2 DEF AtKeys
  <2>8. ASSUME "keys" \notin faults'
        PROVE  OneAtKeys' /\ EmptyWhileFilling' /\ KeysHaveSaved' /\ SetsHaveSaved'
    <3>1. "keys" \notin faults /\ \A v \in Windows \ {w} : ~AtKeys(v)
      BY <2>1, <2>8, AloneAtKeys
    <3>2. ~Filling
      BY <1>0, <3>1 DEF Filling, AtKeys
    <3>3. \A id : Saved(id) => id \in keys
      BY <3>1, <3>2 DEF KeysInv, KeysHaveSaved
    <3> QED
      BY <1>0, <1>3, <2>2, <2>4, <2>5, <2>6, <2>7, <3>1, <3>2, <3>3
      DEF OneAtKeys, EmptyWhileFilling, KeysHaveSaved, SetsHaveSaved
  <2> QED
    BY <1>0, <2>2, <2>4, <2>7, <2>8 DEF KeysInv, AtKeys
<1> QED BY <1>1, <1>2, <1>3

\* The file is emptied; the window holds what it will write.
LEMMA KeysKeyTruncate ==
    ASSUME KeysInv, NEW w \in Windows, KeyTruncate(w)
    PROVE  KeysInv'
<1> DEFINE j == [at |-> "keyFill", id |-> job[w].id, on |-> job[w].on,
                 set |-> job[w].set]
<1>1. /\ job[w].at = "keyTruncate" /\ keys' = Torn /\ keyed' = keyed
      /\ Goto(w, j) /\ Meets(w, "keys", {"keyTruncate", "keyFill"})
  BY DEF KeyTruncate
<1>2. /\ DOMAIN job' = Windows
      /\ job'[w] = j
      /\ \A v \in Windows : v # w => job'[v] = job[v]
  BY <1>1, GotoStep DEF KeysInv
<1>3. \A id : Saved(id)' => Saved(id)
  BY <1>1, <1>2 DEF Saved
<1>4. Filling'
  BY <1>2 DEF Filling
<1>5. AtKeys(w) /\ \A v \in Windows : AtKeys(v)' <=> AtKeys(v)
  BY <1>1, <1>2 DEF AtKeys
<1>6. \A v \in Windows : job'[v].id = job[v].id \/ ~AtKeys(v)
  BY <1>2
<1>7. \A v \in Windows : job'[v].set = job[v].set \/ ~AtKeys(v)
  BY <1>2
<1>8. "keys" \notin faults' => "keys" \notin faults
  BY <1>1, AloneAtKeys
<1> QED
  BY <1>1, <1>2, <1>3, <1>4, <1>5, <1>6, <1>7, <1>8
  DEF KeysInv, OneAtKeys, EmptyWhileFilling, KeysHaveSaved, SetsHaveSaved

\* The file is filled: the key is there before its row.
LEMMA KeysKeyFill ==
    ASSUME KeysInv, NEW w \in Windows, KeyFill(w)
    PROVE  KeysInv'
<1> DEFINE j == [at |-> "row", id |-> job[w].id, key |-> TRUE, on |-> job[w].on]
<1>1. /\ job[w].at = "keyFill" /\ keyed' = keyed /\ Goto(w, j)
      /\ Meets(w, "keys", {"keyTruncate", "keyFill"})
      /\ keys' = job[w].set \/ (keys # Torn /\ keys' = Torn)
  BY DEF KeyFill
<1>2. /\ DOMAIN job' = Windows
      /\ job'[w] = j
      /\ \A v \in Windows : v # w => job'[v] = job[v]
  BY <1>1, GotoStep DEF KeysInv
<1>3. AtKeys(w) /\ Filling
  BY <1>1 DEF AtKeys, Filling
<1>4. job[w].set \subseteq Providers /\ job[w].id \in job[w].set
  BY <1>3 DEF KeysInv
<1>5. \A v \in Windows : AtKeys(v)' => v # w /\ AtKeys(v) /\ job'[v] = job[v]
  BY <1>2 DEF AtKeys
<1>6. \A id : Saved(id)' => Saved(id) \/ id = job[w].id
  BY <1>1, <1>2 DEF Saved
<1>7. ASSUME "keys" \notin faults'
      PROVE  OneAtKeys' /\ EmptyWhileFilling' /\ KeysHaveSaved' /\ SetsHaveSaved'
  <2>1. "keys" \notin faults /\ \A v \in Windows \ {w} : ~AtKeys(v)
    BY <1>1, <1>7, AloneAtKeys
  <2>2. keys = Torn /\ keys' = job[w].set
    BY <1>1, <1>3, <2>1 DEF KeysInv, EmptyWhileFilling
  <2>3. \A id : Saved(id) => id \in job[w].set
    BY <1>3, <2>1 DEF KeysInv, SetsHaveSaved
  <2>4. \A v \in Windows : ~AtKeys(v)'
    BY <1>5, <2>1
  <2>5. keys' # Torn
    BY <1>4, <2>2, DeskAssumption
  <2>6. ~Filling'
    BY <2>4 DEF Filling, AtKeys
  <2> QED
    BY <1>4, <1>6, <2>2, <2>3, <2>4, <2>5, <2>6
    DEF OneAtKeys, EmptyWhileFilling, KeysHaveSaved, SetsHaveSaved
<1>8. keys' = Torn \/ keys' \subseteq Providers
  BY <1>1, <1>4
<1> QED
  BY <1>2, <1>5, <1>7, <1>8 DEF KeysInv

\* The row follows its key.
LEMMA KeysSaveRow ==
    ASSUME KeysInv, NEW w \in Windows, SaveRow(w)
    PROVE  KeysInv'
<1>1. /\ job[w].at = "row" /\ Goto(w, Idle) /\ UNCHANGED <<keys, faults>>
      /\ keyed' = IF job[w].key THEN keyed \cup {job[w].id} ELSE keyed
  BY DEF SaveRow, Leave, files
<1>2. /\ DOMAIN job' = Windows
      /\ job'[w] = Idle
      /\ \A v \in Windows : v # w => job'[v] = job[v]
  BY <1>1, GotoStep DEF KeysInv
<1>3. \A id : Saved(id)' => Saved(id)
  BY <1>1, <1>2 DEF Saved, Idle
<1>4. \A v \in Windows : AtKeys(v)' <=> AtKeys(v)
  BY <1>1, <1>2 DEF AtKeys, Idle
<1>5. \A v \in Windows : AtKeys(v)' => job'[v] = job[v]
  BY <1>2 DEF AtKeys, Idle
<1>6. Filling' <=> Filling
  BY <1>1, <1>2 DEF Filling, Idle
<1> QED
  BY <1>1, <1>2, <1>3, <1>4, <1>5, <1>6
  DEF KeysInv, OneAtKeys, EmptyWhileFilling, KeysHaveSaved, SetsHaveSaved

\* Every step keeps the keys of the saved providers.
LEMMA KeysStep == KeysInv /\ [Next]_vars => KeysInv'
<1> SUFFICES ASSUME KeysInv, [Next]_vars PROVE KeysInv'
  OBVIOUS
<1> USE DEF Leave, Goto, Elsewhere
<1>0. DOMAIN job = Windows
  BY DEF KeysInv
<1>1. CASE UNCHANGED vars
  BY <1>1, KeysUntouched DEF vars, files, windows, ghosts
<1>2. ASSUME NEW w \in Windows, Handlers(w)
      PROVE  KeysInv'
  <2>1. ASSUME NEW form \in Forms, Translate(w, form.in, form.task) PROVE Elsewhere(w)
    BY <1>0, <2>1 DEF Translate, Call, Works, Idle, files, ghosts
  <2>2. ASSUME NEW stars \in Rates, SubmitRating(w, stars) PROVE Elsewhere(w)
    BY <1>0, <2>2 DEF SubmitRating, Call, Works, Idle, files, ghosts
  <2>3. ClearHistory(w) => Elsewhere(w)
    BY <1>0 DEF ClearHistory, Call, Works, Idle, Meets
  <2>4. ASSUME NEW auto \in BOOLEAN, SaveSettings(w, auto) PROVE Elsewhere(w)
    BY <1>0, <2>4 DEF SaveSettings, Call, Works, Idle, Meets
  <2>5. ASSUME NEW path \in Paths, OpenFile(w, path) PROVE Elsewhere(w)
    BY <1>0, <2>5 DEF OpenFile, Call, Works, Idle, Meets, files
  <2>6. ASSUME NEW form \in Forms, SaveProject(w, form.in) PROVE Elsewhere(w)
    BY <1>0, <2>6 DEF SaveProject, Call, Works, Idle, Meets, files
  <2>7. CASE HomePage(w)
    BY <2>7, KeysUntouched DEF HomePage, files, ghosts
  <2>8. ASSUME NEW form \in ProviderForms, SaveProvider(w, form) PROVE KeysInv'
    BY <2>8, KeysSaveProvider
  <2>9. LoadProviders(w) => Elsewhere(w)
    BY <1>0 DEF LoadProviders, Call, Works, Idle, files, ghosts
  <2> QED
    BY <1>2, <2>1, <2>2, <2>3, <2>4, <2>5, <2>6, <2>7, <2>8, <2>9, KeysElsewhere DEF Handlers
<1>3. ASSUME NEW w \in Windows, Steps(w)
      PROVE  KeysInv'
  <2>1. TranslateFails(w) => Elsewhere(w)
    BY <1>0 DEF TranslateFails, Idle, files, ghosts
  <2>2. RecordRun(w) => Elsewhere(w)
    BY <1>0 DEF RecordRun, Idle, files, Meets
  <2>3. HistoryRead(w) => Elsewhere(w)
    BY <1>0 DEF HistoryRead, Idle, files, Meets
  <2>4. HistoryTruncate(w) => Elsewhere(w)
    BY <1>0 DEF HistoryTruncate, Meets
  <2>5. HistoryFill(w) => Elsewhere(w)
    BY <1>0 DEF HistoryFill, Idle, Meets
  <2>6. SettingsFill(w) => Elsewhere(w)
    BY <1>0 DEF SettingsFill, Idle, Meets
  <2>7. SaveProfile(w) => Elsewhere(w)
    BY <1>0 DEF SaveProfile, Idle, files, Meets
  <2>8. CASE KeyTruncate(w)
    BY <2>8, KeysKeyTruncate
  <2>9. CASE KeyFill(w)
    BY <2>9, KeysKeyFill
  <2>10. CASE SaveRow(w)
    BY <2>10, KeysSaveRow
  <2>11. LoadKeys(w) => Elsewhere(w)
    BY <1>0 DEF LoadKeys, Idle, files, ghosts
  <2> QED
    BY <1>3, <2>1, <2>2, <2>3, <2>4, <2>5, <2>6, <2>7, <2>8, <2>9, <2>10, <2>11,
       KeysElsewhere DEF Steps
<1>4. ASSUME NEW w \in Windows, Fails(w)
      PROVE  KeysInv'
  <2>1. job[w].at = "keyFill" => "keys" \in faults'
    BY <1>4 DEF Fails, StoreOf
  <2> QED BY <1>0, <1>4, <2>1, KeysElsewhere DEF Fails, Idle, files
<1>5. ASSUME NEW w \in Windows, Restart(w)
      PROVE  KeysInv'
  <2>1. job[w].at = "keyFill" => "keys" \in faults'
    BY <1>5 DEF Restart, StoreOf
  <2> QED BY <1>0, <1>5, <2>1, KeysElsewhere DEF Restart, Idle, files
<1> QED
  BY <1>1, <1>2, <1>3, <1>4, <1>5 DEF Next, Rest

\* The keys on file and those on their way to it, for any windows.
THEOREM KeysInvariant == Spec => []KeysInv
<1> QED BY KeysInit, KeysStep, PTL DEF Spec

\* For any windows and providers: a row saved with a key has its key in the
\* credentials file, while one handler at a time is there to its end.
THEOREM KeysFollowed == Spec => []KeysBeforeRows
<1>1. KeysInv => KeysBeforeRows
  BY DEF KeysInv, KeysHaveSaved, Filling, Saved, KeysBeforeRows
<1> QED BY <1>1, KeysInvariant, PTL

-----------------------------------------------------------------------------
(* The history and the database.                                           *)

\* The records the database backs.
RunIds == DOMAIN runs
Backable == {e \in [run : RunIds, cfg : {runs[r].cfg : r \in RunIds},
                    stars : {0} \cup {ratings[i].stars : i \in DOMAIN ratings}] :
                Backed(e)}
IsSeq(s) == s \in Seq({s[i] : i \in DOMAIN s})
Given(run, stars) ==
    \E i \in DOMAIN ratings : ratings[i].run = run /\ ratings[i].stars = stars

HistoryJob(w) ==
    /\ job[w].at = "read" => /\ job[w].op \in {"add", "rate"}
                             /\ job[w].run \in RunIds
                             /\ job[w].op = "rate" => Given(job[w].run, job[w].stars)
    /\ job[w].at \in {"truncate", "fill"} => job[w].list \in Seq(Backable)

HistoryInv ==
    /\ DOMAIN job = Windows /\ DOMAIN last = Windows
    /\ IsSeq(runs) /\ IsSeq(ratings)
    /\ history = Torn \/ history \in Seq(Backable)
    /\ \A w \in Windows : last[w] \in {0} \cup RunIds
    /\ \A w \in Windows : HistoryJob(w)

\* A row added to a list leaves the rows it had.
LEMMA AppendKeeps ==
    ASSUME NEW s, NEW e, IsSeq(s)
    PROVE  /\ IsSeq(Append(s, e))
           /\ Len(s) + 1 \in DOMAIN Append(s, e)
           /\ Append(s, e)[Len(s) + 1] = e
           /\ \A i \in DOMAIN s : i \in DOMAIN Append(s, e) /\ Append(s, e)[i] = s[i]
<1> DEFINE S == {s[i] : i \in DOMAIN s} \cup {e}
           t == Append(s, e)
<1>1. s \in Seq(S) /\ e \in S
  BY DEF IsSeq
<1>2. t \in Seq(S) /\ Len(t) = Len(s) + 1 /\ Len(s) \in Nat
  BY <1>1
<1>3. \A i \in 1..Len(s) : t[i] = s[i]
  BY <1>1
<1>4. t[Len(s) + 1] = e
  BY <1>1
<1>5. DOMAIN t = 1..Len(t) /\ DOMAIN s = 1..Len(s)
  BY <1>1, <1>2
<1>6. t \in Seq({t[i] : i \in DOMAIN t})
  <2> DEFINE T == {t[i] : i \in DOMAIN t}
  <2>1. \A i \in 1..Len(t) : t[i] \in T
    BY <1>5
  <2> HIDE DEF T
  <2> QED BY <1>2, <2>1
<1> HIDE DEF t, S
<1>7. IsSeq(t)
  BY <1>6 DEF IsSeq
<1> QED BY <1>2, <1>3, <1>4, <1>5, <1>7 DEF t

\* Runs and ratings are never taken back.
Grows ==
    /\ runs' = runs \/ \E r : runs' = Append(runs, r)
    /\ ratings' = ratings \/ \E r : ratings' = Append(ratings, r)

\* What is backed by the database stays so while its rows only grow.
LEMMA GrowsKeeps ==
    ASSUME IsSeq(runs), IsSeq(ratings), Grows
    PROVE  /\ IsSeq(runs)' /\ IsSeq(ratings)'
           /\ RunIds \subseteq RunIds'
           /\ \A r \in RunIds : runs'[r] = runs[r]
           /\ \A i \in DOMAIN ratings : i \in DOMAIN ratings' /\ ratings'[i] = ratings[i]
<1>1. IsSeq(runs') /\ \A r \in DOMAIN runs : r \in DOMAIN runs' /\ runs'[r] = runs[r]
  <2>1. CASE runs' = runs
    BY <2>1
  <2>2. CASE \E r : runs' = Append(runs, r)
    <3>1. PICK r : runs' = Append(runs, r)
      BY <2>2
    <3>2. /\ IsSeq(Append(runs, r))
          /\ \A i \in DOMAIN runs : /\ i \in DOMAIN Append(runs, r)
                                   /\ Append(runs, r)[i] = runs[i]
      BY AppendKeeps
    <3> QED BY <3>1, <3>2, Zenon
  <2> QED BY <2>1, <2>2 DEF Grows
<1>2. /\ IsSeq(ratings')
      /\ \A i \in DOMAIN ratings : i \in DOMAIN ratings' /\ ratings'[i] = ratings[i]
  <2>1. CASE ratings' = ratings
    BY <2>1
  <2>2. CASE \E r : ratings' = Append(ratings, r)
    <3>1. PICK r : ratings' = Append(ratings, r)
      BY <2>2
    <3>2. /\ IsSeq(Append(ratings, r))
          /\ \A i \in DOMAIN ratings : /\ i \in DOMAIN Append(ratings, r)
                                   /\ Append(ratings, r)[i] = ratings[i]
      BY AppendKeeps
    <3> QED BY <3>1, <3>2, Zenon
  <2> QED BY <2>1, <2>2 DEF Grows
<1> QED BY <1>1, <1>2 DEF IsSeq, RunIds

\* A record stays backed through any step that only adds rows.
LEMMA BackedStays ==
    ASSUME IsSeq(runs), IsSeq(ratings), Grows
    PROVE  /\ Backable \subseteq Backable'
           /\ \A run, stars : Given(run, stars) => Given(run, stars)'
           /\ \A l \in Seq(Backable) : l \in Seq(Backable')
<1>1. \A run, stars : Given(run, stars) => Given(run, stars)'
  BY GrowsKeeps DEF Given
<1>2. ASSUME NEW e \in Backable PROVE e \in Backable'
  <2>1. /\ e \in [run : RunIds, cfg : {runs[r].cfg : r \in RunIds},
                  stars : {0} \cup {ratings[i].stars : i \in DOMAIN ratings}]
        /\ e.run \in RunIds
        /\ e.stars = 0 \/ Given(e.run, e.stars)
    BY DEF Backable, Backed, RunIds, Given
  <2>2. e.run \in RunIds'
    BY <2>1, GrowsKeeps
  <2>3. e.stars = 0 \/ Given(e.run, e.stars)'
    BY <1>1, <2>1
  <2>4. Backed(e)'
    BY <2>2, <2>3 DEF Backed, Given, RunIds
  <2>5. e.cfg \in {runs'[r].cfg : r \in RunIds'}
    <3>1. PICK r \in RunIds : e.cfg = runs[r].cfg
      BY <2>1
    <3>2. r \in RunIds' /\ runs'[r] = runs[r]
      BY <3>1, GrowsKeeps
    <3> QED BY <3>1, <3>2
  <2>6. e.stars \in {0} \cup {ratings'[i].stars : i \in DOMAIN ratings'}
    BY <2>3 DEF Given
  <2>7. e = [run |-> e.run, cfg |-> e.cfg, stars |-> e.stars]
    BY <2>1
  <2>8. e \in [run : RunIds', cfg : {runs'[r].cfg : r \in RunIds'},
               stars : {0} \cup {ratings'[i].stars : i \in DOMAIN ratings'}]
    BY <2>2, <2>5, <2>6, <2>7
  <2> QED BY <2>4, <2>8 DEF Backable
<1>3. Backable \subseteq Backable'
  BY <1>2
<1>4. \A S, T : S \subseteq T => \A l \in Seq(S) : l \in Seq(T)
  OBVIOUS
<1>5. \A l \in Seq(Backable) : l \in Seq(Backable')
  BY <1>3, <1>4
<1> QED BY <1>1, <1>3, <1>5

\* An empty history shows nothing.
LEMMA HistoryInit == Init => HistoryInv
BY DEF Init, HistoryInv, HistoryJob, IsSeq, Idle

\* A step that writes into the history, and takes into a handler, only what
\* the database backs.
Sound(w) ==
    /\ Grows
    /\ DOMAIN job' = Windows
    /\ \A v \in Windows : v # w => job'[v] = job[v]
    /\ HistoryJob(w)'
    /\ history' \in {history, Torn} \/ history' \in Seq(Backable)
    /\ DOMAIN last' = Windows
    /\ \A v \in Windows : last'[v] = last[v] \/ last'[v] \in {0} \cup RunIds'

\* A step that leaves history and lists alone keeps them backed.
LEMMA HistoryStays ==
    ASSUME HistoryInv, NEW w \in Windows, Sound(w)
    PROVE  HistoryInv'
<1>1. /\ IsSeq(runs)' /\ IsSeq(ratings)' /\ RunIds \subseteq RunIds'
      /\ \A run, stars : Given(run, stars) => Given(run, stars)'
      /\ \A l \in Seq(Backable) : l \in Seq(Backable')
  BY GrowsKeeps, BackedStays DEF HistoryInv, Sound
<1>2. history' = Torn \/ history' \in Seq(Backable')
  BY <1>1 DEF HistoryInv, Sound
<1>3. ASSUME NEW v \in Windows PROVE HistoryJob(v)'
  <2>1. CASE v = w
    BY <2>1 DEF Sound
  <2>2. CASE v # w
    <3>1. job'[v] = job[v] /\ HistoryJob(v)
      BY <2>2 DEF HistoryInv, Sound
    <3> QED BY <1>1, <3>1 DEF HistoryJob
  <2> QED BY <2>1, <2>2
<1>4. \A v \in Windows : last'[v] \in {0} \cup RunIds'
  BY <1>1 DEF HistoryInv, Sound
<1> QED BY <1>1, <1>2, <1>3, <1>4 DEF HistoryInv, Sound

\* What list_recent returns, and what add and attach_rating make of it.
LEMMA TakeType ==
    ASSUME NEW S, NEW s \in Seq(S), NEW n \in Nat
    PROVE  Take(s, n) \in Seq(S)
BY DEF Take, Least

\* What is listed is backed.
LEMMA ListedBacked ==
    ASSUME HistoryInv
    PROVE  Listed \in Seq(Backable)
BY DeskAssumption, TakeType DEF HistoryInv, Listed

\* A new record of a stored run is backed.
LEMMA RecordBacked ==
    ASSUME NEW run \in RunIds
    PROVE  Record(run, 0) \in Backable
BY DEF Record, Backable, Backed, RunIds

\* So is the list with the record first.
LEMMA AddedBacked ==
    ASSUME HistoryInv, NEW run \in RunIds
    PROVE  Added(run) \in Seq(Backable)
<1>1. <<Record(run, 0)>> \o Listed \in Seq(Backable)
  BY ListedBacked, RecordBacked
<1>2. HistoryLimit \in Nat
  BY DeskAssumption
<1>3. Take(<<Record(run, 0)>> \o Listed, HistoryLimit) \in Seq(Backable)
  <2> DEFINE l == <<Record(run, 0)>> \o Listed
  <2> HIDE DEF l
  <2>1. l \in Seq(Backable)
    BY <1>1 DEF l
  <2>2. Take(l, HistoryLimit) \in Seq(Backable)
    BY <1>2, <2>1, TakeType
  <2> QED BY <2>2 DEF l
<1> QED BY <1>3 DEF Added

\* So is the list with a stored rating attached.
LEMMA RatedBacked ==
    ASSUME HistoryInv, NEW run, NEW stars, Given(run, stars)
    PROVE  Rated(run, stars) \in Seq(Backable)
<1> DEFINE rated(i) == IF i \in First(run) THEN [Listed[i] EXCEPT !.stars = stars]
                       ELSE Listed[i]
<1>1. Listed \in Seq(Backable) /\ Len(Listed) \in Nat /\ DOMAIN Listed = 1..Len(Listed)
  BY ListedBacked
<1>2. ASSUME NEW i \in DOMAIN Listed PROVE rated(i) \in Backable
  <2> DEFINE e == Listed[i]
  <2>1. e \in Backable
    BY <1>1
  <2>2. CASE i \notin First(run)
    BY <2>1, <2>2
  <2>3. CASE i \in First(run)
    <3>1. e.run = run
      BY <2>3 DEF First
    <3>2. /\ e \in [run : RunIds, cfg : {runs[r].cfg : r \in RunIds},
                    stars : {0} \cup {ratings[k].stars : k \in DOMAIN ratings}]
          /\ e.run \in DOMAIN runs
      BY <2>1 DEF Backable, Backed
    <3>3. stars \in {ratings[k].stars : k \in DOMAIN ratings}
      BY DEF Given
    <3> DEFINE n == [run |-> e.run, cfg |-> e.cfg, stars |-> stars]
    <3>4. rated(i) = n
      BY <2>3, <3>2
    <3>5. n \in Backable
      BY <3>1, <3>2, <3>3 DEF Backable, Backed, Given
    <3> QED BY <3>4, <3>5
  <2> QED BY <2>2, <2>3
<1>3. Rated(run, stars) = [i \in 1..Len(Listed) |-> rated(i)]
  BY <1>1 DEF Rated
<1> HIDE DEF rated
<1> QED BY <1>1, <1>2, <1>3

\* A run is stored before its window goes to the history.
LEMMA RecordRunSound ==
    ASSUME HistoryInv, NEW w \in Windows, RecordRun(w)
    PROVE  Sound(w)
<1>1. runs' = Append(runs, Run(w)) /\ UNCHANGED <<ratings, history>>
      /\ last' = [last EXCEPT ![w] = Len(runs) + 1]
  BY DEF RecordRun, files
<1>2. Len(runs) + 1 \in DOMAIN Append(runs, Run(w))
  BY AppendKeeps DEF HistoryInv
<1>3. Len(runs) + 1 \in RunIds'
  BY <1>1, <1>2 DEF RunIds
<1>4. /\ DOMAIN last' = Windows
      /\ \A v \in Windows : last'[v] = last[v] \/ last'[v] \in {0} \cup RunIds'
  BY <1>1, <1>3 DEF HistoryInv
<1>5. Grows
  BY <1>1 DEF Grows
<1>6. \/ Goto(w, Idle)
      \/ \E x : Goto(w, [at |-> "read", op |-> "add", run |-> Len(runs) + 1,
                        stars |-> 0, wished |-> x])
  BY DEF RecordRun, Leave
<1>7. DOMAIN job = Windows
  BY DEF HistoryInv
<1>8. HistoryJob(w)'
  BY <1>3, <1>6, <1>7 DEF HistoryJob, Goto, Idle
<1> QED BY <1>1, <1>4, <1>5, <1>6, <1>7, <1>8 DEF Sound, Goto

\* So is a rating.
LEMMA SubmitRatingSound ==
    ASSUME HistoryInv, NEW w \in Windows, NEW stars, SubmitRating(w, stars)
    PROVE  Sound(w)
<1> DEFINE f == Filed(w, stars)
<1>1. /\ ratings' = Append(ratings, f) /\ UNCHANGED <<runs, history, last>>
      /\ last[w] # 0
      /\ Goto(w, [at |-> "read", op |-> "rate", run |-> last[w],
                  stars |-> stars, wished |-> FALSE])
  BY DEF SubmitRating, Stored, files
<1>2. f.run = last[w] /\ f.stars = stars
  BY DEF Filed, Rating
<1>3. last[w] \in RunIds /\ DOMAIN job = Windows /\ IsSeq(ratings)
  BY <1>1 DEF HistoryInv
<1> HIDE DEF f
<1>4. Len(ratings) + 1 \in DOMAIN Append(ratings, f)
      /\ Append(ratings, f)[Len(ratings) + 1] = f
  BY <1>3, AppendKeeps
<1>5. Given(last[w], stars)'
  BY <1>1, <1>2, <1>4 DEF Given
<1>6. last[w] \in RunIds'
  BY <1>1, <1>3 DEF RunIds
<1>7. HistoryJob(w)'
  BY <1>1, <1>3, <1>5, <1>6 DEF HistoryJob, Goto
<1>8. Grows
  BY <1>1 DEF Grows
<1> QED BY <1>1, <1>3, <1>7, <1>8 DEF Sound, HistoryInv, Goto

\* The list a window is about to write is backed.
LEMMA HistoryReadSound ==
    ASSUME HistoryInv, NEW w \in Windows, HistoryRead(w)
    PROVE  Sound(w)
<1>1. /\ job[w].at = "read" /\ UNCHANGED <<runs, ratings, history, last>>
      /\ DOMAIN job = Windows
      /\ job[w].run \in RunIds
      /\ job[w].op = "rate" => Given(job[w].run, job[w].stars)
  BY DEF HistoryRead, HistoryInv, HistoryJob, database, files
<1>2. Grows /\ Backable' = Backable
  BY <1>1 DEF Grows, Backable, Backed, RunIds
<1>3. ASSUME NEW l, l \in Seq(Backable), Goto(w, [at |-> "truncate", list |-> l])
      PROVE  Sound(w)
  <2>1. job' = [job EXCEPT ![w] = [at |-> "truncate", list |-> l]]
    BY <1>3 DEF Goto
  <2>2. HistoryJob(w)'
    BY <1>1, <1>2, <1>3, <2>1 DEF HistoryJob
  <2> QED BY <1>1, <1>2, <2>1, <2>2 DEF Sound, HistoryInv
<1>4. CASE Goto(w, [at |-> "truncate", list |-> Added(job[w].run)])
  BY <1>1, <1>3, <1>4, AddedBacked
<1>5. CASE job[w].op = "rate"
           /\ Goto(w, [at |-> "truncate", list |-> Rated(job[w].run, job[w].stars)])
  BY <1>1, <1>3, <1>5, RatedBacked
<1>6. CASE Goto(w, Idle)
  <2>1. HistoryJob(w)'
    BY <1>1, <1>6 DEF HistoryJob, Goto, Idle
  <2> QED BY <1>1, <1>2, <1>6, <2>1 DEF Sound, HistoryInv, Goto
<1> QED BY <1>4, <1>5, <1>6 DEF HistoryRead, Leave

\* Every step keeps the history and the lists on their way to it backed.
LEMMA HistoryStep == HistoryInv /\ [Next]_vars => HistoryInv'
<1> SUFFICES ASSUME HistoryInv, [Next]_vars PROVE HistoryInv'
  OBVIOUS
<1> USE DEF Leave, Goto, Sound, Grows
<1>0. DOMAIN job = Windows /\ DOMAIN last = Windows
      /\ \A w \in Windows : HistoryJob(w)
  BY DEF HistoryInv
<1>1. CASE UNCHANGED vars
  <2>1. UNCHANGED <<runs, ratings, history, job, last>>
    BY <1>1 DEF vars, database, files, windows
  <2>2. Backable' = Backable /\ RunIds' = RunIds
    BY <2>1 DEF Backable, Backed, RunIds
  <2>3. \A w \in Windows : HistoryJob(w)'
    BY <1>0, <2>1, <2>2 DEF HistoryJob, Given
  <2>4. IsSeq(runs)' /\ IsSeq(ratings)'
    BY <2>1 DEF HistoryInv, IsSeq
  <2> QED BY <2>1, <2>2, <2>3, <2>4 DEF HistoryInv
<1>2. ASSUME NEW w \in Windows, Handlers(w)
      PROVE  HistoryInv'
  <2>1. ASSUME NEW form \in Forms, Translate(w, form.in, form.task) PROVE Sound(w)
    BY <1>0, <2>1 DEF Translate, Call, Works, Idle, database, files, HistoryJob
  <2>2. ASSUME NEW stars \in Rates, SubmitRating(w, stars) PROVE Sound(w)
    BY <2>2, SubmitRatingSound
  <2>3. ClearHistory(w) => Sound(w)
    BY <1>0 DEF ClearHistory, Call, Works, Idle, database, HistoryJob
  <2>4. ASSUME NEW auto \in BOOLEAN, SaveSettings(w, auto) PROVE Sound(w)
    BY <1>0, <2>4 DEF SaveSettings, Call, Works, Idle, database, HistoryJob
  <2>5. ASSUME NEW path \in Paths, OpenFile(w, path) PROVE Sound(w)
    BY <1>0, <2>5 DEF OpenFile, Call, Works, Idle, database, files, HistoryJob
  <2>6. ASSUME NEW form \in Forms, SaveProject(w, form.in) PROVE Sound(w)
    BY <1>0, <2>6 DEF SaveProject, Call, Works, Idle, database, files, HistoryJob
  <2>7. HomePage(w) => Sound(w)
    BY <1>0 DEF HomePage, Call, Works, Idle, database, files, HistoryJob
  <2>8. ASSUME NEW form \in ProviderForms, SaveProvider(w, form) PROVE Sound(w)
    BY <1>0, <2>8 DEF SaveProvider, Call, Works, Idle, database, files, HistoryJob
  <2>9. LoadProviders(w) => Sound(w)
    BY <1>0 DEF LoadProviders, Call, Works, Idle, database, files, HistoryJob
  <2>10. Sound(w)
    BY <1>2, <2>1, <2>2, <2>3, <2>4, <2>5, <2>6, <2>7, <2>8, <2>9 DEF Handlers
  <2> QED BY <2>10, HistoryStays
<1>3. ASSUME NEW w \in Windows, Steps(w)
      PROVE  HistoryInv'
  <2>1. TranslateFails(w) => Sound(w)
    BY <1>0 DEF TranslateFails, Idle, database, files, HistoryJob
  <2>2. RecordRun(w) => Sound(w)
    BY RecordRunSound
  <2>3. HistoryRead(w) => Sound(w)
    BY HistoryReadSound
  <2>4. HistoryTruncate(w) => Sound(w)
    <3>1. ASSUME HistoryTruncate(w) PROVE Sound(w)
      <4>1. UNCHANGED <<runs, ratings, last>> /\ Backable' = Backable
        BY <3>1 DEF HistoryTruncate, database, Backable, Backed, RunIds
      <4>2. HistoryJob(w)'
        BY <1>0, <3>1, <4>1 DEF HistoryTruncate, HistoryJob
      <4> QED BY <1>0, <3>1, <4>1, <4>2 DEF HistoryTruncate
    <3> QED BY <3>1
  <2>5. HistoryFill(w) => Sound(w)
    BY <1>0 DEF HistoryFill, Idle, database, HistoryJob
  <2>6. SettingsFill(w) => Sound(w)
    BY <1>0 DEF SettingsFill, Idle, database, HistoryJob
  <2>7. SaveProfile(w) => Sound(w)
    BY <1>0 DEF SaveProfile, Idle, files, HistoryJob
  <2>8. KeyTruncate(w) => Sound(w)
    BY <1>0 DEF KeyTruncate, database, HistoryJob
  <2>9. KeyFill(w) => Sound(w)
    BY <1>0 DEF KeyFill, database, HistoryJob
  <2>10. SaveRow(w) => Sound(w)
    BY <1>0 DEF SaveRow, Idle, files, HistoryJob
  <2>11. LoadKeys(w) => Sound(w)
    BY <1>0 DEF LoadKeys, Idle, database, files, HistoryJob
  <2>12. Sound(w)
    BY <1>3, <2>1, <2>2, <2>3, <2>4, <2>5, <2>6, <2>7, <2>8, <2>9, <2>10, <2>11
    DEF Steps
  <2> QED BY <2>12, HistoryStays
<1>4. ASSUME NEW w \in Windows, Fails(w)
      PROVE  HistoryInv'
  <2>1. Sound(w)
    BY <1>0, <1>4 DEF Fails, Idle, database, files, HistoryJob
  <2> QED BY <2>1, HistoryStays
<1>5. ASSUME NEW w \in Windows, Restart(w)
      PROVE  HistoryInv'
  <2>1. Sound(w)
    BY <1>0, <1>5 DEF Restart, Idle, database, files, HistoryJob
  <2> QED BY <2>1, HistoryStays
<1> QED
  BY <1>1, <1>2, <1>3, <1>4, <1>5 DEF Next, Rest

\* The history and what is on its way to it come from stored runs and ratings.
THEOREM HistoryInvariant == Spec => []HistoryInv
<1> QED BY HistoryInit, HistoryStep, PTL DEF Spec

\* For any windows, texts, ratings and limits, with every overlap, failed
\* write and end of a process: what the history shows is in the database.
THEOREM HistoryFromDatabase == Spec => []HistoryBacked
<1>1. HistoryInv => HistoryBacked
  <2> SUFFICES ASSUME HistoryInv, history # Torn, NEW i \in DOMAIN history
               PROVE  Backed(history[i])
    BY DEF HistoryBacked
  <2>1. history \in Seq(Backable)
    BY DEF HistoryInv
  <2> QED BY <2>1 DEF Backable
<1> QED BY <1>1, HistoryInvariant, PTL

\* The average of ratings between low and high stars lies between them.
LEMMA AverageWithin ==
    ASSUME NEW rs, NEW I, IsFiniteSet(I), NEW low \in 1..5, NEW high \in 1..5,
           \A i \in I : rs[i].stars \in low..high
    PROVE  \/ I = {} /\ Average(rs, I) = 0
           \/ /\ Average(rs, I) \in Nat
              /\ 36000 * low <= Average(rs, I)
              /\ Average(rs, I) <= 36000 * high
<1>1. CASE I = {}
  BY <1>1 DEF Average
<1>2. CASE I # {}
  <2> DEFINE f == [i \in I |-> rs[i].stars]
             n == Cardinality(I)
             s == SumFunctionOnSet(f, I)
  <2>1. Average(rs, I) = (s * 180000) \div (5 * n)
    BY <1>2 DEF Average, SumFunction, One
  <2>2. n \in Nat /\ n > 0
    BY <1>2, FS_CardinalityType, FS_EmptySet
  <2>3. \A i \in I : f[i] \in low..high
    OBVIOUS
  <2> HIDE DEF f
  <2>4. s \in Nat /\ n * low <= s /\ s <= n * high
    BY <2>3, SumBetween
  <2> HIDE DEF n, s
  <2>5. low \in Nat /\ high \in Nat /\ n * low \in Nat /\ n * high \in Nat
    BY <2>2
  <2> DEFINE a == s * 180000
             b == 5 * n
             p == 36000 * low
             q == 36000 * high
  <2>6. p * b = 180000 * (n * low) /\ q * b = 180000 * (n * high)
    BY <2>2, <2>5
  <2>7. p * b <= a /\ a <= q * b
    BY <2>4, <2>5, <2>6
  <2>8. a \in Nat /\ b \in Nat /\ b > 0 /\ p \in Nat /\ q \in Nat
    BY <2>2, <2>4, <2>5
  <2> HIDE DEF a, b, p, q
  <2>9. a \div b \in Nat /\ p <= a \div b /\ a \div b <= q
    BY <2>7, <2>8
  <2> QED
    BY <2>1, <2>9 DEF a, b, p, q
<1> QED
  BY <1>1, <1>2

\* A ratio is a share of its percents, and nothing of nothing.
LEMMA RatioWithin ==
    ASSUME NEW I, IsFiniteSet(I), NEW J, J \subseteq I, NEW percent \in Nat
    PROVE  /\ Ratio(J, I, percent) \in Nat
           /\ J = {} => Ratio(J, I, percent) = 0
<1>1. CASE I = {}
  BY <1>1 DEF Ratio
<1>2. CASE I # {}
  <2> DEFINE n == Cardinality(I)
             m == Cardinality(J)
  <2>1. n \in Nat /\ n > 0 /\ m \in Nat /\ (J = {} => m = 0)
    BY <1>2, FS_CardinalityType, FS_EmptySet, FS_Subset
  <2>2. Ratio(J, I, percent) = (Percent(percent) * m) \div n
    BY <1>2 DEF Ratio
  <2>3. Percent(percent) \in Nat
    BY DEF Percent, One
  <2> HIDE DEF n, m
  <2>4. Percent(percent) * m \in Nat /\ (m = 0 => Percent(percent) * m = 0)
    BY <2>1, <2>3
  <2> DEFINE a == Percent(percent) * m
  <2> HIDE DEF a
  <2>5. a \in Nat => a \div n \in Nat /\ (a = 0 => a \div n = 0)
    BY <2>1
  <2> QED
    BY <2>1, <2>2, <2>4, <2>5 DEF a
<1> QED
  BY <1>1, <1>2

-----------------------------------------------------------------------------
(* What a summary does to a score.                                         *)

RatingList(rs) == /\ Len(rs) \in Nat /\ DOMAIN rs = 1..Len(rs)
               /\ \A i \in DOMAIN rs : rs[i].stars \in Stars

\* The parts of a summary that a score depends on.
LowOnes(rs, I) == {i \in I : rs[i].stars <= LowRating}
HighOnes(rs, I) == {i \in I : rs[i].stars >= HighRating}
Misjudged(rs, I) == {i \in LowOnes(rs, I) : rs[i].score >= 100 * Percent(75)}
Floor(topic) == Greatest(0, Percent(56) - (IF topic = 0 THEN One ELSE topic))

\* The parts of a summary, by name.
LEMMA SummaryParts ==
    ASSUME NEW rs, NEW cfg, NEW ids
    PROVE  LET s == Summary(rs, cfg, ids)
               I == Relevant(rs, cfg, ids)
           IN  /\ s.average.topic = Average(rs, ByTopic(rs, cfg))
               /\ s.average.pair = Average(rs, ByPair(rs, cfg))
               /\ s.average.provider = Average(rs, ByProvider(rs, ids))
               /\ s.average.mode = Average(rs, ByMode(rs, cfg))
               /\ s.signal = (IF I = {} THEN 0 ELSE UserSignal(s.average))
               /\ DOMAIN s.average = {"topic", "pair", "provider", "mode"}
               /\ s.mismatch = Ratio(Misjudged(rs, I), I, 100)
               /\ s.penalty = Least(Ratio(LowOnes(rs, I), I, 22)
                                       + Floor(s.average.topic), Percent(45))
               /\ s.boost = Least(Ratio(HighOnes(rs, I), I, 8), Percent(12))
BY DEF Summary, LowOnes, HighOnes, Misjudged, Floor

\* The ratings that count are among those there are.
LEMMA RelevantAmong ==
    ASSUME NEW rs, NEW cfg, NEW ids
    PROVE  /\ ByTopic(rs, cfg) \subseteq DOMAIN rs
           /\ ByPair(rs, cfg) \subseteq DOMAIN rs
           /\ ByMode(rs, cfg) \subseteq DOMAIN rs
           /\ ByProvider(rs, ids) \subseteq DOMAIN rs
           /\ Relevant(rs, cfg, ids) \subseteq DOMAIN rs
BY DEF ByTopic, ByPair, ByMode, ByProvider, Relevant, Exact

\* How many averages there are.
LEMMA KnownCount ==
    ASSUME NEW a, DOMAIN a = {"topic", "pair", "provider", "mode"}
    PROVE  Cardinality({k \in DOMAIN a : a[k] > 0}) =
              (IF a.topic > 0 THEN 1 ELSE 0) + (IF a.pair > 0 THEN 1 ELSE 0)
              + (IF a.provider > 0 THEN 1 ELSE 0) + (IF a.mode > 0 THEN 1 ELSE 0)
<1> DEFINE A == IF a.topic > 0 THEN {"topic"} ELSE {}
           B == IF a.pair > 0 THEN A \cup {"pair"} ELSE A
           C == IF a.provider > 0 THEN B \cup {"provider"} ELSE B
           D == IF a.mode > 0 THEN C \cup {"mode"} ELSE C
<1>1. {k \in DOMAIN a : a[k] > 0} = D
  OBVIOUS
<1>2. IsFiniteSet(A) /\ Cardinality(A) = (IF a.topic > 0 THEN 1 ELSE 0)
  BY FS_EmptySet, FS_Singleton
<1>3. /\ IsFiniteSet(B) /\ "pair" \notin A
      /\ Cardinality(B) = Cardinality(A) + (IF a.pair > 0 THEN 1 ELSE 0)
  <2>1. IsFiniteSet(A \cup {"pair"}) /\ "pair" \notin A
        /\ Cardinality(A \cup {"pair"}) = Cardinality(A) + 1
    BY <1>2, FS_AddElement
  <2> QED
    BY <1>2, <2>1
<1>4. /\ IsFiniteSet(C) /\ "provider" \notin B
      /\ Cardinality(C) = Cardinality(B) + (IF a.provider > 0 THEN 1 ELSE 0)
  <2>1. IsFiniteSet(B \cup {"provider"}) /\ "provider" \notin B
        /\ Cardinality(B \cup {"provider"}) = Cardinality(B) + 1
    BY <1>3, FS_AddElement
  <2>2. Cardinality(B) \in Nat
    BY <1>3, FS_CardinalityType
  <2> HIDE DEF B
  <2> QED
    BY <1>3, <2>1, <2>2
<1>5. Cardinality(D) = Cardinality(C) + (IF a.mode > 0 THEN 1 ELSE 0)
  <2>1. "mode" \notin C
    OBVIOUS
  <2>2. Cardinality(C) \in Nat
    BY <1>4, FS_CardinalityType
  <2> HIDE DEF C
  <2>3. Cardinality(C \cup {"mode"}) = Cardinality(C) + 1
    BY <1>4, <2>1, FS_AddElement
  <2> QED
    BY <2>2, <2>3
<1> HIDE DEF A, B, C, D
<1> QED
  BY <1>1, <1>2, <1>3, <1>4, <1>5

\* Sums are compared term by term.
LEMMA AddFour ==
    ASSUME NEW a \in Int, NEW b \in Int, NEW c \in Int, NEW d \in Int,
           NEW e \in Int, NEW f \in Int, NEW g \in Int, NEW h \in Int,
           a <= e, b <= f, c <= g, d <= h
    PROVE  a + b + c + d <= e + f + g + h
OBVIOUS

\* The signal lies where the averages do.
LEMMA SignalWithin ==
    ASSUME NEW a, DOMAIN a = {"topic", "pair", "provider", "mode"},
           NEW p \in Nat, NEW q \in Nat, p > 0,
           \A k \in DOMAIN a : a[k] = 0 \/ (a[k] \in Nat /\ p <= a[k] /\ a[k] <= q)
    PROVE  \/ UserSignal(a) = 0
           \/ UserSignal(a) \in Nat /\ p <= UserSignal(a) /\ UserSignal(a) <= q
<1> DEFINE c(k) == IF a[k] > 0 THEN 1 ELSE 0
           n == c("topic") + c("pair") + c("provider") + c("mode")
           sum == a.topic + a.pair + a.provider + a.mode
<1>1. UserSignal(a) = IF n = 0 THEN 0 ELSE sum \div n
  BY KnownCount DEF UserSignal
<1>2. ASSUME NEW k \in DOMAIN a
      PROVE  /\ c(k) \in {0, 1} /\ a[k] \in Nat
             /\ p * c(k) <= a[k] /\ a[k] <= q * c(k)
  OBVIOUS
<1>3. /\ c("topic") \in Nat /\ c("pair") \in Nat /\ c("provider") \in Nat
      /\ c("mode") \in Nat
      /\ a.topic \in Nat /\ a.pair \in Nat /\ a.provider \in Nat /\ a.mode \in Nat
      /\ p * c("topic") <= a.topic /\ a.topic <= q * c("topic")
      /\ p * c("pair") <= a.pair /\ a.pair <= q * c("pair")
      /\ p * c("provider") <= a.provider /\ a.provider <= q * c("provider")
      /\ p * c("mode") <= a.mode /\ a.mode <= q * c("mode")
  BY <1>2
<1> HIDE DEF c
<1>4. /\ n \in Nat /\ sum \in Nat
      /\ p * n = p * c("topic") + p * c("pair") + p * c("provider") + p * c("mode")
      /\ q * n = q * c("topic") + q * c("pair") + q * c("provider") + q * c("mode")
  BY <1>3
<1>5. \A k \in {"topic", "pair", "provider", "mode"} : p * c(k) \in Nat /\ q * c(k) \in Nat
  BY <1>3
<1>6. p * n <= sum /\ sum <= q * n
  <2>1. p * c("topic") + p * c("pair") + p * c("provider") + p * c("mode") <= sum
    BY <1>3, <1>5, AddFour
  <2>2. sum <= q * c("topic") + q * c("pair") + q * c("provider") + q * c("mode")
    BY <1>3, <1>5, AddFour
  <2> HIDE DEF n, sum
  <2> QED
    BY <1>4, <2>1, <2>2
<1> HIDE DEF n, sum
<1>7. n # 0 => sum \div n \in Nat /\ p <= sum \div n /\ sum \div n <= q
  BY <1>4, <1>6
<1> QED
  BY <1>1, <1>7

\* The adjustment that ratings of a kind make: of one to two stars it takes
\* away, of four to five it adds.
Between(v, p, q) == v = 0 \/ (v \in Nat /\ p <= v /\ v <= q)

\* Where all stars lie between two numbers, so do the averages.
LEMMA AveragesBetween ==
    ASSUME NEW rs, NEW cfg, NEW ids, RatingList(rs), NEW low \in 1..5, NEW high \in 1..5,
           \A i \in DOMAIN rs : rs[i].stars \in low..high
    PROVE  LET s == Summary(rs, cfg, ids)
           IN  /\ Between(s.average.topic, 36000 * low, 36000 * high)
               /\ Between(s.average.provider, 36000 * low, 36000 * high)
               /\ Between(s.average.mode, 36000 * low, 36000 * high)
               /\ Between(s.signal, 36000 * low, 36000 * high)
<1> DEFINE s == Summary(rs, cfg, ids)
           p == 36000 * low
           q == 36000 * high
<1>1. IsFiniteSet(DOMAIN rs)
  BY FS_Interval DEF RatingList
<1>2. ASSUME NEW I, I \subseteq DOMAIN rs PROVE Between(Average(rs, I), p, q)
  <2>1. IsFiniteSet(I) /\ \A i \in I : rs[i].stars \in low..high
    BY <1>1, <1>2, FS_Subset
  <2> QED
    BY <2>1, AverageWithin DEF Between
<1>3. /\ Between(s.average.topic, p, q) /\ Between(s.average.pair, p, q)
      /\ Between(s.average.provider, p, q) /\ Between(s.average.mode, p, q)
  <2> HIDE DEF p, q
  <2> QED
    BY <1>2, SummaryParts, RelevantAmong
<1>4. Between(s.signal, p, q)
  <2> DEFINE a == s.average
  <2>1. DOMAIN a = {"topic", "pair", "provider", "mode"}
        /\ (s.signal = 0 \/ s.signal = UserSignal(a))
    BY SummaryParts
  <2>2. p \in Nat /\ q \in Nat /\ p > 0
    OBVIOUS
  <2> HIDE DEF p, q, s
  <2>3. \A k \in DOMAIN a : a[k] = 0 \/ (a[k] \in Nat /\ p <= a[k] /\ a[k] <= q)
    BY <1>3, <2>1 DEF Between
  <2> HIDE DEF a
  <2>4. Between(UserSignal(a), p, q)
    BY <2>1, <2>2, <2>3, SignalWithin DEF Between
  <2> QED
    BY <2>1, <2>4 DEF Between
<1> QED
  BY <1>3, <1>4

\* What corrects the averages: without high ratings no boost, without low
\* ones no mismatch and only the floor of the topic as penalty.
LEMMA CorrectionParts ==
    ASSUME NEW rs, NEW cfg, NEW ids, RatingList(rs)
    PROVE  LET s == Summary(rs, cfg, ids)
               I == Relevant(rs, cfg, ids)
           IN  /\ s.boost \in Nat /\ s.penalty \in Nat /\ s.mismatch \in Nat
               /\ HighOnes(rs, I) = {} => s.boost = 0
               /\ LowOnes(rs, I) = {} =>
                     s.mismatch = 0 /\ s.penalty = Least(Floor(s.average.topic), 81000)
<1> DEFINE s == Summary(rs, cfg, ids)
           I == Relevant(rs, cfg, ids)
<1>1. IsFiniteSet(I)
  BY RelevantAmong, FS_Interval, FS_Subset DEF RatingList
<1>2. /\ LowOnes(rs, I) \subseteq I /\ HighOnes(rs, I) \subseteq I
      /\ Misjudged(rs, I) \subseteq I
      /\ LowOnes(rs, I) = {} => Misjudged(rs, I) = {}
  BY DEF LowOnes, HighOnes, Misjudged
<1>3. Between(s.average.topic, 36000, 180000)
  <2>1. \A i \in DOMAIN rs : rs[i].stars \in 1..5
    BY DEF RatingList, Stars
  <2> HIDE DEF s
  <2>2. Between(s.average.topic, 36000 * 1, 36000 * 5)
    BY <2>1, AveragesBetween DEF s
  <2> QED
    BY <2>2
<1>4. Floor(s.average.topic) \in Nat
  <2> HIDE DEF s
  <2> QED
    BY <1>3 DEF Between, Floor, Greatest, Percent, One
<1>5. /\ s.mismatch = Ratio(Misjudged(rs, I), I, 100)
      /\ s.penalty = Least(Ratio(LowOnes(rs, I), I, 22) + Floor(s.average.topic), Percent(45))
      /\ s.boost = Least(Ratio(HighOnes(rs, I), I, 8), Percent(12))
  BY SummaryParts
<1> HIDE DEF s, I
<1>6. /\ Ratio(Misjudged(rs, I), I, 100) \in Nat
      /\ Misjudged(rs, I) = {} => Ratio(Misjudged(rs, I), I, 100) = 0
  BY <1>1, <1>2, RatioWithin
<1>7. /\ Ratio(LowOnes(rs, I), I, 22) \in Nat
      /\ LowOnes(rs, I) = {} => Ratio(LowOnes(rs, I), I, 22) = 0
  BY <1>1, <1>2, RatioWithin
<1>8. /\ Ratio(HighOnes(rs, I), I, 8) \in Nat
      /\ HighOnes(rs, I) = {} => Ratio(HighOnes(rs, I), I, 8) = 0
  BY <1>1, <1>2, RatioWithin
<1>9. Percent(45) = 81000 /\ Percent(12) = 21600
  BY DEF Percent, One
<1>10. s.boost \in Nat /\ (HighOnes(rs, I) = {} => s.boost = 0)
  BY <1>5, <1>8, <1>9 DEF Least
<1>11. s.penalty \in Nat
  BY <1>4, <1>5, <1>7, <1>9 DEF Least
<1>12. LowOnes(rs, I) = {} => s.penalty = Least(Floor(s.average.topic), 81000)
  BY <1>4, <1>5, <1>7, <1>9
<1> QED
  BY <1>2, <1>5, <1>6, <1>10, <1>11, <1>12 DEF s, I

\* What a value between bounds counts as: the middle where there is none.
LEMMA NeutralWithin ==
    ASSUME NEW v, NEW p \in Nat, NEW q \in Nat, q <= 180000, Between(v, p, q)
    PROVE  /\ Neutral(v) \in Nat
           /\ q <= 90000 => Neutral(v) <= 90000
           /\ p >= 90000 => Neutral(v) >= 90000
<1>1. One = 180000 /\ One \div 2 = 90000
  BY DEF One
<1>2. CASE v = 0
  BY <1>1, <1>2 DEF Neutral
<1>3. CASE v \in Nat /\ v > 0 /\ p <= v /\ v <= q
  <2>1. Neutral(v) = v
    BY <1>1, <1>3 DEF Neutral, Clamp, Greatest, Least
  <2> QED
    BY <1>3, <2>1
<1> QED
  BY <1>2, <1>3 DEF Between

\* The adjustment, with the middle in numbers.
LEMMA AdjustmentParts ==
    ASSUME NEW s
    PROVE  RatingAdjustment(s) =
              7 * (Neutral(s.average.provider) - 90000)
              + 5 * (Neutral(s.average.topic) - 90000)
              + 3 * (Neutral(s.average.mode) - 90000)
              + 4 * (Neutral(s.signal) - 90000) + Correction(s)
<1>1. One \div 2 = 90000
  BY DEF One
<1> QED
  BY <1>1, SMT DEF RatingAdjustment

\* Its sign is that of its terms.
LEMMA AdjustmentSign ==
    ASSUME NEW a \in Nat, NEW b \in Nat, NEW c \in Nat, NEW d \in Nat, NEW e \in Int
    PROVE  LET sum == 7 * (a - 90000) + 5 * (b - 90000) + 3 * (c - 90000)
                      + 4 * (d - 90000) + e
           IN  /\ sum \in Int
               /\ a <= 90000 /\ b <= 90000 /\ c <= 90000 /\ d <= 90000 /\ e <= 0
                  => sum <= 0
               /\ a >= 90000 /\ b >= 90000 /\ c >= 90000 /\ d >= 90000 /\ e >= 0
                  => sum >= 0
OBVIOUS

\* The adjustment is a number; a single direction makes it one-sided.
LEMMA AdjustmentType ==
    ASSUME NEW rs, NEW cfg, NEW ids, RatingList(rs)
    PROVE  RatingAdjustment(Summary(rs, cfg, ids)) \in Int
<1> DEFINE s == Summary(rs, cfg, ids)
<1>1. \A i \in DOMAIN rs : rs[i].stars \in 1..5
  BY DEF RatingList, Stars
<1>2. s.boost \in Nat /\ s.penalty \in Nat /\ s.mismatch \in Nat
  BY CorrectionParts
<1>3. /\ Between(s.average.topic, 36000 * 1, 36000 * 5)
      /\ Between(s.average.provider, 36000 * 1, 36000 * 5)
      /\ Between(s.average.mode, 36000 * 1, 36000 * 5)
      /\ Between(s.signal, 36000 * 1, 36000 * 5)
  BY <1>1, AveragesBetween
<1> HIDE DEF s
<1>4. \A v \in {s.average.topic, s.average.provider, s.average.mode, s.signal} :
          Neutral(v) \in Nat
  BY <1>3, NeutralWithin
<1>5. Correction(s) \in Int
  BY <1>2 DEF Correction, Clamp, Greatest, Least, One
<1>6. RatingAdjustment(s) \in Int
  BY <1>4, <1>5, AdjustmentParts, AdjustmentSign
<1> QED
  BY <1>6 DEF s

\* Low ratings only never raise a score.
LEMMA LowAdjustment ==
    ASSUME NEW rs, NEW cfg, NEW ids, RatingList(rs),
           \A i \in DOMAIN rs : rs[i].stars <= LowRating
    PROVE  RatingAdjustment(Summary(rs, cfg, ids)) <= 0
<1> DEFINE s == Summary(rs, cfg, ids)
           I == Relevant(rs, cfg, ids)
<1>1. \A i \in DOMAIN rs : rs[i].stars \in 1..2
  BY DEF RatingList, Stars, LowRating
<1>2. HighOnes(rs, I) = {}
  BY <1>1, RelevantAmong DEF HighOnes, HighRating
<1>3. s.boost = 0 /\ s.penalty \in Nat /\ s.mismatch \in Nat
  BY <1>2, CorrectionParts
<1>4. /\ Between(s.average.topic, 36000 * 1, 36000 * 2)
      /\ Between(s.average.provider, 36000 * 1, 36000 * 2)
      /\ Between(s.average.mode, 36000 * 1, 36000 * 2)
      /\ Between(s.signal, 36000 * 1, 36000 * 2)
  BY <1>1, AveragesBetween
<1> HIDE DEF s
<1>5. \A v : Between(v, 36000 * 1, 36000 * 2) =>
                Neutral(v) \in Nat /\ Neutral(v) <= 90000
  BY NeutralWithin
<1>6. Correction(s) \in Int /\ Correction(s) <= 0
  BY <1>3 DEF Correction, Clamp, Greatest, Least, One
<1>8. \A v \in {s.average.topic, s.average.provider, s.average.mode, s.signal} :
          Neutral(v) \in Nat /\ Neutral(v) <= 90000
  BY <1>4, <1>5
<1>9. RatingAdjustment(s) <= 0
  BY <1>6, <1>8, AdjustmentParts, AdjustmentSign
<1> QED
  BY <1>9 DEF s

\* High ratings only never lower it.
LEMMA HighAdjustment ==
    ASSUME NEW rs, NEW cfg, NEW ids, RatingList(rs),
           \A i \in DOMAIN rs : rs[i].stars >= HighRating
    PROVE  RatingAdjustment(Summary(rs, cfg, ids)) >= 0
<1> DEFINE s == Summary(rs, cfg, ids)
           I == Relevant(rs, cfg, ids)
<1>1. \A i \in DOMAIN rs : rs[i].stars \in 4..5
  BY DEF RatingList, Stars, HighRating
<1>2. LowOnes(rs, I) = {}
  BY <1>1, RelevantAmong DEF LowOnes, LowRating
<1>3. /\ s.boost \in Nat /\ s.mismatch = 0
      /\ s.penalty = Least(Floor(s.average.topic), 81000)
  BY <1>2, CorrectionParts
<1>4. /\ Between(s.average.topic, 36000 * 4, 36000 * 5)
      /\ Between(s.average.provider, 36000 * 4, 36000 * 5)
      /\ Between(s.average.mode, 36000 * 4, 36000 * 5)
      /\ Between(s.signal, 36000 * 4, 36000 * 5)
  BY <1>1, AveragesBetween
<1> HIDE DEF s
<1>5. \A v : Between(v, 36000 * 4, 36000 * 5) =>
                Neutral(v) \in Nat /\ Neutral(v) >= 90000
  BY NeutralWithin
<1>6. s.penalty = 0
  BY <1>3, <1>4 DEF Between, Floor, Greatest, Least, Percent, One
<1>7. Correction(s) \in Int /\ Correction(s) >= 0
  BY <1>3, <1>6 DEF Correction, Clamp, Greatest, Least, One
<1>9. \A v \in {s.average.topic, s.average.provider, s.average.mode, s.signal} :
          Neutral(v) \in Nat /\ Neutral(v) >= 90000
  BY <1>4, <1>5
<1>10. RatingAdjustment(s) >= 0
  BY <1>7, <1>9, AdjustmentParts, AdjustmentSign
<1> QED
  BY <1>10 DEF s

\* Without ratings nothing is adjusted.
LEMMA NoAdjustment ==
    ASSUME NEW cfg, NEW ids
    PROVE  RatingAdjustment(Summary(<<>>, cfg, ids)) = 0
<1> DEFINE s == Summary(<<>>, cfg, ids)
<1>1. RatingList(<<>>) /\ \A i \in DOMAIN <<>> : <<>>[i].stars <= LowRating
                   /\ <<>>[i].stars >= HighRating
  BY DEF RatingList
<1>2. RatingAdjustment(s) <= 0 /\ RatingAdjustment(s) >= 0 /\ RatingAdjustment(s) \in Int
  BY <1>1, LowAdjustment, HighAdjustment, AdjustmentType
<1> HIDE DEF s
<1>3. RatingAdjustment(s) = 0
  BY <1>2
<1> QED
  BY <1>3 DEF s

-----------------------------------------------------------------------------
(* The score.                                                              *)

\* What a list keeps are items of it.
LEMMA KeptType ==
    ASSUME NEW S, NEW s \in Seq(S), NEW I, I \subseteq DOMAIN s
    PROVE  /\ Kept(s, I) \in Seq({s[i] : i \in I})
           /\ IsFiniteSet(I)
           /\ Len(Kept(s, I)) = Cardinality(I)
<1>1. I \subseteq Int /\ IsFiniteSet(I)
  <2>1. Len(s) \in Nat /\ I \subseteq 1..Len(s)
    OBVIOUS
  <2>2. IsFiniteSet(1..Len(s))
    BY <2>1, FS_Interval
  <2> QED
    BY <2>1, <2>2, FS_Subset
<1>2. Cardinality(I) \in Nat
  BY <1>1, FS_CardinalityType
<1> DEFINE at(n) == CHOOSE i \in I : Cardinality({j \in I : j <= i}) = n
<1>3. ASSUME NEW n \in 1..Cardinality(I) PROVE at(n) \in I
  <2>1. \E i \in I : Cardinality({j \in I : j <= i}) = n
    BY <1>1, PlaceTaken DEF Place
  <2> QED
    BY <2>1
<1>4. Kept(s, I) = [n \in 1..Cardinality(I) |-> s[at(n)]]
  BY DEF Kept
<1> HIDE DEF at
<1>5. \A n \in 1..Cardinality(I) : s[at(n)] \in {s[i] : i \in I}
  BY <1>3
<1> QED
  BY <1>1, <1>2, <1>4, <1>5

\* A task a run may score, and a candidate of it.
Countable(c, texts) == c.conf \in Nat /\ c.hits \in Nat /\ c.text \in texts
Scorable(task, texts) ==
    /\ task.candidates \in Seq({task.candidates[k] : k \in DOMAIN task.candidates})
    /\ \A k \in DOMAIN task.candidates : Countable(task.candidates[k], texts)
    /\ task.glossary \in texts /\ task.memory \in texts
    /\ \A t, u \in texts : Overlap(t, u) \in Nat
    /\ task.glossaryHits \in Nat /\ task.topicMatch \in Nat /\ task.coverage \in Nat
    /\ task.spent \in Nat /\ task.limit \in Nat /\ task.rounds \in Nat
    /\ task.markers \in Nat

\* What is collected can be scored: providers' texts, glossary and memory.
LEMMA CollectedType ==
    ASSUME NEW task, NEW texts, Scorable(task, texts)
    PROVE  /\ Collected(task) \in Seq({Collected(task)[k] : k \in DOMAIN Collected(task)})
           /\ \A k \in DOMAIN Collected(task) : Countable(Collected(task)[k], texts)
<1> DEFINE s == task.candidates
           I == {k \in DOMAIN s : s[k].text # NoText}
           g == Remembered("glossary", task.glossary, 64, task.glossaryHits)
           m == Remembered("translationMemory", task.memory, 78, 1)
           S == {s[k] : k \in DOMAIN s} \cup {g, m}
           a == Kept(s, I)
           b == IF task.glossary \in {NoText, task.source} THEN <<>> ELSE <<g>>
           c == IF task.memory = NoText THEN <<>> ELSE <<m>>
<1>1. a \in Seq(S)
  <2>1. a \in Seq({s[k] : k \in I})
    <3>1. s \in Seq({s[k] : k \in DOMAIN s}) /\ I \subseteq DOMAIN s
      BY DEF Scorable
    <3> HIDE DEF s, I
    <3> QED
      BY <3>1, KeptType
  <2>2. {s[k] : k \in I} \subseteq S
    OBVIOUS
  <2>3. \A A, B : A \subseteq B => \A l \in Seq(A) : l \in Seq(B)
    OBVIOUS
  <2> HIDE DEF a, S, I
  <2> QED
    BY <2>1, <2>2, <2>3
<1>2. b \in Seq(S) /\ c \in Seq(S)
  <2>1. g \in S /\ m \in S
    OBVIOUS
  <2> HIDE DEF g, m, S
  <2> QED
    BY <2>1
<1>3. Collected(task) = (a \o b) \o c
  BY DEF Collected
<1>4. \A e \in S : Countable(e, texts)
  <2>1. Countable(g, texts) /\ Countable(m, texts)
    BY DEF Scorable, Countable, Remembered
  <2>2. \A k \in DOMAIN s : Countable(s[k], texts)
    BY DEF Scorable
  <2> HIDE DEF g, m, s
  <2> QED
    BY <2>1, <2>2
<1> HIDE DEF a, b, c, S
<1>5. (a \o b) \o c \in Seq(S)
  BY <1>1, <1>2
<1>6. \A l \in Seq(S) : l \in Seq({l[k] : k \in DOMAIN l}) /\ \A k \in DOMAIN l : l[k] \in S
  OBVIOUS
<1> QED
  BY <1>3, <1>4, <1>5, <1>6

\* A mean of percents.
LEMMA MeanType ==
    ASSUME NEW f, IsFiniteSet(DOMAIN f), \A x \in DOMAIN f : f[x] \in Nat
    PROVE  MeanPercent(f) \in Nat
<1> DEFINE s == SumFunctionOnSet(f, DOMAIN f)
           n == Cardinality(DOMAIN f)
<1>1. s \in Nat
  BY SumType
<1>2. n \in Nat /\ (DOMAIN f # {} => n > 0)
  BY FS_CardinalityType, FS_EmptySet
<1>3. MeanPercent(f) = IF DOMAIN f = {} THEN 0 ELSE Percent(s) \div n
  BY DEF MeanPercent, SumFunction
<1>4. Percent(s) \in Nat
  BY <1>1 DEF Percent, One
<1> HIDE DEF s, n
<1> DEFINE a == Percent(s)
<1> HIDE DEF a
<1>5. a \in Nat /\ n > 0 => a \div n \in Nat
  BY <1>2
<1> QED
  BY <1>2, <1>3, <1>4, <1>5 DEF a

\* Candidates that can be counted.
Scorables(cs, texts) ==
    /\ cs \in Seq({cs[k] : k \in DOMAIN cs}) /\ cs # <<>>
    /\ \A k \in DOMAIN cs : Countable(cs[k], texts)
    /\ \A t, u \in texts : Overlap(t, u) \in Nat

\* A list has finitely many items and pairs of them.
LEMMA ListFinite ==
    ASSUME NEW cs, NEW texts, Scorables(cs, texts)
    PROVE  /\ Len(cs) \in Nat /\ Len(cs) > 0 /\ IsFiniteSet(DOMAIN cs)
           /\ \A S \in SUBSET DOMAIN cs : IsFiniteSet(S) /\ Cardinality(S) \in Nat
           /\ IsFiniteSet(Pairs(cs))
<1>1. Len(cs) \in Nat /\ Len(cs) > 0 /\ DOMAIN cs = 1..Len(cs)
  BY DEF Scorables
<1>2. IsFiniteSet(DOMAIN cs)
  BY <1>1, FS_Interval
<1>3. \A S \in SUBSET DOMAIN cs : IsFiniteSet(S) /\ Cardinality(S) \in Nat
  BY <1>2, FS_Subset, FS_CardinalityType
<1>4. IsFiniteSet((DOMAIN cs) \X (DOMAIN cs))
  BY <1>2, FS_Product
<1>5. Pairs(cs) \subseteq (DOMAIN cs) \X (DOMAIN cs)
  BY DEF Pairs
<1> QED
  BY <1>1, <1>2, <1>3, <1>4, <1>5, FS_Subset

\* The parts of the score are numbers: the mean confidence of a kind,
LEMMA ConfidenceType ==
    ASSUME NEW cs, NEW texts, Scorables(cs, texts), NEW kind
    PROVE  Confidence(cs, kind) \in Nat
<1> DEFINE K == {j \in DOMAIN cs : cs[j].kind = kind}
           f == [k \in K |-> cs[k].conf]
<1>1. Confidence(cs, kind) = MeanPercent(f)
  BY DEF Confidence
<1>2. IsFiniteSet(DOMAIN f) /\ \A k \in DOMAIN f : f[k] \in Nat
  BY ListFinite DEF Scorables, Countable
<1> HIDE DEF f
<1> QED
  BY <1>1, <1>2, MeanType

\* the mean overlap,
LEMMA OverlapType ==
    ASSUME NEW cs, NEW texts, Scorables(cs, texts)
    PROVE  AgreedOverlap(cs) \in Nat
<1> DEFINE f == [p \in Pairs(cs) |-> TextOverlap(cs[p[1]].text, cs[p[2]].text)]
<1>1. AgreedOverlap(cs) = IF Len(cs) < 2 THEN One ELSE MeanPercent(f)
  BY DEF AgreedOverlap
<1>2. \A t, u \in texts : TextOverlap(t, u) \in Nat
  BY DEF TextOverlap, Scorables
<1>3. ASSUME NEW p \in Pairs(cs) PROVE f[p] \in Nat
  <2>1. p[1] \in DOMAIN cs /\ p[2] \in DOMAIN cs
    BY DEF Pairs
  <2>2. cs[p[1]].text \in texts /\ cs[p[2]].text \in texts
    BY <2>1 DEF Scorables, Countable
  <2> QED
    BY <1>2, <2>2
<1>4. IsFiniteSet(DOMAIN f) /\ \A p \in DOMAIN f : f[p] \in Nat
  BY <1>3, ListFinite
<1> HIDE DEF f
<1>5. MeanPercent(f) \in Nat
  BY <1>4, MeanType
<1> QED
  BY <1>1, <1>5 DEF One

\* the mean of the term hits,
LEMMA HitsType ==
    ASSUME NEW cs, NEW texts, Scorables(cs, texts)
    PROVE  TermHits(cs) \in Nat
<1> DEFINE f == [k \in DOMAIN cs |-> (One * Least(cs[k].hits, 3)) \div 3]
           s == SumFunctionOnSet(f, DOMAIN f)
           n == Len(cs)
<1>1. TermHits(cs) = s \div n
  BY DEF TermHits, SumFunction
<1>2. ASSUME NEW k \in DOMAIN cs PROVE f[k] \in Nat
  <2>1. Least(cs[k].hits, 3) \in Nat
    BY DEF Scorables, Countable, Least
  <2>2. ASSUME NEW h \in Nat PROVE (One * h) \div 3 \in Nat
    BY DEF One
  <2> QED
    BY <2>1, <2>2
<1>3. IsFiniteSet(DOMAIN f) /\ \A k \in DOMAIN f : f[k] \in Nat
  BY <1>2, ListFinite
<1> HIDE DEF f
<1>4. s \in Nat
  BY <1>3, SumType
<1>5. n \in Nat /\ n > 0
  BY ListFinite
<1> HIDE DEF s, n
<1>6. s \div n \in Nat
  BY <1>4, <1>5
<1> QED
  BY <1>1, <1>6

\* the votes for a text,
LEMMA VotesType ==
    ASSUME NEW cs, NEW texts, Scorables(cs, texts), NEW text
    PROVE  (One * Votes(cs, text)) \div Len(cs) \in Nat
<1> DEFINE v == Votes(cs, text)
           n == Len(cs)
<1>1. v \in Nat /\ n \in Nat /\ n > 0
  BY ListFinite DEF Votes
<1> HIDE DEF v, n
<1>2. (One * v) \div n \in Nat
  <2> DEFINE a == One * v
  <2>1. a \in Nat
    BY <1>1 DEF One
  <2> HIDE DEF a
  <2>2. a \div n \in Nat
    BY <1>1, <2>1
  <2> QED
    BY <2>2 DEF a
<1> QED
  BY <1>2 DEF v, n

\* and what is left of the budget.
LEMMA BudgetType ==
    ASSUME NEW task, task.spent \in Nat, task.limit \in Nat
    PROVE  BudgetScore(task) \in Nat
<1> DEFINE a == One * task.spent
           n == task.limit
<1>1. a \in Nat /\ One = 180000
  BY DEF One
<1> HIDE DEF a, n
<1>2. n \in Nat /\ n > 0 => a \div n \in Nat
  BY <1>1
<1>3. BudgetScore(task) =
         IF n <= 0 THEN IF task.spent <= 0 THEN One ELSE 0
         ELSE Clamp(One - a \div n)
  BY DEF BudgetScore, a, n
<1>4. n \in Nat
  BY DEF n
<1>5. \A v \in Int : Clamp(v) \in Nat
  BY <1>1 DEF Clamp, Greatest, Least
<1> QED
  BY <1>1, <1>2, <1>3, <1>4, <1>5

\* A score is the adjustment on top of what the candidates earn, within its
\* bounds.
Bounded(v) == Greatest(0, Least(v, 100 * One))

\* Cutting a score off keeps the order.
LEMMA BoundedGrows ==
    ASSUME NEW v \in Int, NEW u \in Int, v <= u
    PROVE  Bounded(v) \in Int /\ Bounded(v) <= Bounded(u)
BY DEF Bounded, Greatest, Least, One

\* What the candidates earn, without the adjustment.
LEMMA EarnedSum ==
    ASSUME NEW a \in Int, NEW b \in Int, NEW c \in Int, NEW d \in Int, NEW e \in Int,
           NEW f \in Int, NEW g \in Int, NEW h \in Int, NEW p \in Int, NEW z \in Int
    PROVE  LET base == 22 * a + 16 * b + 18 * c + 16 * d + 10 * e + 8 * f + 4 * g
                       + 2 * h - 100 * p - z
           IN  /\ base \in Int
               /\ \A x \in Int :
                     22 * a + 16 * b + 18 * c + 16 * d + 10 * e + 8 * f + 4 * g
                     + 2 * h + x - 100 * p - z = base + x
BY SMT

\* A percentage is a number.
LEMMA PercentType ==
    ASSUME NEW n \in Nat
    PROVE  Percent(n) \in Nat
BY SMT DEF Percent, One

\* The score is what the candidates earn plus the adjustment, cut off.
LEMMA FinalScoreParts ==
    ASSUME NEW task, NEW texts, Scorable(task, texts),
           NEW cs, Scorables(cs, texts)
    PROVE  \E base \in Int : \A summary :
              RatingAdjustment(summary) \in Int =>
                 FinalScore(task, cs, summary) = Bounded(base + RatingAdjustment(summary))
<1> DEFINE a == Confidence(cs, "local")
           b == Confidence(cs, "cloud")
           c == AgreedOverlap(cs)
           d == (One * Votes(cs, Winner(cs))) \div Len(cs)
           e == TermHits(cs)
           f == Percent(task.topicMatch)
           g == Percent(task.coverage)
           h == BudgetScore(task)
           p == Least(Percent(8) * task.markers, Percent(32))
           z == 100 * Percent(3) * Greatest(task.rounds - 1, 0)
<1>1. /\ a \in Int /\ b \in Int /\ c \in Int /\ d \in Int /\ e \in Int /\ h \in Int
  <2>1. a \in Nat /\ b \in Nat
    BY ConfidenceType
  <2>2. c \in Nat
    BY OverlapType
  <2>3. d \in Nat
    BY VotesType
  <2>4. e \in Nat
    BY HitsType
  <2>5. h \in Nat
    BY BudgetType DEF Scorable
  <2> HIDE DEF a, b, c, d, e, h
  <2> QED
    BY <2>1, <2>2, <2>3, <2>4, <2>5, SMT
<1>2. f \in Int /\ g \in Int
  <2>1. task.topicMatch \in Nat /\ task.coverage \in Nat
    BY DEF Scorable
  <2>2. f \in Nat /\ g \in Nat
    BY <2>1, PercentType
  <2> HIDE DEF f, g
  <2> QED
    BY <2>2
<1>3. p \in Int
  <2>1. Percent(8) \in Nat /\ Percent(32) \in Nat
    BY PercentType, SMT
  <2>2. task.markers \in Nat
    BY DEF Scorable
  <2> QED
    BY <2>1, <2>2, SMT DEF Least
<1>4. z \in Int
  <2>1. Percent(3) \in Nat
    BY PercentType, SMT
  <2>2. Greatest(task.rounds - 1, 0) \in Nat
    BY SMT DEF Scorable, Greatest
  <2> QED
    BY <2>1, <2>2, SMT
<1>5. \A summary : FinalScore(task, cs, summary) =
         Bounded(22 * a + 16 * b + 18 * c + 16 * d + 10 * e + 8 * f + 4 * g + 2 * h
                 + RatingAdjustment(summary) - 100 * p - z)
  BY SMT DEF FinalScore, Bounded
<1> HIDE DEF a, b, c, d, e, f, g, h, p, z
<1>6. PICK base \in Int : \A x \in Int :
         22 * a + 16 * b + 18 * c + 16 * d + 10 * e + 8 * f + 4 * g + 2 * h
            + x - 100 * p - z = base + x
  BY <1>1, <1>2, <1>3, <1>4, EarnedSum, SMT
<1>7. ASSUME NEW summary, RatingAdjustment(summary) \in Int
      PROVE  FinalScore(task, cs, summary) = Bounded(base + RatingAdjustment(summary))
  BY <1>5, <1>6, <1>7, SMT
<1> QED
  BY <1>7, SMT

\* What a decision makes of a smaller adjustment is no higher a score.
LEMMA DecideGrows ==
    ASSUME NEW task, NEW texts, Scorable(task, texts), NEW s, NEW t,
           RatingAdjustment(s) \in Int, RatingAdjustment(t) \in Int,
           RatingAdjustment(s) <= RatingAdjustment(t)
    PROVE  /\ Decide(task, s).score \in Int
           /\ Decide(task, s).score <= Decide(task, t).score
<1> DEFINE cs == Collected(task)
<1>1. CASE cs = <<>>
  BY <1>1 DEF Decide, NoDecision
<1>2. CASE cs # <<>>
  <2>1. Scorables(cs, texts)
    BY <1>2, CollectedType DEF Scorables, Scorable
  <2>2. \A x : Decide(task, x).score = FinalScore(task, cs, x)
    BY <1>2 DEF Decide, Arbitrated
  <2> HIDE DEF cs
  <2>3. PICK base \in Int : \A x : RatingAdjustment(x) \in Int =>
           FinalScore(task, cs, x) = Bounded(base + RatingAdjustment(x))
    BY <2>1, FinalScoreParts
  <2>4. /\ Bounded(base + RatingAdjustment(s)) \in Int
        /\ Bounded(base + RatingAdjustment(s)) <= Bounded(base + RatingAdjustment(t))
    BY BoundedGrows
  <2> QED
    BY <2>2, <2>3, <2>4
<1> QED
  BY <1>1, <1>2

\* The tasks of the pages can be scored.
LEMMA CountedScorable ==
    ASSUME NEW task \in Tasks, NEW cfg
    PROVE  \E texts : Scorable(Counted(cfg, task), texts)
<1> DEFINE given == Job[task]
           counted == Counted(cfg, task)
           items == {given.candidates[k] : k \in DOMAIN given.candidates}
           texts == {c.text : c \in items} \cup {given.glossary, given.memory}
<1>0. Measured(given)
  <2>1. PICK form \in Forms : task = form.task
    BY DEF Tasks
  <2> QED
    BY <2>1, JobAssumption
<1>1. /\ given.candidates \in Seq(items)
      /\ \A c \in items : c.conf \in Nat /\ c.hits \in Nat
      /\ \A t, u \in texts : Overlap(t, u) \in Nat
      /\ {given.glossaryHits, given.topicMatch, given.coverage,
          given.spent, given.limit, given.rounds} \subseteq Nat
      /\ "markers" \in DOMAIN given
  <2> HIDE DEF given
  <2> QED
    BY <1>0 DEF Measured
<1>2. Markers(cfg, task) \in Nat
  BY JobAssumption, FS_Subset, FS_CardinalityType DEF Markers, Matching
<1>3. /\ counted.candidates = given.candidates /\ counted.glossary = given.glossary
      /\ counted.memory = given.memory /\ counted.glossaryHits = given.glossaryHits
      /\ counted.topicMatch = given.topicMatch /\ counted.coverage = given.coverage
      /\ counted.spent = given.spent /\ counted.limit = given.limit
      /\ counted.rounds = given.rounds /\ counted.markers = Markers(cfg, task)
  BY <1>1 DEF Counted
<1> HIDE DEF counted, given
<1>4. Scorable(counted, texts)
  BY <1>1, <1>2, <1>3 DEF Scorable, Countable
<1> QED
  BY <1>4 DEF counted

\* A score is a number.
LEMMA ScoredType ==
    ASSUME NEW rs, RatingList(rs), NEW cfg, NEW task \in Tasks
    PROVE  Scored(rs, cfg, task) \in Int
<1> DEFINE s == Signals(rs, cfg, task)
           t == Counted(cfg, task)
<1>1. RatingAdjustment(s) \in Int
  BY AdjustmentType DEF Signals
<1>2. PICK texts : Scorable(t, texts)
  BY CountedScorable
<1> HIDE DEF s, t
<1>3. Decide(t, s).score \in Int
  <2>1. RatingAdjustment(s) <= RatingAdjustment(s)
    BY <1>1
  <2> QED
    BY <1>1, <1>2, <2>1, DecideGrows
<1> QED
  BY <1>3 DEF Scored, s, t

\* The first of the stored ratings are ratings.
LEMMA PrefixStored ==
    ASSUME NEW S, NEW s \in Seq(S), \A r \in S : r.stars \in Stars, NEW n \in 0..Len(s)
    PROVE  /\ RatingList(SubSeq(s, 1, n)) /\ Len(SubSeq(s, 1, n)) = n
           /\ \A i \in 1..n : SubSeq(s, 1, n)[i] = s[i]
<1> DEFINE t == SubSeq(s, 1, n)
<1>1. t \in Seq(S) /\ Len(t) = n /\ \A i \in 1..n : t[i] = s[i]
  OBVIOUS
<1> HIDE DEF t
<1>2. Len(t) \in Nat /\ DOMAIN t = 1..Len(t) /\ \A i \in DOMAIN t : t[i] \in S
  BY <1>1
<1>3. RatingList(t)
  BY <1>2 DEF RatingList
<1> QED
  BY <1>1, <1>3 DEF t

RunRow == [cfg : Config, task : Tasks, seen : Nat, score : Int]
RatingRow == [run : Nat, cfg : Config, stars : Stars, issues : SUBSET Kinds,
            providers : SUBSET UNION {Ids(t) : t \in Tasks}, score : Int]
ProfileRow == [cfg : Config, recent : Seq(Paths)]

\* What a page says in a field, unless it says nothing, is a value of it.
LEMMA InputValues ==
    /\ \A in \in Inputs : \A f \in DOMAIN DefaultConfig : in[f] = Blank \/ in[f] \in Values
    /\ DefaultConfig \in Config
<1>1. \A in \in Inputs : \A f \in DOMAIN DefaultConfig : in[f] = Blank \/ in[f] \in Values
  BY DEF Values
<1>2. DefaultConfig \in Inputs
  BY DEF Inputs
<1>3. \A f \in DOMAIN DefaultConfig : DefaultConfig[f] \in Values
  BY <1>1, <1>2, DeskAssumption
<1>4. DefaultConfig \in [DOMAIN DefaultConfig -> Values]
  BY <1>3, DeskAssumption
<1> QED
  BY <1>1, <1>4 DEF Config

\* The first state has the types.
LEMMA TypeInit == Init => TypeOK
<1> SUFFICES ASSUME Init PROVE TypeOK
  OBVIOUS
<1>1. DefaultConfig \in Config
  BY InputValues
<1>2. config \in [Windows -> Config]
  BY <1>1 DEF Init
<1>3. DOMAIN job = Windows /\ \A w \in Windows : JobOK(job[w])
  BY DEF Init, Idle, JobOK
<1>4. profile = <<>> /\ Len(profile) <= 1
  BY DEF Init, NoProfile
<1>5. DOMAIN rows \subseteq Providers /\ \A id \in DOMAIN rows : rows[id] \in BOOLEAN
  <2>1. DOMAIN rows = {}
    BY DEF Init
  <2> QED
    BY <2>1
<1>6. runs = <<>> /\ ratings = <<>> /\ history = <<>> /\ expected = <<>> /\ opened = <<>>
  BY DEF Init
<1>7. last \in [Windows -> 0..Len(runs)] /\ loaded \in [Windows -> SUBSET Providers]
  BY <1>6 DEF Init
<1>8. ops \in 0..MaxOps /\ wished \in BOOLEAN /\ settings \in BOOLEAN \cup {Torn}
      /\ keys \subseteq Providers /\ keyed \subseteq Providers
      /\ faults \subseteq {"history", "keys", "settings", "profile"}
  BY DeskAssumption DEF Init
<1> QED
  BY <1>2, <1>3, <1>4, <1>5, <1>6, <1>7, <1>8 DEF TypeOK

\* The config a page asks for.
LEMMA ConfiguredType ==
    ASSUME TypeOK, NEW w \in Windows, NEW form \in Forms
    PROVE  Configured(w, form.in) \in Config
<1>1. config[w] \in Config
  BY DEF TypeOK
<1>2. form.in \in Inputs
  BY DEF Inputs
<1>3. ASSUME NEW old \in Config PROVE Updated(old, form.in) \in Config
  <2>1. DOMAIN old = DOMAIN DefaultConfig /\ \A f \in DOMAIN old : old[f] \in Values
    BY DEF Config
  <2>2. \A f \in DOMAIN old : (IF form.in[f] = Blank THEN old[f] ELSE form.in[f]) \in Values
    BY <1>2, <2>1, InputValues
  <2> QED
    BY <2>1, <2>2 DEF Updated, Config
<1> QED
  BY <1>1, <1>3, InputValues DEF Configured

\* A window goes on in its handler; the others are where they were.
JobsOK == DOMAIN job = Windows /\ \A v \in Windows : JobOK(job[v])

\* The window goes on and the database only grows.
LEMMA JobsStay ==
    ASSUME TypeOK, NEW w \in Windows, NEW j, Goto(w, j), JobOK(job[w])',
           DOMAIN runs \subseteq DOMAIN runs', Len(ratings) \in 0..Len(ratings)',
           Len(ratings)' \in Nat
    PROVE  JobsOK'
<1>1. /\ DOMAIN job' = Windows
      /\ \A v \in Windows : v # w => job'[v] = job[v]
  BY DEF Goto, TypeOK
<1>2. ASSUME NEW v \in Windows, v # w PROVE JobOK(job[v])'
  <2>1. job'[v] = job[v] /\ JobOK(job[v])
    BY <1>1, <1>2 DEF TypeOK
  <2>2. Len(ratings) \in Nat
    BY DEF TypeOK
  <2> QED
    BY <2>1, <2>2 DEF JobOK
<1> QED
  BY <1>1, <1>2 DEF JobsOK

\* The same where runs and ratings are left alone.
LEMMA JobsHere ==
    ASSUME TypeOK, NEW w \in Windows, NEW j, Goto(w, j), JobOK(j),
           UNCHANGED <<runs, ratings>>
    PROVE  JobsOK'
<1>1. job'[w] = j
  BY DEF Goto, TypeOK
<1>2. JobOK(job[w])'
  BY <1>1 DEF JobOK
<1>3. Len(ratings) \in Nat
  BY DEF TypeOK
<1> QED
  BY <1>2, <1>3, JobsStay

\* Faults are of the four stores.
LEMMA MeetsType ==
    ASSUME TypeOK, NEW w, NEW store \in {"history", "keys", "settings", "profile"},
           NEW steps, Meets(w, store, steps)
    PROVE  faults' \subseteq {"history", "keys", "settings", "profile"}
BY DEF TypeOK, Meets

\* What a handler's call and a step of it leave alone.
LEMMA CallType ==
    ASSUME TypeOK, NEW w \in Windows, Call(w), ops < MaxOps
    PROVE  ops' \in 0..MaxOps /\ job[w] = Idle
BY DeskAssumption DEF TypeOK, Call

\* The steps keep the types, one by one: translating,
LEMMA TypeTranslate ==
    ASSUME TypeOK, ops < MaxOps, NEW w \in Windows, NEW form \in Forms,
           Translate(w, form.in, form.task)
    PROVE  TypeOK'
<1> DEFINE j == [at |-> "run", task |-> form.task, seen |-> Len(ratings)]
<1>1. config' \in [Windows -> Config]
  BY ConfiguredType DEF Translate, TypeOK
<1>2. JobOK(j)
  <2>1. form.task \in Tasks /\ Len(ratings) \in Nat
    BY DEF Tasks, TypeOK
  <2> QED
    BY <2>1 DEF JobOK
<1>3. Goto(w, j) /\ UNCHANGED <<database, files, last, loaded, ghosts>>
      /\ ops' \in 0..MaxOps
  BY CallType DEF Translate, Works
<1> HIDE DEF j
<1>4. JobsOK'
  BY <1>2, <1>3, JobsHere DEF database
<1> QED
  BY <1>1, <1>3, <1>4 DEF TypeOK, JobsOK, database, files, ghosts

\* A window that is in no handler.
LEMMA IdleOK == JobOK(Idle)
BY DEF JobOK, Idle

\* a run that raises,
LEMMA TypeTranslateFails ==
    ASSUME TypeOK, NEW w \in Windows, TranslateFails(w)
    PROVE  TypeOK'
<1>1. Goto(w, Idle) /\ UNCHANGED <<database, files, config, last, loaded, ops, ghosts>>
  BY DEF TranslateFails, Leave
<1>2. JobsOK'
  BY <1>1, IdleOK, JobsHere DEF database
<1> QED
  BY <1>1, <1>2 DEF TypeOK, JobsOK, database, files, ghosts

\* A list that grows keeps its indexes.
LEMMA AppendType ==
    ASSUME NEW S, NEW s \in Seq(S), NEW e \in S
    PROVE  /\ Append(s, e) \in Seq(S) /\ Len(Append(s, e)) = Len(s) + 1
           /\ Len(s) \in Nat /\ DOMAIN s = 1..Len(s)
           /\ DOMAIN Append(s, e) = 1..(Len(s) + 1)
           /\ DOMAIN s \subseteq DOMAIN Append(s, e)
           /\ Len(s) + 1 \in DOMAIN Append(s, e)
           /\ Append(s, e)[Len(s) + 1] = e
           /\ \A i \in DOMAIN s : Append(s, e)[i] = s[i]
OBVIOUS

\* A list of some of a set is a list of the set.
LEMMA SeqWider ==
    ASSUME NEW S, NEW T, S \subseteq T, NEW s \in Seq(S)
    PROVE  s \in Seq(T)
OBVIOUS

\* A list with one more item first.
LEMMA SeqFirst ==
    ASSUME NEW S, NEW s \in Seq(S), NEW e \in S
    PROVE  <<e>> \o s \in Seq(S)
OBVIOUS

\* The row a run stores.
LEMMA RunType ==
    ASSUME TypeOK, NEW w \in Windows, job[w].at = "run"
    PROVE  Run(w) \in RunRow
<1>1. /\ job[w].task \in Tasks /\ job[w].seen \in 0..Len(ratings)
      /\ config[w] \in Config
  BY DEF TypeOK, JobOK
<1>2. ratings \in Seq(RatingRow)
  BY DEF TypeOK, RatingRow
<1>3. \A r \in RatingRow : r.stars \in Stars
  BY DEF RatingRow
<1>4. RatingList(Seen(w))
  BY <1>1, <1>2, <1>3, PrefixStored DEF Seen
<1>5. Scored(Seen(w), config[w], job[w].task) \in Int
  BY <1>1, <1>4, ScoredType
<1>6. job[w].seen \in Nat
  BY <1>1, <1>2
<1> QED
  BY <1>1, <1>5, <1>6 DEF Run, RunRow

\* storing the run,
LEMMA TypeRecordRun ==
    ASSUME TypeOK, NEW w \in Windows, RecordRun(w)
    PROVE  TypeOK'
<1> DEFINE r == Run(w)
           n == Len(runs) + 1
<1>1. /\ runs' = Append(runs, r) /\ last' = [last EXCEPT ![w] = n]
      /\ UNCHANGED <<ratings, profile, rows, files, config, loaded, ops,
                     wished, opened, keyed>>
  BY DEF RecordRun
<1>2. r \in RunRow /\ runs \in Seq(RunRow)
  BY RunType DEF RecordRun, TypeOK, RunRow
<1> HIDE DEF r
<1>3. /\ runs' \in Seq(RunRow) /\ Len(runs') = n /\ Len(runs) \in Nat
      /\ DOMAIN runs = 1..Len(runs) /\ DOMAIN runs' = 1..n
      /\ DOMAIN runs \subseteq DOMAIN runs' /\ n \in DOMAIN runs'
  BY <1>1, <1>2, AppendType
<1>4. last' \in [Windows -> 0..n]
  <2>1. last \in [Windows -> 0..Len(runs)]
    BY DEF TypeOK
  <2>2. 0..Len(runs) \subseteq 0..n /\ n \in 0..n
    BY <1>3
  <2> HIDE DEF n
  <2> QED
    BY <1>1, <2>1, <2>2
<1> DEFINE j == [at |-> "read", op |-> "add", run |-> n, stars |-> 0, wished |-> wished]
<1>5. Goto(w, Idle) \/ Goto(w, j)
  BY DEF RecordRun, Leave
<1>6. JobsOK'
  <2>1. Len(ratings) \in Nat /\ Len(ratings)' = Len(ratings)
    BY <1>1 DEF TypeOK
  <2>2. Len(ratings) \in 0..Len(ratings)'
    BY <2>1
  <2>3. CASE Goto(w, Idle)
    <3>1. job'[w] = Idle
      BY <2>3 DEF Goto, TypeOK
    <3>2. JobOK(job[w])'
      BY <3>1 DEF JobOK, Idle
    <3> QED
      BY <1>3, <2>1, <2>2, <2>3, <3>2, JobsStay
  <2>4. CASE Goto(w, j)
    <3>1. job'[w] = j
      BY <2>4 DEF Goto, TypeOK
    <3>2. JobOK(job[w])'
      BY <1>3, <3>1 DEF JobOK
    <3> HIDE DEF j
    <3> QED
      BY <1>3, <2>1, <2>2, <2>4, <3>2, JobsStay
  <2> QED
    BY <1>5, <2>3, <2>4
<1>7. expected' \in Seq(DOMAIN runs')
  <2>1. expected \in Seq(DOMAIN runs')
    BY <1>3, SeqWider DEF TypeOK
  <2>2. <<n>> \o expected \in Seq(DOMAIN runs')
    BY <1>3, <2>1, SeqFirst
  <2>3. expected' = expected \/ expected' = <<n>> \o expected
    BY DEF RecordRun
  <2> QED
    BY <2>1, <2>2, <2>3
<1>8. faults' \subseteq {"history", "keys", "settings", "profile"}
  <2>1. faults' = faults \/ Meets(w, "settings", {"settingsFill"})
    BY DEF RecordRun
  <2> QED
    BY <2>1, MeetsType DEF TypeOK
<1> QED
  BY <1>1, <1>3, <1>4, <1>6, <1>7, <1>8 DEF TypeOK, JobsOK, files, RunRow

\* A stored run.
LEMMA RunAt ==
    ASSUME TypeOK, NEW run \in DOMAIN runs
    PROVE  runs[run] \in RunRow /\ run \in Nat \ {0}
<1>1. runs \in Seq(RunRow)
  BY DEF TypeOK, RunRow
<1> QED
  BY <1>1

\* rating it,
LEMMA TypeSubmitRating ==
    ASSUME TypeOK, ops < MaxOps, NEW w \in Windows, NEW stars \in Rates,
           SubmitRating(w, stars)
    PROVE  TypeOK'
<1> DEFINE r == Filed(w, stars)
           j == [at |-> "read", op |-> "rate", run |-> last[w],
                 stars |-> stars, wished |-> FALSE]
<1>1. /\ ratings' = Append(ratings, r) /\ Goto(w, j) /\ last[w] # 0
      /\ UNCHANGED <<runs, profile, rows, files, config, last, loaded, ghosts>>
  BY DEF SubmitRating, Stored
<1>2. ops' \in 0..MaxOps
  BY CallType DEF SubmitRating
<1>3. last[w] \in DOMAIN runs /\ last[w] \in Nat
  <2>1. last[w] \in 0..Len(runs) /\ Len(runs) \in Nat /\ DOMAIN runs = 1..Len(runs)
    BY DEF TypeOK
  <2> QED
    BY <1>1, <2>1
<1>4. stars \in 1..5 /\ stars \in Stars /\ Issues(stars) \in SUBSET Kinds
  BY DeskAssumption DEF Stars
<1>5. r \in RatingRow
  <2>1. runs[last[w]] \in RunRow
    BY <1>3, RunAt
  <2>2. runs[last[w]].task \in Tasks /\ runs[last[w]].score \in Int
    BY <2>1 DEF RunRow
  <2>3. Ids(runs[last[w]].task) \in SUBSET UNION {Ids(t) : t \in Tasks}
    BY <2>2
  <2>4. config[w] \in Config
    BY DEF TypeOK
  <2> QED
    BY <1>3, <1>4, <2>2, <2>3, <2>4 DEF Filed, Rating, RatingRow
<1>6. ratings \in Seq(RatingRow)
  BY DEF TypeOK, RatingRow
<1> HIDE DEF r
<1>7. /\ ratings' \in Seq(RatingRow) /\ Len(ratings)' = Len(ratings) + 1
      /\ Len(ratings) \in Nat
  BY <1>1, <1>5, <1>6, AppendType
<1>8. JobsOK'
  <2>1. job'[w] = j
    BY <1>1 DEF Goto, TypeOK
  <2>2. JobOK(job[w])'
    BY <1>1, <1>3, <1>4, <2>1 DEF JobOK
  <2> HIDE DEF j
  <2> QED
    BY <1>1, <1>7, <2>2, JobsStay
<1> QED
  BY <1>1, <1>2, <1>7, <1>8 DEF TypeOK, JobsOK, files, ghosts, RatingRow

\* What the history holds, and what add and attach_rating make of it.
LEMMA ListedType ==
    ASSUME TypeOK
    PROVE  Listed \in Seq(Entry)
BY DeskAssumption, TakeType DEF TypeOK, Listed

\* A new record,
LEMMA RecordType ==
    ASSUME TypeOK, NEW run \in DOMAIN runs
    PROVE  Record(run, 0) \in Entry
<1>1. runs[run] \in RunRow /\ run \in Nat \ {0}
  BY RunAt
<1>2. runs[run].cfg \in Config
  BY <1>1 DEF RunRow
<1> QED
  BY <1>1, <1>2 DEF Record, Entry

\* the list with the record first,
LEMMA AddedType ==
    ASSUME TypeOK, NEW run \in DOMAIN runs
    PROVE  Added(run) \in Seq(Entry)
<1> DEFINE e == Record(run, 0)
           l == <<e>> \o Listed
<1>1. l \in Seq(Entry)
  <2>1. e \in Entry /\ Listed \in Seq(Entry)
    BY RecordType, ListedType
  <2> HIDE DEF e
  <2> QED
    BY <2>1
<1>2. Added(run) = Take(l, HistoryLimit) /\ HistoryLimit \in Nat
  BY DeskAssumption DEF Added
<1> HIDE DEF l
<1> QED
  BY <1>1, <1>2, TakeType

\* and the list with a rating attached.
LEMMA RatedType ==
    ASSUME TypeOK, NEW run, NEW stars \in 0..5
    PROVE  Rated(run, stars) \in Seq(Entry)
<1> DEFINE rated(i) == IF i \in First(run) THEN [Listed[i] EXCEPT !.stars = stars]
                       ELSE Listed[i]
<1>1. Listed \in Seq(Entry) /\ Len(Listed) \in Nat /\ DOMAIN Listed = 1..Len(Listed)
  BY ListedType
<1>2. ASSUME NEW i \in 1..Len(Listed) PROVE rated(i) \in Entry
  <2>1. Listed[i] \in Entry
    BY <1>1
  <2>2. [Listed[i] EXCEPT !.stars = stars] \in Entry
    BY <2>1 DEF Entry
  <2> QED
    BY <2>1, <2>2
<1>3. Rated(run, stars) = [i \in 1..Len(Listed) |-> rated(i)]
  BY <1>1 DEF Rated
<1> HIDE DEF rated
<1> QED
  BY <1>1, <1>2, <1>3

\* Reading the history,
LEMMA TypeHistoryRead ==
    ASSUME TypeOK, NEW w \in Windows, HistoryRead(w)
    PROVE  TypeOK'
<1>1. /\ UNCHANGED <<database, files, config, last, loaded, ops, wished, opened, keyed>>
      /\ job[w].at = "read" /\ Meets(w, "history", {"truncate", "fill"})
  BY DEF HistoryRead
<1>2. job[w].run \in DOMAIN runs /\ job[w].stars \in 0..5
  BY <1>1 DEF TypeOK, JobOK
<1>3. expected' \in Seq(DOMAIN runs)
  <2>1. expected \in Seq(DOMAIN runs)
    BY DEF TypeOK
  <2>2. <<job[w].run>> \o expected \in Seq(DOMAIN runs)
    BY <1>2, <2>1, SeqFirst
  <2>3. expected' = expected \/ expected' = <<job[w].run>> \o expected
    BY DEF HistoryRead
  <2> QED
    BY <2>1, <2>2, <2>3
<1>4. ASSUME NEW l \in Seq(Entry), Goto(w, [at |-> "truncate", list |-> l])
      PROVE  JobsOK'
  <2> DEFINE j == [at |-> "truncate", list |-> l]
  <2>1. JobOK(j)
    BY DEF JobOK
  <2> HIDE DEF j
  <2> QED
    BY <1>1, <1>4, <2>1, JobsHere DEF database, j
<1>5. JobsOK'
  <2>1. CASE Goto(w, [at |-> "truncate", list |-> Added(job[w].run)])
    BY <1>2, <1>4, <2>1, AddedType
  <2>2. CASE Goto(w, [at |-> "truncate", list |-> Rated(job[w].run, job[w].stars)])
    BY <1>2, <1>4, <2>2, RatedType
  <2>3. CASE Goto(w, Idle)
    BY <1>1, <2>3, IdleOK, JobsHere DEF database
  <2> QED
    BY <2>1, <2>2, <2>3 DEF HistoryRead, Leave
<1>6. faults' \subseteq {"history", "keys", "settings", "profile"}
  BY <1>1, MeetsType
<1> QED
  BY <1>1, <1>3, <1>5, <1>6 DEF TypeOK, JobsOK, database, files

\* emptying the file,
LEMMA TypeHistoryTruncate ==
    ASSUME TypeOK, NEW w \in Windows, HistoryTruncate(w)
    PROVE  TypeOK'
<1> DEFINE j == [at |-> "fill", list |-> job[w].list]
<1>1. /\ job[w].at = "truncate" /\ history' = Torn /\ Goto(w, j)
      /\ Meets(w, "history", {"truncate", "fill"})
      /\ UNCHANGED <<database, keys, settings, config, last, loaded, ops,
                     wished, expected, opened, keyed>>
  BY DEF HistoryTruncate
<1>2. JobOK(j)
  BY <1>1 DEF TypeOK, JobOK
<1> HIDE DEF j
<1>3. JobsOK'
  BY <1>1, <1>2, JobsHere DEF database
<1>4. faults' \subseteq {"history", "keys", "settings", "profile"}
  BY <1>1, MeetsType
<1> QED
  BY <1>1, <1>3, <1>4 DEF TypeOK, JobsOK, database

\* filling it,
LEMMA TypeHistoryFill ==
    ASSUME TypeOK, NEW w \in Windows, HistoryFill(w)
    PROVE  TypeOK'
<1>1. /\ job[w].at = "fill" /\ history' \in {job[w].list, Torn} /\ Goto(w, Idle)
      /\ Meets(w, "history", {"truncate", "fill"})
      /\ UNCHANGED <<database, keys, settings, config, last, loaded, ops,
                     wished, expected, opened, keyed>>
  BY DEF HistoryFill, Leave
<1>2. job[w].list \in Seq(Entry)
  BY <1>1 DEF TypeOK, JobOK
<1>3. JobsOK'
  BY <1>1, IdleOK, JobsHere DEF database
<1>4. faults' \subseteq {"history", "keys", "settings", "profile"}
  BY <1>1, MeetsType
<1> QED
  BY <1>1, <1>2, <1>3, <1>4 DEF TypeOK, JobsOK, database

\* clearing the history,
LEMMA TypeClearHistory ==
    ASSUME TypeOK, ops < MaxOps, NEW w \in Windows, ClearHistory(w)
    PROVE  TypeOK'
<1> DEFINE j == [at |-> "fill", list |-> <<>>]
<1>1. /\ history' = Torn /\ Goto(w, j) /\ expected' = <<>>
      /\ Meets(w, "history", {"truncate", "fill"})
      /\ UNCHANGED <<database, keys, settings, config, last, loaded,
                     wished, opened, keyed>>
      /\ ops' \in 0..MaxOps
  BY CallType DEF ClearHistory, Works
<1>2. JobOK(j)
  BY DEF JobOK
<1> HIDE DEF j
<1>3. JobsOK'
  BY <1>1, <1>2, JobsHere DEF database
<1>4. faults' \subseteq {"history", "keys", "settings", "profile"}
  BY <1>1, MeetsType
<1> QED
  BY <1>1, <1>3, <1>4 DEF TypeOK, JobsOK, database

\* saving the settings,
LEMMA TypeSaveSettings ==
    ASSUME TypeOK, ops < MaxOps, NEW w \in Windows, NEW auto \in BOOLEAN,
           SaveSettings(w, auto)
    PROVE  TypeOK'
<1> DEFINE j == [at |-> "settingsFill", value |-> auto]
<1>1. /\ settings' = Torn /\ Goto(w, j) /\ Meets(w, "settings", {"settingsFill"})
      /\ UNCHANGED <<database, history, keys, config, last, loaded,
                     wished, expected, opened, keyed>>
      /\ ops' \in 0..MaxOps
  BY CallType DEF SaveSettings, Works
<1>2. JobOK(j)
  BY DEF JobOK
<1> HIDE DEF j
<1>3. JobsOK'
  BY <1>1, <1>2, JobsHere DEF database
<1>4. faults' \subseteq {"history", "keys", "settings", "profile"}
  BY <1>1, MeetsType
<1> QED
  BY <1>1, <1>3, <1>4 DEF TypeOK, JobsOK, database

\* in two steps.
LEMMA TypeSettingsFill ==
    ASSUME TypeOK, NEW w \in Windows, SettingsFill(w)
    PROVE  TypeOK'
<1>1. /\ job[w].at = "settingsFill" /\ settings' \in {job[w].value, Torn}
      /\ wished' = job[w].value /\ Goto(w, Idle)
      /\ Meets(w, "settings", {"settingsFill"})
      /\ UNCHANGED <<database, history, keys, config, last, loaded, ops,
                     expected, opened, keyed>>
  BY DEF SettingsFill, Leave
<1>2. job[w].value \in BOOLEAN
  BY <1>1 DEF TypeOK, JobOK
<1>3. JobsOK'
  BY <1>1, IdleOK, JobsHere DEF database
<1>4. faults' \subseteq {"history", "keys", "settings", "profile"}
  BY <1>1, MeetsType
<1> QED
  BY <1>1, <1>2, <1>3, <1>4 DEF TypeOK, JobsOK, database

\* The recent files of the stored profile.
LEMMA RecentsType ==
    ASSUME TypeOK
    PROVE  Recents \in Seq(Paths)
<1>1. CASE profile = <<>>
  BY <1>1 DEF Recents, NoProfile
<1>2. CASE profile # <<>>
  <2>1. profile \in Seq(ProfileRow)
    BY DEF TypeOK, ProfileRow
  <2>2. profile[1] \in ProfileRow
    BY <1>2, <2>1
  <2> QED
    BY <1>2, <2>2 DEF Recents, NoProfile, ProfileRow
<1> QED
  BY <1>1, <1>2

\* The other paths of a list are paths.
LEMMA OthersType ==
    ASSUME NEW path, NEW S, NEW list \in Seq(S)
    PROVE  Others(path, list) \in Seq(S)
<1> DEFINE I == {i \in DOMAIN list : list[i] # path}
<1>1. I \subseteq DOMAIN list
  OBVIOUS
<1>2. Others(path, list) = Kept(list, I)
  BY DEF Others
<1> HIDE DEF I
<1>3. Kept(list, I) \in Seq({list[i] : i \in I})
  BY <1>1, KeptType
<1>4. {list[i] : i \in I} \subseteq S
  BY <1>1
<1> QED
  BY <1>2, <1>3, <1>4, SeqWider

\* Opening a file,
LEMMA TypeOpenFile ==
    ASSUME TypeOK, ops < MaxOps, NEW w \in Windows, NEW path \in Paths,
           OpenFile(w, path)
    PROVE  TypeOK'
<1> DEFINE l == WithFirst(path, Recents)
           j == [at |-> "recent", list |-> l]
<1>1. /\ Goto(w, j) /\ Meets(w, "profile", {"recent"})
      /\ opened' = <<path>> \o Others(path, opened)
      /\ UNCHANGED <<database, files, config, last, loaded, wished, expected, keyed>>
      /\ ops' \in 0..MaxOps
  BY CallType DEF OpenFile, Works
<1>2. opened' \in Seq(Paths)
  <2>1. Others(path, opened) \in Seq(Paths)
    BY OthersType DEF TypeOK
  <2> QED
    BY <1>1, <2>1, SeqFirst
<1>3. l \in Seq(Paths)
  <2> DEFINE k == <<path>> \o Others(path, Recents)
  <2>1. Others(path, Recents) \in Seq(Paths)
    BY RecentsType, OthersType
  <2>2. k \in Seq(Paths)
    BY <2>1, SeqFirst
  <2>3. l = Take(k, RecentLimit) /\ RecentLimit \in Nat
    BY DeskAssumption DEF WithFirst
  <2> HIDE DEF k, l
  <2> QED
    BY <2>2, <2>3, TakeType
<1> HIDE DEF l
<1>4. JobOK(j)
  BY <1>3 DEF JobOK
<1> HIDE DEF j
<1>5. JobsOK'
  BY <1>1, <1>4, JobsHere DEF database
<1>6. faults' \subseteq {"history", "keys", "settings", "profile"}
  BY <1>1, MeetsType
<1> QED
  BY <1>1, <1>2, <1>5, <1>6 DEF TypeOK, JobsOK, database, files

\* saving the project,
LEMMA TypeSaveProject ==
    ASSUME TypeOK, ops < MaxOps, NEW w \in Windows, NEW form \in Forms,
           SaveProject(w, form.in)
    PROVE  TypeOK'
<1> DEFINE j == [at |-> "recent", list |-> Recents]
<1>1. /\ Goto(w, j) /\ Meets(w, "profile", {"recent"})
      /\ UNCHANGED <<database, files, last, loaded, wished, expected, opened, keyed>>
      /\ ops' \in 0..MaxOps
  BY CallType DEF SaveProject, Works
<1>2. config' \in [Windows -> Config]
  BY ConfiguredType DEF SaveProject, TypeOK
<1>3. JobOK(j)
  BY RecentsType DEF JobOK
<1> HIDE DEF j
<1>4. JobsOK'
  BY <1>1, <1>3, JobsHere DEF database
<1>5. faults' \subseteq {"history", "keys", "settings", "profile"}
  BY <1>1, MeetsType
<1> QED
  BY <1>1, <1>2, <1>4, <1>5 DEF TypeOK, JobsOK, database, files

\* and its row.
LEMMA TypeSaveProfile ==
    ASSUME TypeOK, NEW w \in Windows, SaveProfile(w)
    PROVE  TypeOK'
<1> DEFINE r == [cfg |-> config[w], recent |-> job[w].list]
<1>1. /\ job[w].at = "recent" /\ profile' = <<r>> /\ Goto(w, Idle)
      /\ Meets(w, "profile", {"recent"})
      /\ UNCHANGED <<runs, ratings, rows, files, config, last, loaded, ops,
                     wished, expected, opened, keyed>>
  BY DEF SaveProfile, Leave
<1>2. r \in ProfileRow
  BY <1>1 DEF TypeOK, JobOK, ProfileRow
<1> HIDE DEF r
<1>3. profile' \in Seq(ProfileRow) /\ Len(profile') <= 1
  BY <1>1, <1>2
<1>4. JobsOK'
  BY <1>1, IdleOK, JobsHere
<1>5. faults' \subseteq {"history", "keys", "settings", "profile"}
  BY <1>1, MeetsType
<1> QED
  BY <1>1, <1>3, <1>4, <1>5 DEF TypeOK, JobsOK, files, ProfileRow

\* The config a profile restores.
LEMMA LoadedType ==
    ASSUME TypeOK, NEW old \in Config
    PROVE  Loaded(old) \in Config
<1>1. profile \in Seq(ProfileRow)
  BY DEF TypeOK, ProfileRow
<1>2. profile # <<>> => profile[1] \in ProfileRow
  BY <1>1
<1> QED
  BY <1>2 DEF Loaded, NoProfile, ProfileRow

\* The home page,
LEMMA TypeHomePage ==
    ASSUME TypeOK, ops < MaxOps, NEW w \in Windows, HomePage(w)
    PROVE  TypeOK'
<1>1. /\ config' = [config EXCEPT ![w] = Loaded(config[w])]
      /\ UNCHANGED <<database, files, last, loaded, job, ghosts>>
      /\ ops' \in 0..MaxOps
  BY CallType DEF HomePage, Works, TypeOK
<1>2. config' \in [Windows -> Config]
  <2>1. config \in [Windows -> Config]
    BY DEF TypeOK
  <2>2. Loaded(config[w]) \in Config
    BY <2>1, LoadedType
  <2> QED
    BY <1>1, <2>1, <2>2
<1>3. JobsOK'
  BY <1>1 DEF TypeOK, JobsOK, JobOK, database
<1> QED
  BY <1>1, <1>2, <1>3 DEF TypeOK, JobsOK, database, files, ghosts

\* saving a provider,
LEMMA TypeSaveProvider ==
    ASSUME TypeOK, ops < MaxOps, NEW w \in Windows, NEW form \in ProviderForms,
           SaveProvider(w, form)
    PROVE  TypeOK'
<1> DEFINE r == [at |-> "row", id |-> form.id, key |-> FALSE, on |-> form.on]
           k == [at |-> "keyTruncate", id |-> form.id, on |-> form.on,
                 set |-> WithKey(form.id)]
<1>1. /\ UNCHANGED <<database, files, config, last, loaded,
                     wished, expected, opened, keyed>>
      /\ ops' \in 0..MaxOps
  BY CallType DEF SaveProvider, Works
<1>2. form.id \in Providers /\ form.key \in BOOLEAN /\ form.on \in BOOLEAN
  BY DeskAssumption
<1>3. JobsOK'
  <2>1. CASE Goto(w, r)
    <3>1. JobOK(r)
      BY <1>2 DEF JobOK
    <3> HIDE DEF r
    <3> QED
      BY <1>1, <2>1, <3>1, JobsHere DEF database
  <2>2. CASE Goto(w, k) /\ keys # Torn
    <3>1. WithKey(form.id) \subseteq Providers
      BY <1>2, <2>2 DEF WithKey, TypeOK
    <3>2. JobOK(k)
      BY <1>2, <3>1 DEF JobOK
    <3> HIDE DEF k
    <3> QED
      BY <1>1, <2>2, <3>2, JobsHere DEF database
  <2>3. CASE UNCHANGED job
    BY <1>1, <2>3 DEF TypeOK, JobsOK, JobOK, database
  <2> QED
    BY <2>1, <2>2, <2>3 DEF SaveProvider
<1>4. faults' \subseteq {"history", "keys", "settings", "profile"}
  <2>1. faults' = faults \/ Meets(w, "keys", {"keyTruncate", "keyFill"})
    BY DEF SaveProvider
  <2> QED
    BY <2>1, MeetsType DEF TypeOK
<1> QED
  BY <1>1, <1>3, <1>4 DEF TypeOK, JobsOK, database, files

\* emptying the credentials file,
LEMMA TypeKeyTruncate ==
    ASSUME TypeOK, NEW w \in Windows, KeyTruncate(w)
    PROVE  TypeOK'
<1> DEFINE j == [at |-> "keyFill", id |-> job[w].id, on |-> job[w].on,
                 set |-> job[w].set]
<1>1. /\ job[w].at = "keyTruncate" /\ keys' = Torn /\ Goto(w, j)
      /\ Meets(w, "keys", {"keyTruncate", "keyFill"})
      /\ UNCHANGED <<database, history, settings, config, last, loaded, ops,
                     wished, expected, opened, keyed>>
  BY DEF KeyTruncate
<1>2. JobOK(j)
  BY <1>1 DEF TypeOK, JobOK
<1> HIDE DEF j
<1>3. JobsOK'
  BY <1>1, <1>2, JobsHere DEF database
<1>4. faults' \subseteq {"history", "keys", "settings", "profile"}
  BY <1>1, MeetsType
<1> QED
  BY <1>1, <1>3, <1>4 DEF TypeOK, JobsOK, database

\* filling it,
LEMMA TypeKeyFill ==
    ASSUME TypeOK, NEW w \in Windows, KeyFill(w)
    PROVE  TypeOK'
<1> DEFINE j == [at |-> "row", id |-> job[w].id, key |-> TRUE, on |-> job[w].on]
<1>1. /\ job[w].at = "keyFill" /\ keys' \in {job[w].set, Torn} /\ Goto(w, j)
      /\ Meets(w, "keys", {"keyTruncate", "keyFill"})
      /\ UNCHANGED <<database, history, settings, config, last, loaded, ops,
                     wished, expected, opened, keyed>>
  BY DEF KeyFill
<1>2. JobOK(j) /\ job[w].set \subseteq Providers
  BY <1>1 DEF TypeOK, JobOK
<1> HIDE DEF j
<1>3. JobsOK'
  BY <1>1, <1>2, JobsHere DEF database
<1>4. faults' \subseteq {"history", "keys", "settings", "profile"}
  BY <1>1, MeetsType
<1> QED
  BY <1>1, <1>2, <1>3, <1>4 DEF TypeOK, JobsOK, database

\* storing the row,
LEMMA TypeSaveRow ==
    ASSUME TypeOK, NEW w \in Windows, SaveRow(w)
    PROVE  TypeOK'
<1>1. /\ job[w].at = "row" /\ Goto(w, Idle)
      /\ keyed' \in {keyed, keyed \cup {job[w].id}}
      /\ UNCHANGED <<runs, ratings, profile, files, config, last, loaded, ops,
                     wished, expected, opened, faults>>
  BY DEF SaveRow, Leave
<1>2. job[w].id \in Providers /\ job[w].on \in BOOLEAN
  BY <1>1 DEF TypeOK, JobOK
<1>3. DOMAIN rows' \subseteq Providers /\ \A id \in DOMAIN rows' : rows'[id] \in BOOLEAN
  BY <1>2 DEF SaveRow, TypeOK
<1>4. JobsOK'
  BY <1>1, IdleOK, JobsHere
<1>5. keyed' \subseteq Providers
  BY <1>1, <1>2 DEF TypeOK
<1> QED
  BY <1>1, <1>3, <1>4, <1>5 DEF TypeOK, JobsOK, files

\* loading the rows of the providers,
LEMMA TypeLoadProviders ==
    ASSUME TypeOK, ops < MaxOps, NEW w \in Windows, LoadProviders(w)
    PROVE  TypeOK'
<1> DEFINE j == [at |-> "load", ids |-> Enabled]
<1>1. /\ Goto(w, j) /\ UNCHANGED <<database, files, config, last, loaded, ghosts>>
      /\ ops' \in 0..MaxOps
  BY CallType DEF LoadProviders, Works
<1>2. JobOK(j)
  BY DEF JobOK, Enabled, TypeOK
<1> HIDE DEF j
<1>3. JobsOK'
  BY <1>1, <1>2, JobsHere DEF database
<1> QED
  BY <1>1, <1>3 DEF TypeOK, JobsOK, database, files, ghosts

\* and their keys;
LEMMA TypeLoadKeys ==
    ASSUME TypeOK, NEW w \in Windows, LoadKeys(w)
    PROVE  TypeOK'
<1>1. /\ job[w].at = "load" /\ Goto(w, Idle)
      /\ UNCHANGED <<database, files, config, last, ops, ghosts>>
  BY DEF LoadKeys, Leave
<1>2. job[w].ids \subseteq Providers
  BY <1>1 DEF TypeOK, JobOK
<1>3. loaded' \in [Windows -> SUBSET Providers]
  BY <1>2 DEF LoadKeys, TypeOK
<1>4. JobsOK'
  BY <1>1, IdleOK, JobsHere DEF database
<1> QED
  BY <1>1, <1>3, <1>4 DEF TypeOK, JobsOK, database, files, ghosts

\* a write that fails,
LEMMA TypeFails ==
    ASSUME TypeOK, NEW w \in Windows, Fails(w)
    PROVE  TypeOK'
<1>1. /\ Goto(w, Idle)
      /\ UNCHANGED <<database, files, config, last, loaded, ops,
                     wished, expected, opened, keyed>>
  BY DEF Fails, Leave
<1>2. JobsOK'
  BY <1>1, IdleOK, JobsHere DEF database
<1>3. faults' \subseteq {"history", "keys", "settings", "profile"}
  BY DEF Fails, StoreOf, TypeOK
<1> QED
  BY <1>1, <1>2, <1>3 DEF TypeOK, JobsOK, database, files

\* and a window that is started again.
LEMMA TypeRestart ==
    ASSUME TypeOK, NEW w \in Windows, Restart(w)
    PROVE  TypeOK'
<1>1. /\ Goto(w, Idle) /\ ops < MaxOps /\ ops' = ops + 1
      /\ UNCHANGED <<database, files, wished, expected, opened, keyed>>
  BY DEF Restart, Leave
<1>2. JobsOK'
  BY <1>1, IdleOK, JobsHere DEF database
<1>3. faults' \subseteq {"history", "keys", "settings", "profile"}
  BY DEF Restart, StoreOf, TypeOK
<1>4. config' \in [Windows -> Config]
  <2>1. Loaded(DefaultConfig) \in Config
    BY InputValues, LoadedType
  <2> QED
    BY <2>1 DEF Restart, TypeOK
<1>5. last' \in [Windows -> 0..Len(runs)] /\ loaded' \in [Windows -> SUBSET Providers]
  BY DEF Restart, TypeOK
<1>6. ops' \in 0..MaxOps
  BY <1>1, DeskAssumption DEF TypeOK
<1> QED
  BY <1>1, <1>2, <1>3, <1>4, <1>5, <1>6 DEF TypeOK, JobsOK, database, files

\* Every step keeps the types.
LEMMA TypeStep == TypeOK /\ [Next]_vars => TypeOK'
<1> SUFFICES ASSUME TypeOK, [Next]_vars PROVE TypeOK'
  OBVIOUS
<1>1. ASSUME NEW w \in Windows, Handlers(w) PROVE TypeOK'
  BY <1>1, TypeTranslate, TypeSubmitRating, TypeClearHistory, TypeSaveSettings,
     TypeOpenFile, TypeSaveProject, TypeHomePage, TypeSaveProvider,
     TypeLoadProviders DEF Handlers
<1>2. ASSUME NEW w \in Windows, Steps(w) PROVE TypeOK'
  BY <1>2, TypeTranslateFails, TypeRecordRun, TypeHistoryRead,
     TypeHistoryTruncate, TypeHistoryFill, TypeSettingsFill, TypeSaveProfile,
     TypeKeyTruncate, TypeKeyFill, TypeSaveRow, TypeLoadKeys DEF Steps
<1>3. CASE UNCHANGED vars
  BY <1>3 DEF TypeOK, JobOK, vars, database, files, windows, ghosts
<1> QED
  BY <1>1, <1>2, <1>3, TypeFails, TypeRestart DEF Next, Rest

\* Whatever overlaps, fails or is cut short, every store holds what a handler
\* wrote there or nothing, and every handler in progress what its next step
\* needs.
THEOREM TypeCorrect == Spec => []TypeOK
BY TypeInit, TypeStep, PTL DEF Spec

\* The first ratings are the same when one more is stored.
LEMMA PrefixStays ==
    ASSUME NEW S, NEW s \in Seq(S), NEW e \in S, NEW n \in 0..Len(s)
    PROVE  SubSeq(Append(s, e), 1, n) = SubSeq(s, 1, n)
<1>1. \A i \in 1..n : Append(s, e)[i] = s[i]
  OBVIOUS
<1>2. Append(s, e) \in Seq(S) /\ n <= Len(Append(s, e))
  OBVIOUS
<1> DEFINE t == Append(s, e)
<1>3. /\ Len(SubSeq(s, 1, n)) = n /\ \A i \in 1..n : SubSeq(s, 1, n)[i] = s[i]
      /\ SubSeq(s, 1, n) \in Seq(S)
  OBVIOUS
<1>4. /\ t \in Seq(S) /\ \A i \in 1..n : t[i] = s[i]
      /\ n \in 0..Len(t)
  BY <1>1, <1>2
<1> HIDE DEF t
<1>5. /\ Len(SubSeq(t, 1, n)) = n /\ \A i \in 1..n : SubSeq(t, 1, n)[i] = t[i]
      /\ SubSeq(t, 1, n) \in Seq(S)
  BY <1>4
<1>6. SubSeq(t, 1, n) = SubSeq(s, 1, n)
  BY <1>3, <1>4, <1>5
<1> QED
  BY <1>6 DEF t

\* The score of a stored run is what the ratings it read make of its
\* candidates: no later rating, and no other window, changes it.
ScoredAsSeen(r) ==
    /\ r.seen \in 0..Len(ratings)
    /\ r.score = Scored(SubSeq(ratings, 1, r.seen), r.cfg, r.task)
RunsScored == \A i \in DOMAIN runs : ScoredAsSeen(runs[i])

\* Runs are stored with the ratings they read, and ratings only added.
LEMMA RunsScoredStep == TypeOK /\ RunsScored /\ [Next]_vars => RunsScored'
<1> SUFFICES ASSUME TypeOK, RunsScored, [Next]_vars PROVE RunsScored'
  OBVIOUS
<1>1. ASSUME UNCHANGED <<runs, ratings>> PROVE RunsScored'
  BY <1>1 DEF RunsScored, ScoredAsSeen
<1>2. ASSUME NEW w \in Windows, RecordRun(w) PROVE RunsScored'
  <2> DEFINE r == Run(w)
  <2>1. runs' = Append(runs, r) /\ ratings' = ratings /\ job[w].at = "run"
    BY <1>2 DEF RecordRun
  <2>2. ScoredAsSeen(r)
    BY <2>1 DEF ScoredAsSeen, Run, Seen, TypeOK, JobOK
  <2>3. r \in RunRow /\ runs \in Seq(RunRow)
    BY <2>1, RunType DEF TypeOK, RunRow
  <2> HIDE DEF r
  <2>4. ASSUME NEW i \in DOMAIN runs' PROVE ScoredAsSeen(runs'[i])
    <3>1. runs'[i] = r \/ (i \in DOMAIN runs /\ runs'[i] = runs[i])
      BY <2>1, <2>3
    <3> QED
      BY <2>2, <3>1 DEF RunsScored
  <2> QED
    BY <2>1, <2>4 DEF RunsScored, ScoredAsSeen
<1>3. ASSUME NEW w \in Windows, NEW stars \in Rates, SubmitRating(w, stars),
             ops < MaxOps
      PROVE  RunsScored'
  <2> DEFINE r == Filed(w, stars)
  <2>1. runs' = runs /\ ratings' = Append(ratings, r)
    BY <1>3 DEF SubmitRating, Stored
  <2>2. TypeOK'
    BY <1>3, TypeSubmitRating
  <2>3. ratings' \in Seq(RatingRow) /\ ratings \in Seq(RatingRow)
    BY <2>2 DEF TypeOK, RatingRow
  <2> HIDE DEF r
  <2>4. r \in RatingRow
    <3>1. ratings'[Len(ratings) + 1] = r /\ Len(ratings) + 1 \in DOMAIN ratings'
      BY <2>1, <2>3
    <3> QED
      BY <2>3, <3>1
  <2>5. ASSUME NEW i \in DOMAIN runs PROVE ScoredAsSeen(runs[i])'
    <3>1. runs[i].seen \in 0..Len(ratings)
      BY DEF RunsScored, ScoredAsSeen
    <3>2. SubSeq(ratings', 1, runs[i].seen) = SubSeq(ratings, 1, runs[i].seen)
      BY <2>1, <2>3, <2>4, <3>1, PrefixStays
    <3>3. Len(ratings') = Len(ratings) + 1 /\ Len(ratings) \in Nat
      BY <2>1, <2>3
    <3>4. runs[i].seen \in 0..Len(ratings')
      BY <3>1, <3>3
    <3> QED
      BY <2>1, <3>2, <3>4 DEF RunsScored, ScoredAsSeen
  <2> QED
    BY <2>1, <2>5 DEF RunsScored
<1>4. ASSUME NEW w \in Windows, Handlers(w) PROVE RunsScored'
  BY <1>1, <1>3, <1>4 DEF Handlers, Translate, ClearHistory, SaveSettings, OpenFile,
     SaveProject, HomePage, SaveProvider, LoadProviders, database
<1>5. ASSUME NEW w \in Windows, Steps(w) PROVE RunsScored'
  BY <1>1, <1>2, <1>5 DEF Steps, TranslateFails, HistoryRead, HistoryTruncate,
     HistoryFill, SettingsFill, SaveProfile, KeyTruncate, KeyFill, SaveRow, LoadKeys,
     database
<1>6. ASSUME NEW w \in Windows, Fails(w) \/ Restart(w) PROVE RunsScored'
  BY <1>1, <1>6 DEF Fails, Restart, database
<1> QED
  BY <1>1, <1>4, <1>5, <1>6 DEF Next, Rest, vars, database

\* The score of a run against the same run without ratings.
LEMMA ScoredAgainst ==
    ASSUME NEW rs, RatingList(rs), NEW cfg, NEW task \in Tasks
    PROVE  /\ (\A i \in DOMAIN rs : rs[i].stars <= LowRating) =>
                 Scored(rs, cfg, task) <= Scored(<<>>, cfg, task)
           /\ (\A i \in DOMAIN rs : rs[i].stars >= HighRating) =>
                 Scored(rs, cfg, task) >= Scored(<<>>, cfg, task)
<1> DEFINE s == Signals(rs, cfg, task)
           u == Signals(<<>>, cfg, task)
           t == Counted(cfg, task)
<1>1. RatingAdjustment(s) \in Int
  BY AdjustmentType DEF Signals
<1>2. RatingAdjustment(u) = 0
  BY NoAdjustment DEF Signals
<1>3. PICK texts : Scorable(t, texts)
  BY CountedScorable
<1>4. (\A i \in DOMAIN rs : rs[i].stars <= LowRating) => RatingAdjustment(s) <= 0
  BY LowAdjustment DEF Signals
<1>5. (\A i \in DOMAIN rs : rs[i].stars >= HighRating) => RatingAdjustment(s) >= 0
  BY HighAdjustment DEF Signals
<1>6. Scored(rs, cfg, task) = Decide(t, s).score /\ Scored(<<>>, cfg, task) = Decide(t, u).score
  BY DEF Scored
<1> HIDE DEF s, t, u
<1>7. Decide(t, s).score \in Int /\ Decide(t, u).score \in Int
  <2>1. RatingAdjustment(s) <= RatingAdjustment(s) /\ RatingAdjustment(u) <= RatingAdjustment(u)
        /\ RatingAdjustment(u) \in Int
    BY <1>1, <1>2
  <2> QED
    BY <1>1, <1>3, <2>1, DecideGrows
<1>8. RatingAdjustment(s) <= 0 => Decide(t, s).score <= Decide(t, u).score
  BY <1>1, <1>2, <1>3, DecideGrows
<1>9. RatingAdjustment(s) >= 0 => Decide(t, u).score <= Decide(t, s).score
  BY <1>1, <1>2, <1>3, DecideGrows
<1> QED
  BY <1>4, <1>5, <1>6, <1>7, <1>8, <1>9

\* So the ratings a run read tell how its score compares.
LEMMA PullTheirWay == TypeOK /\ RunsScored => RatingsPullTheirWay
<1> SUFFICES ASSUME TypeOK, RunsScored, NEW i \in DOMAIN runs
             PROVE  LET r == runs[i]
                        stars == {ratings[j].stars : j \in 1..r.seen}
                        unrated == Scored(<<>>, r.cfg, r.task)
                    IN  stars # {} =>
                          /\ (\A n \in stars : n <= LowRating) => r.score <= unrated
                          /\ (\A n \in stars : n >= HighRating) => r.score >= unrated
  BY DEF RatingsPullTheirWay
<1> DEFINE r == runs[i]
           stars == {ratings[j].stars : j \in 1..r.seen}
           rs == SubSeq(ratings, 1, r.seen)
<1>1. r \in RunRow
  BY RunAt
<1>2. r.seen \in 0..Len(ratings) /\ r.score = Scored(rs, r.cfg, r.task)
  BY DEF RunsScored, ScoredAsSeen
<1>3. r.task \in Tasks
  BY <1>1 DEF RunRow
<1>4. ratings \in Seq(RatingRow) /\ \A x \in RatingRow : x.stars \in Stars
  BY DEF TypeOK, RatingRow
<1>5. /\ RatingList(rs) /\ Len(rs) = r.seen
      /\ \A k \in 1..r.seen : rs[k] = ratings[k]
  BY <1>2, <1>4, PrefixStored
<1>6. DOMAIN rs = 1..r.seen /\ \A k \in DOMAIN rs : rs[k].stars \in stars
  BY <1>5 DEF RatingList
<1> HIDE DEF rs, r, stars
<1>7. /\ (\A n \in stars : n <= LowRating) => r.score <= Scored(<<>>, r.cfg, r.task)
      /\ (\A n \in stars : n >= HighRating) => r.score >= Scored(<<>>, r.cfg, r.task)
  BY <1>2, <1>3, <1>5, <1>6, ScoredAgainst
<1> QED
  BY <1>7 DEF r, stars

\* For any tasks, configs and numbers of ratings, a run that follows low
\* ratings only scores no more than without any, and one that follows high
\* ratings only no less.
THEOREM RatingsPullScores == Spec => []RatingsPullTheirWay
<1>1. Init => RunsScored
  BY DEF Init, RunsScored
<1> QED
  BY <1>1, RunsScoredStep, PullTheirWay, TypeCorrect, PTL DEF Spec

-----------------------------------------------------------------------------
(* The recent files.                                                       *)

\* The first numbers, counted.
LEMMA UpTo ==
    ASSUME NEW n \in Nat
    PROVE  IsFiniteSet(1..n) /\ Cardinality(1..n) = n
BY FS_Interval

\* The places in 1..m without q.
LEMMA PlaceWithout ==
    ASSUME NEW m \in Nat, NEW q \in Nat \ {0}, NEW i \in (1..m) \ {q}
    PROVE  Place((1..m) \ {q}, i) = IF i < q THEN i ELSE i - 1
<1> DEFINE I == (1..m) \ {q}
<1>1. {y \in I : y <= i} = (1..i) \ {q}
  OBVIOUS
<1>2. IsFiniteSet(1..i) /\ Cardinality(1..i) = i
  BY FS_Interval
<1>3. Cardinality((1..i) \ {q}) = IF q \in 1..i THEN i - 1 ELSE i
  BY <1>2, FS_RemoveElement
<1>4. q \in 1..i <=> ~(i < q)
  OBVIOUS
<1> QED
  BY <1>1, <1>3, <1>4 DEF Place

\* A list without the item at q: what follows it moves up by one.
Without(o, q) ==
    [k \in 1..(IF q <= Len(o) THEN Len(o) - 1 ELSE Len(o)) |->
        o[IF k < q THEN k ELSE k + 1]]

\* The others of p, where p stands at q or nowhere.
LEMMA OthersWithout ==
    ASSUME NEW S, NEW o \in Seq(S), NEW p, NEW q \in 1..(Len(o) + 1),
           {i \in DOMAIN o : o[i] # p} = (1..Len(o)) \ {q}
    PROVE  Others(p, o) = Without(o, q)
<1> DEFINE m == Len(o)
           I == (1..m) \ {q}
           at(n) == CHOOSE i \in I : Cardinality({j \in I : j <= i}) = n
           l == IF q <= m THEN m - 1 ELSE m
<1>1. m \in Nat /\ q \in Nat \ {0} /\ I \subseteq Int
  OBVIOUS
<1>2. IsFiniteSet(I) /\ Cardinality(I) = l
  <2>1. IsFiniteSet(1..m) /\ Cardinality(1..m) = m
    BY <1>1, UpTo
  <2>2. q \in 1..m <=> q <= m
    BY <1>1
  <2> QED
    BY <2>1, <2>2, FS_RemoveElement
<1> HIDE DEF I
<1>3. Others(p, o) = [n \in 1..l |-> o[at(n)]]
  <2>1. Others(p, o) = Kept(o, I)
    BY DEF Others, I
  <2>2. Kept(o, I) = [n \in 1..Cardinality(I) |-> o[at(n)]]
    BY DEF Kept
  <2> QED
    BY <1>2, <2>1, <2>2
<1>4. ASSUME NEW n \in 1..l PROVE at(n) = IF n < q THEN n ELSE n + 1
  <2> DEFINE i == IF n < q THEN n ELSE n + 1
  <2>1. i \in I
    BY <1>1 DEF I
  <2>2. Place(I, i) = n
    BY <1>1, <2>1, PlaceWithout DEF I
  <2>3. n \in 1..Cardinality(I)
    BY <1>2
  <2> HIDE DEF i
  <2>4. \A x \in I : Place(I, x) = n => x = i
    BY <1>1, <1>2, <2>1, <2>2, <2>3, PlaceTaken
  <2>5. at(n) = i
    BY <2>1, <2>2, <2>4 DEF Place
  <2> QED
    BY <2>5 DEF i
<1> HIDE DEF at
<1> QED
  BY <1>3, <1>4 DEF Without

\* Each item once.
Once(o) == \A i, j \in DOMAIN o : o[i] = o[j] => i = j

\* Where p stands in a list that has each item once: one past the end if it
\* is not there.
Stands(p, o, q) ==
    /\ {i \in DOMAIN o : o[i] # p} = (1..Len(o)) \ {q}
    /\ q <= Len(o) => o[q] = p
    /\ \A i \in DOMAIN o : o[i] = p => i = q

\* It stands somewhere.
LEMMA StandsSomewhere ==
    ASSUME NEW S, NEW o \in Seq(S), Once(o), NEW p
    PROVE  \E q \in 1..(Len(o) + 1) : Stands(p, o, q)
<1>1. DOMAIN o = 1..Len(o) /\ Len(o) \in Nat
  OBVIOUS
<1>2. CASE \E q \in DOMAIN o : o[q] = p
  <2>1. PICK q \in DOMAIN o : o[q] = p
    BY <1>2
  <2> QED
    BY <1>1, <2>1 DEF Once, Stands
<1>3. CASE ~\E q \in DOMAIN o : o[q] = p
  <2> DEFINE q == Len(o) + 1
  <2>1. {i \in DOMAIN o : o[i] # p} = (1..Len(o)) \ {q}
    BY <1>1, <1>3
  <2>2. q \in 1..(Len(o) + 1) /\ ~(q <= Len(o))
    BY <1>1
  <2>3. \A i \in DOMAIN o : o[i] # p
    BY <1>3
  <2> HIDE DEF q
  <2>4. Stands(p, o, q)
    BY <2>1, <2>2, <2>3 DEF Stands
  <2> QED
    BY <2>2, <2>4
<1> QED
  BY <1>2, <1>3

\* Something new may come first.
LEMMA OnceFirst ==
    ASSUME NEW S, NEW x \in Seq(S), Once(x), NEW p, \A k \in DOMAIN x : x[k] # p
    PROVE  Once(<<p>> \o x)
<1> DEFINE y == <<p>> \o x
           l == Len(x)
<1>1. /\ l \in Nat /\ DOMAIN x = 1..l /\ DOMAIN y = 1..(l + 1) /\ y[1] = p
      /\ \A k \in 2..(l + 1) : k - 1 \in 1..l /\ y[k] = x[k - 1]
  OBVIOUS
<1> HIDE DEF y, l
<1>2. Once(y)
  <2> SUFFICES ASSUME NEW i \in 1..(l + 1), NEW j \in 1..(l + 1), y[i] = y[j] PROVE i = j
    BY <1>1 DEF Once
  <2>1. CASE i = 1 \/ j = 1
    BY <1>1, <2>1
  <2>2. CASE i # 1 /\ j # 1
    <3>1. i \in 2..(l + 1) /\ j \in 2..(l + 1)
      BY <1>1, <2>2
    <3>2. i - 1 \in DOMAIN x /\ j - 1 \in DOMAIN x /\ x[i - 1] = x[j - 1]
      BY <1>1, <3>1
    <3>3. i - 1 = j - 1
      BY <3>2 DEF Once
    <3> QED
      BY <3>1, <3>3
  <2> QED
    BY <2>1, <2>2
<1> QED
  BY <1>2 DEF y

\* What a file opened puts first is there once.
LEMMA FirstOnce ==
    ASSUME NEW S, NEW o \in Seq(S), Once(o), NEW p
    PROVE  Once(<<p>> \o Others(p, o))
<1>0. PICK q \in 1..(Len(o) + 1) : Stands(p, o, q)
  BY StandsSomewhere
<1>1. /\ {i \in DOMAIN o : o[i] # p} = (1..Len(o)) \ {q}
      /\ \A i \in DOMAIN o : o[i] = p => i = q
  BY <1>0 DEF Stands
<1> DEFINE x == Without(o, q)
           l == IF q <= Len(o) THEN Len(o) - 1 ELSE Len(o)
           at(k) == IF k < q THEN k ELSE k + 1
<1>2. Others(p, o) = x
  BY <1>1, OthersWithout
<1>3. /\ l \in Nat /\ x \in Seq(S) /\ Len(x) = l /\ DOMAIN x = 1..l
      /\ \A k \in 1..l : x[k] = o[at(k)]
  BY DEF Without
<1>4. \A k \in 1..l : at(k) \in DOMAIN o /\ at(k) # q
  OBVIOUS
<1>5. \A j, k \in 1..l : at(j) = at(k) => j = k
  OBVIOUS
<1> HIDE DEF x, l, at
<1>6. (\A k \in 1..l : x[k] # p) /\ Once(x)
  BY <1>1, <1>3, <1>4, <1>5 DEF Once
<1>7. Once(<<p>> \o x)
  BY <1>3, <1>6, OnceFirst
<1> QED
  BY <1>2, <1>7

\* Cut short before or after the file comes first, the list is the same.
LEMMA FirstOfTaken ==
    ASSUME NEW S, NEW o \in Seq(S), Once(o), NEW p, NEW n \in Nat \ {0}
    PROVE  Take(<<p>> \o Others(p, Take(o, n)), n) = Take(<<p>> \o Others(p, o), n)
<1> DEFINE t == Take(o, n)
           m == Least(n, Len(o))
<1>1. /\ t \in Seq(S) /\ Len(t) = m /\ DOMAIN t = 1..m /\ m \in Nat
      /\ m <= Len(o) /\ m <= n /\ (m = n \/ m = Len(o))
      /\ \A i \in 1..m : t[i] = o[i]
  BY DEF Take, Least
<1>0. PICK q \in 1..(Len(o) + 1) : Stands(p, o, q)
  BY StandsSomewhere
<1>2. /\ {i \in DOMAIN o : o[i] # p} = (1..Len(o)) \ {q}
      /\ q <= Len(o) => o[q] = p
      /\ \A i \in DOMAIN o : o[i] = p => i = q
  BY <1>0 DEF Stands
<1> DEFINE r == IF q <= m THEN q ELSE m + 1
           x == Without(t, r)
           y == Without(o, q)
<1>3. Others(p, o) = y
  BY <1>2, OthersWithout
<1> HIDE DEF t, m
<1>4. Others(p, t) = x
  <2>1. {i \in DOMAIN t : t[i] # p} = (1..Len(t)) \ {r}
    BY <1>1, <1>2
  <2>2. r \in 1..(Len(t) + 1)
    BY <1>1
  <2> QED
    BY <1>1, <2>1, <2>2, OthersWithout
<1> DEFINE a == IF r <= m THEN m - 1 ELSE m
           b == IF q <= Len(o) THEN Len(o) - 1 ELSE Len(o)
<1>5. /\ a \in Nat /\ x \in Seq(S) /\ Len(x) = a
      /\ \A k \in 1..a : x[k] = o[IF k < r THEN k ELSE k + 1]
  BY <1>1 DEF Without
<1>6. /\ b \in Nat /\ y \in Seq(S) /\ Len(y) = b
      /\ \A k \in 1..b : y[k] = o[IF k < q THEN k ELSE k + 1]
  BY <1>1 DEF Without
<1>7. Least(n, a + 1) = Least(n, b + 1)
  BY <1>1 DEF Least
<1>8. ASSUME NEW k \in Nat, k \in 1..a, k \in 1..b PROVE x[k] = y[k]
  <2>1. CASE q <= m
    <3>1. r = q /\ (IF k < q THEN k ELSE k + 1) \in 1..m
      BY <1>1, <1>8, <2>1
    <3> QED
      BY <1>1, <1>5, <1>6, <1>8, <3>1
  <2>2. CASE ~(q <= m)
    <3>1. k < r /\ k < q /\ k \in 1..m
      BY <1>1, <1>8, <2>2
    <3> QED
      BY <1>1, <1>5, <1>6, <1>8, <3>1
  <2> QED
    BY <2>1, <2>2
<1> HIDE DEF x, y, a, b
<1>9. ASSUME NEW z \in Seq(S), NEW c \in Nat, Len(z) = c
      PROVE  /\ Take(<<p>> \o z, n) \in Seq(S \cup {p})
             /\ Len(Take(<<p>> \o z, n)) = Least(n, c + 1)
             /\ Take(<<p>> \o z, n)[1] = p
             /\ \A k \in 2..Least(n, c + 1) : Take(<<p>> \o z, n)[k] = z[k - 1]
  <2> DEFINE u == <<p>> \o z
  <2>1. /\ u \in Seq(S \cup {p}) /\ Len(u) = c + 1 /\ u[1] = p
        /\ \A k \in 2..(c + 1) : u[k] = z[k - 1]
    BY <1>9
  <2> HIDE DEF u
  <2>2. /\ Take(u, n) \in Seq(S \cup {p}) /\ Len(Take(u, n)) = Least(n, c + 1)
        /\ \A k \in 1..Least(n, c + 1) : Take(u, n)[k] = u[k]
    BY <2>1 DEF Take, Least
  <2>3. \A k \in 1..Least(n, c + 1) : k \in Int /\ k <= c + 1
    BY DEF Least
  <2>4. 1 \in 1..Least(n, c + 1) /\ 2..Least(n, c + 1) \subseteq 1..Least(n, c + 1)
        /\ 2..Least(n, c + 1) \subseteq 2..(c + 1)
    BY DEF Least
  <2>5. Take(u, n)[1] = p /\ \A k \in 2..Least(n, c + 1) : Take(u, n)[k] = z[k - 1]
    BY <2>1, <2>2, <2>4
  <2> QED
    BY <2>2, <2>5 DEF u
<1> DEFINE X == Take(<<p>> \o x, n)
           Y == Take(<<p>> \o y, n)
           l == Least(n, a + 1)
<1>10. /\ X \in Seq(S \cup {p}) /\ Len(X) = l /\ X[1] = p
       /\ \A k \in 2..l : X[k] = x[k - 1]
  BY <1>5, <1>9
<1>11. /\ Y \in Seq(S \cup {p}) /\ Len(Y) = l /\ Y[1] = p
       /\ \A k \in 2..l : Y[k] = y[k - 1]
  BY <1>6, <1>7, <1>9
<1> HIDE DEF X, Y
<1>12. \A k \in 1..l : X[k] = Y[k]
  BY <1>5, <1>6, <1>7, <1>8, <1>10, <1>11 DEF Least
<1>13. X = Y
  BY <1>10, <1>11, <1>12
<1> QED
  BY <1>3, <1>4, <1>13 DEF X, Y, t

\* Until two windows meet at the profile, at most one is about to write it,
\* with the files opened last; when none is, they are there.
RecentsKept ==
    /\ Once(opened)
    /\ "profile" \notin faults =>
          /\ \A v, w \in Windows : job[v].at = "recent" /\ job[w].at = "recent" => v = w
          /\ \A w \in Windows :
                job[w].at = "recent" => job[w].list = Take(opened, RecentLimit)
          /\ (\A w \in Windows : job[w].at # "recent")
                => Recents = Take(opened, RecentLimit)

\* A step that leaves the profile alone and is not about to write it.
LEMMA RecentsStay ==
    ASSUME TypeOK, RecentsKept, NEW w \in Windows, UNCHANGED <<profile, opened>>,
           faults \subseteq faults',
           \A v \in Windows \ {w} : job'[v] = job[v],
           \/ job'[w] = job[w]
           \/ job'[w].at # "recent" /\ (job[w].at # "recent" \/ "profile" \in faults')
    PROVE  RecentsKept'
<1>1. CASE "profile" \in faults'
  BY <1>1 DEF RecentsKept
<1>2. CASE "profile" \notin faults'
  <2>1. \A v \in Windows : job'[v].at = "recent" <=> job[v].at = "recent"
    BY <1>2
  <2>2. \A v \in Windows : job'[v].at = "recent" => job'[v] = job[v]
    BY <1>2
  <2>3. Recents' = Recents
    BY DEF Recents
  <2> QED
    BY <1>2, <2>1, <2>2, <2>3 DEF RecentsKept
<1> QED
  BY <1>1, <1>2

\* A window's goto.
LEMMA GoesOn ==
    ASSUME TypeOK, NEW w \in Windows, NEW j, Goto(w, j)
    PROVE  job'[w] = j /\ \A v \in Windows \ {w} : job'[v] = job[v]
BY DEF TypeOK, Goto

\* The step of one window that comes to write the profile, with l as the
\* recent files.
LEMMA RecentsCome ==
    ASSUME TypeOK, RecentsKept, NEW w \in Windows, NEW l,
           job[w] = Idle, Goto(w, [at |-> "recent", list |-> l]),
           Meets(w, "profile", {"recent"}), Once(opened'),
           Recents = Take(opened, RecentLimit) => l = Take(opened', RecentLimit)
    PROVE  RecentsKept'
<1>1. job'[w] = [at |-> "recent", list |-> l] /\ \A v \in Windows \ {w} : job'[v] = job[v]
  BY GoesOn
<1>2. CASE Busy(w, {"recent"})
  BY <1>2 DEF Meets, RecentsKept
<1>3. CASE ~Busy(w, {"recent"})
  <2>1. \A v \in Windows : job[v].at # "recent"
    BY <1>3 DEF Busy, Idle
  <2>2. faults' = faults
    BY <1>3 DEF Meets
  <2>3. \A v \in Windows : job'[v].at = "recent" <=> v = w
    BY <1>1, <2>1
  <2>4. job'[w].list = l
    BY <1>1
  <2>5. CASE "profile" \notin faults
    <3>1. l = Take(opened', RecentLimit)
      BY <2>1, <2>5 DEF RecentsKept
    <3> QED
      BY <2>2, <2>3, <2>4, <3>1 DEF RecentsKept
  <2> QED
    BY <2>2, <2>5 DEF RecentsKept
<1> QED
  BY <1>2, <1>3

\* Every step keeps the recent files, or marks that two windows met.
LEMMA RecentsKeptStep == TypeOK /\ RecentsKept /\ [Next]_vars => RecentsKept'
<1> SUFFICES ASSUME TypeOK, RecentsKept, [Next]_vars PROVE RecentsKept'
  OBVIOUS
<1>1. ASSUME NEW w \in Windows, NEW path \in Paths, ops < MaxOps, OpenFile(w, path)
      PROVE  RecentsKept'
  <2> DEFINE l == WithFirst(path, Recents)
  <2>1. /\ job[w] = Idle /\ Goto(w, [at |-> "recent", list |-> l])
        /\ Meets(w, "profile", {"recent"})
        /\ opened' = <<path>> \o Others(path, opened)
    BY <1>1 DEF OpenFile, Works, Call
  <2>2. opened \in Seq(Paths) /\ Once(opened) /\ RecentLimit \in Nat \ {0}
    BY DeskAssumption DEF TypeOK, RecentsKept
  <2>3. Once(opened')
    BY <2>1, <2>2, FirstOnce
  <2>4. Take(<<path>> \o Others(path, Take(opened, RecentLimit)), RecentLimit)
           = Take(opened', RecentLimit)
    BY <2>1, <2>2, FirstOfTaken
  <2>5. Recents = Take(opened, RecentLimit) => l = Take(opened', RecentLimit)
    BY <2>4 DEF WithFirst
  <2> HIDE DEF l
  <2> QED
    BY <2>1, <2>3, <2>5, RecentsCome
<1>2. ASSUME NEW w \in Windows, NEW form \in Forms, SaveProject(w, form.in)
      PROVE  RecentsKept'
  <2>1. /\ job[w] = Idle /\ Goto(w, [at |-> "recent", list |-> Recents])
        /\ Meets(w, "profile", {"recent"}) /\ opened' = opened
    BY <1>2 DEF SaveProject, Works, Call
  <2>2. Once(opened')
    BY <2>1 DEF RecentsKept
  <2> QED
    BY <2>1, <2>2, RecentsCome
<1>3. ASSUME NEW w \in Windows, SaveProfile(w) PROVE RecentsKept'
  <2>1. /\ job[w].at = "recent" /\ opened' = opened /\ Goto(w, Idle)
        /\ profile' = <<[cfg |-> config[w], recent |-> job[w].list]>>
        /\ Meets(w, "profile", {"recent"})
    BY <1>3 DEF SaveProfile, Leave
  <2>2. job'[w] = Idle /\ \A v \in Windows \ {w} : job'[v] = job[v]
    BY <2>1, GoesOn
  <2>3. Recents' = job[w].list
    BY <2>1 DEF Recents, NoProfile
  <2>4. CASE "profile" \in faults'
    BY <2>1, <2>4 DEF RecentsKept
  <2>5. CASE "profile" \notin faults'
    <3>1. "profile" \notin faults
      BY <2>1, <2>5 DEF Meets
    <3>2. \A v \in Windows : job'[v].at # "recent"
      BY <2>1, <2>2, <3>1 DEF RecentsKept, Idle
    <3>3. Recents' = Take(opened', RecentLimit)
      BY <2>1, <2>3, <3>1 DEF RecentsKept
    <3> QED
      BY <2>1, <3>2, <3>3 DEF RecentsKept
  <2> QED
    BY <2>4, <2>5
<1>4. ASSUME NEW w \in Windows, NEW j, j.at # "recent", Goto(w, j),
             UNCHANGED <<profile, opened>>, faults \subseteq faults',
             job[w].at # "recent" \/ "profile" \in faults'
      PROVE  RecentsKept'
  <2>1. job'[w] = j /\ \A v \in Windows \ {w} : job'[v] = job[v]
    BY <1>4, GoesOn
  <2> QED
    BY <1>4, <2>1, RecentsStay
<1>5. ASSUME UNCHANGED <<profile, opened, job>>, faults \subseteq faults'
      PROVE  RecentsKept'
  BY <1>5, RecentsStay DEF RecentsKept, Recents
<1>6. ASSUME NEW w \in Windows, Handlers(w) PROVE RecentsKept'
  <2> USE DEF Works, Call, Idle, database, ghosts, Meets
  <2>1. ASSUME NEW form \in Forms, Translate(w, form.in, form.task) PROVE RecentsKept'
    BY <1>4, <2>1 DEF Translate
  <2>2. ASSUME NEW stars \in Rates, SubmitRating(w, stars) PROVE RecentsKept'
    BY <1>4, <2>2 DEF SubmitRating
  <2>3. CASE ClearHistory(w)
    BY <1>4, <2>3 DEF ClearHistory
  <2>4. ASSUME NEW auto \in BOOLEAN, SaveSettings(w, auto) PROVE RecentsKept'
    BY <1>4, <2>4 DEF SaveSettings
  <2>5. CASE HomePage(w)
    BY <1>5, <2>5 DEF HomePage
  <2>6. ASSUME NEW form \in ProviderForms, SaveProvider(w, form) PROVE RecentsKept'
    <3>1. /\ job[w].at # "recent" /\ UNCHANGED <<profile, opened>>
          /\ faults \subseteq faults'
      BY <2>6 DEF SaveProvider
    <3>2. CASE UNCHANGED job
      BY <1>5, <3>1, <3>2
    <3>3. ASSUME NEW j, j.at # "recent", Goto(w, j) PROVE RecentsKept'
      BY <1>4, <3>1, <3>3
    <3> QED
      BY <2>6, <3>2, <3>3 DEF SaveProvider
  <2>7. CASE LoadProviders(w)
    BY <1>4, <2>7 DEF LoadProviders
  <2> QED
    BY <1>1, <1>2, <1>6, <2>1, <2>2, <2>3, <2>4, <2>5, <2>6, <2>7 DEF Handlers
<1>7. ASSUME NEW w \in Windows, Steps(w) PROVE RecentsKept'
  <2> USE DEF Leave, Idle, database, ghosts, Meets
  <2>1. CASE TranslateFails(w)
    BY <1>4, <2>1 DEF TranslateFails
  <2>2. CASE RecordRun(w)
    <3>1. /\ job[w].at # "recent" /\ UNCHANGED <<profile, opened>>
          /\ faults \subseteq faults'
      BY <2>2 DEF RecordRun
    <3>2. ASSUME NEW j, j.at # "recent", Goto(w, j) PROVE RecentsKept'
      BY <1>4, <3>1, <3>2
    <3> QED
      BY <2>2, <3>2 DEF RecordRun
  <2>3. CASE HistoryRead(w)
    <3>1. /\ job[w].at # "recent" /\ UNCHANGED <<profile, opened>>
          /\ faults \subseteq faults'
      BY <2>3 DEF HistoryRead
    <3>2. ASSUME NEW j, j.at # "recent", Goto(w, j) PROVE RecentsKept'
      BY <1>4, <3>1, <3>2
    <3> QED
      BY <2>3, <3>2 DEF HistoryRead
  <2>4. CASE HistoryTruncate(w)
    BY <1>4, <2>4 DEF HistoryTruncate
  <2>5. CASE HistoryFill(w)
    BY <1>4, <2>5 DEF HistoryFill
  <2>6. CASE SettingsFill(w)
    BY <1>4, <2>6 DEF SettingsFill
  <2>7. CASE KeyTruncate(w)
    BY <1>4, <2>7 DEF KeyTruncate
  <2>8. CASE KeyFill(w)
    BY <1>4, <2>8 DEF KeyFill
  <2>9. CASE SaveRow(w)
    BY <1>4, <2>9 DEF SaveRow
  <2>10. CASE LoadKeys(w)
    BY <1>4, <2>10 DEF LoadKeys
  <2> QED
    BY <1>3, <1>7, <2>1, <2>2, <2>3, <2>4, <2>5, <2>6, <2>7, <2>8, <2>9, <2>10 DEF Steps
<1>8. ASSUME NEW w \in Windows, Fails(w) PROVE RecentsKept'
  BY <1>4, <1>8 DEF Fails, Leave, Idle, database, StoreOf
<1>9. ASSUME NEW w \in Windows, Restart(w) PROVE RecentsKept'
  BY <1>4, <1>9 DEF Restart, Leave, Idle, database, StoreOf
<1>10. CASE UNCHANGED vars
  BY <1>5, <1>10 DEF vars, database, windows, ghosts
<1> QED
  BY <1>6, <1>7, <1>8, <1>9, <1>10 DEF Next, Rest

\* For any number of windows, files and any limit: while no two windows write
\* the profile together, its recent files are the last files opened, each
\* once.
THEOREM RecentsAreLatest == Spec => []RecentsInStep
<1>1. Init => RecentsKept
  BY DeskAssumption DEF Init, RecentsKept, Idle, Once, Recents, Take, Least
<1>2. RecentsKept => RecentsInStep
  BY DEF RecentsKept, RecentsInStep
<1> QED
  BY <1>1, <1>2, RecentsKeptStep, TypeCorrect, PTL DEF Spec

-----------------------------------------------------------------------------
(* The history in step.                                                    *)

\* A rating of the run is stored, and on its way to the history.
Pending(run) ==
    \E v \in Windows : job[v].at = "read" /\ job[v].op = "rate" /\ job[v].run = run

\* The list shows the newest of the expected runs with their last ratings,
\* but for those on their way.
InStep(l) ==
    /\ l = [i \in 1..Least(HistoryLimit, Len(expected)) |->
               Record(expected[i], l[i].stars)]
    /\ \A i \in DOMAIN l : l[i].stars = LastRating(expected[i]) \/ Pending(expected[i])

\* No two windows have the same last run, and ratings are of stored runs.
LastsApart == \A v, w \in Windows : last[v] # 0 /\ last[v] = last[w] => v = w
RatingsOfRuns == \A i \in DOMAIN ratings : ratings[i].run \in DOMAIN runs

Awaited(run) == \E i \in DOMAIN expected : expected[i] = run
HasRating(run) == \E i \in DOMAIN ratings : ratings[i].run = run

\* A window about to read the history is there for its last run: to add it,
\* which nobody has rated or expects yet, or to attach its last rating.
ReadOK(w) ==
    job[w].at = "read" =>
       /\ job[w].run = last[w]
       /\ job[w].op = "add" =>
             /\ ~Awaited(job[w].run) /\ ~HasRating(job[w].run)
             /\ "settings" \notin faults => job[w].wished = TRUE
       /\ job[w].op = "rate" => job[w].stars = LastRating(job[w].run)

\* The settings are those last saved, but while one window saves them.
SettingsKept ==
    "settings" \notin faults =>
       /\ \A v, w \in Windows :
             job[v].at = "settingsFill" /\ job[w].at = "settingsFill" => v = w
       /\ \A w \in Windows : job[w].at = "settingsFill" => settings = Torn
       /\ (\A w \in Windows : job[w].at # "settingsFill") => settings = wished

\* So is the history, or the list one window is about to write there.
Writing(w) == job[w].at \in {"truncate", "fill"}
Clean == faults \cap {"history", "settings"} = {}
ListKept ==
    Clean =>
       /\ \A v, w \in Windows : Writing(v) /\ Writing(w) => v = w
       /\ \A w \in Windows : Writing(w) => InStep(job[w].list)
       /\ \A w \in Windows : job[w].at = "fill" => history = Torn
       /\ (\A w \in Windows : ~Writing(w)) => history # Torn /\ InStep(history)

RunsKept == LastsApart /\ RatingsOfRuns /\ Once(expected) /\ \A w \in Windows : ReadOK(w)
HistoryKept == RunsKept /\ SettingsKept /\ ListKept

-----------------------------------------------------------------------------

\* The greatest of finitely many numbers.
LEMMA MaxIn ==
    ASSUME NEW S, S \subseteq Int, IsFiniteSet(S), S # {}
    PROVE  Max(S) \in S /\ \A x \in S : x <= Max(S)
<1>1. Cardinality(S) \in 1..Cardinality(S)
  BY FS_CardinalityType, FS_EmptySet
<1>2. PICK x \in S : Place(S, x) = Cardinality(S)
  BY <1>1, PlaceTaken
<1>3. \A y \in S : y <= x
  <2> SUFFICES ASSUME NEW y \in S, x < y PROVE FALSE
    OBVIOUS
  <2>1. Place(S, x) < Place(S, y) /\ Place(S, y) \in 1..Cardinality(S)
    BY PlaceGrows
  <2> QED
    BY <1>1, <1>2, <2>1
<1> QED
  BY <1>3 DEF Max

\* The last rating of a run among more ratings.
LEMMA LastGiven ==
    ASSUME NEW S, ratings \in Seq(S), NEW r \in S, ratings' = Append(ratings, r)
    PROVE  /\ LastRating(r.run)' = r.stars
           /\ \A x : x # r.run => LastRating(x)' = LastRating(x)
<1> DEFINE n == Len(ratings)
           given(x) == {i \in DOMAIN ratings : ratings[i].run = x}
           later(x) == {i \in DOMAIN ratings' : ratings'[i].run = x}
<1>1. /\ n \in Nat /\ DOMAIN ratings = 1..n /\ DOMAIN ratings' = 1..(n + 1)
      /\ ratings'[n + 1] = r /\ \A i \in 1..n : ratings'[i] = ratings[i]
  BY AppendType
<1> HIDE DEF n
<1>2. IsFiniteSet(1..(n + 1))
  BY <1>1, UpTo
<1>3. \A x : /\ later(x) \subseteq Int /\ IsFiniteSet(later(x))
             /\ given(x) \subseteq 1..n /\ given(x) \subseteq later(x)
  <2> TAKE x
  <2>1. later(x) \subseteq 1..(n + 1) /\ given(x) \subseteq 1..n
    BY <1>1
  <2>2. IsFiniteSet(later(x))
    BY <1>2, <2>1, FS_Subset
  <2>3. given(x) \subseteq later(x)
    BY <1>1
  <2>4. 1..(n + 1) \subseteq Int
    BY <1>1
  <2> HIDE DEF given, later
  <2> QED
    BY <2>1, <2>2, <2>3, <2>4
<1>4. \A x : /\ LastRating(x) = IF given(x) = {} THEN 0 ELSE ratings[Max(given(x))].stars
             /\ LastRating(x)' = IF later(x) = {} THEN 0 ELSE ratings'[Max(later(x))].stars
  BY DEF LastRating
<1>5. LastRating(r.run)' = r.stars
  <2> DEFINE L == later(r.run)
  <2>1. n + 1 \in L
    BY <1>1
  <2>2. L \subseteq 1..(n + 1) /\ L \subseteq Int /\ IsFiniteSet(L)
    BY <1>1, <1>3
  <2>3. LastRating(r.run)' = IF L = {} THEN 0 ELSE ratings'[Max(L)].stars
    BY <1>4
  <2> HIDE DEF L
  <2>4. Max(L) \in L /\ n + 1 <= Max(L)
    BY <2>1, <2>2, MaxIn
  <2>5. \A m \in 1..(n + 1) : n + 1 <= m => m = n + 1
    BY <1>1
  <2>6. Max(L) = n + 1
    BY <2>2, <2>4, <2>5
  <2> QED
    BY <1>1, <2>1, <2>3, <2>6
<1>6. ASSUME NEW x, x # r.run PROVE LastRating(x)' = LastRating(x)
  <2> DEFINE G == given(x)
  <2>1. later(x) = G
    BY <1>1, <1>6
  <2>2. G \subseteq 1..n /\ G \subseteq Int /\ IsFiniteSet(G)
    BY <1>3, <2>1
  <2>3. /\ LastRating(x) = IF G = {} THEN 0 ELSE ratings[Max(G)].stars
        /\ LastRating(x)' = IF G = {} THEN 0 ELSE ratings'[Max(G)].stars
    BY <1>4, <2>1
  <2> HIDE DEF G
  <2>4. G # {} => Max(G) \in 1..n
    BY <2>2, MaxIn
  <2> QED
    BY <1>1, <2>3, <2>4
<1> QED
  BY <1>5, <1>6

\* A run nobody rated.
LEMMA Unrated ==
    ASSUME NEW run, ~HasRating(run)
    PROVE  LastRating(run) = 0
BY DEF LastRating, HasRating

\* A list in step stays so while the runs it shows keep their configs, and
\* each its rating or a rating on its way.
LEMMA InStepStays ==
    ASSUME TypeOK, NEW l, InStep(l), expected' = expected,
           \A i \in DOMAIN runs : runs'[i] = runs[i],
           \A x \in DOMAIN runs :
              Pending(x)' \/ (LastRating(x)' = LastRating(x) /\ ~Pending(x))
    PROVE  InStep(l)'
<1>1. expected \in Seq(DOMAIN runs) /\ HistoryLimit \in Nat
  BY DeskAssumption DEF TypeOK
<1> DEFINE n == Least(HistoryLimit, Len(expected))
<1>2. /\ 1..n \subseteq DOMAIN expected
      /\ \A i \in DOMAIN expected : expected[i] \in DOMAIN runs
  BY <1>1 DEF Least
<1>3. l = [i \in 1..n |-> Record(expected[i], l[i].stars)] /\ DOMAIN l = 1..n
  BY DEF InStep
<1> HIDE DEF n
<1>4. \A i \in 1..n : Record(expected[i], l[i].stars)' = Record(expected[i], l[i].stars)
  BY <1>2 DEF Record
<1>5. l = [i \in 1..n |-> Record(expected[i], l[i].stars)']
  BY <1>3, <1>4
<1>6. \A i \in 1..n : LastRating(expected[i])' = l[i].stars \/ Pending(expected[i])'
  BY <1>2, <1>3 DEF InStep
<1> QED
  BY <1>3, <1>5, <1>6 DEF InStep, n

\* A window at the history, or on its way there, stays as it is.
LEMMA ReadStays ==
    ASSUME NEW v \in Windows, ReadOK(v), job'[v] = job[v], last'[v] = last[v],
           faults \subseteq faults', NEW r, r = job[v].run,
           job[v].at = "read" =>
              /\ Awaited(r)' => Awaited(r)
              /\ HasRating(r)' => HasRating(r)
              /\ LastRating(r)' = LastRating(r)
    PROVE  ReadOK(v)'
BY DEF ReadOK

\* The settings are as they were.
LEMMA SettingsStay ==
    ASSUME SettingsKept, UNCHANGED <<settings, wished>>, faults \subseteq faults',
           \A v \in Windows : job'[v].at = "settingsFill" <=> job[v].at = "settingsFill"
    PROVE  SettingsKept'
BY DEF SettingsKept

\* So is the history, or the list on its way there.
LEMMA ListStays ==
    ASSUME ListKept, history' = history, faults \subseteq faults',
           \A v \in Windows : /\ job'[v].at = "fill" <=> job[v].at = "fill"
                              /\ Writing(v)' <=> Writing(v)
                              /\ Writing(v) => job'[v] = job[v],
           Clean' => \A l : InStep(l) => InStep(l)'
    PROVE  ListKept'
<1> SUFFICES ASSUME Clean' PROVE ListKept'
  BY DEF ListKept
<1>1. Clean
  BY DEF Clean
<1>2. \A v \in Windows : Writing(v)' => InStep(job[v].list)'
  <2> SUFFICES ASSUME NEW v \in Windows, Writing(v)' PROVE InStep(job[v].list)'
    OBVIOUS
  <2>1. Writing(v) /\ job'[v] = job[v]
    OBVIOUS
  <2>2. PICK l : l = job[v].list
    OBVIOUS
  <2>3. InStep(l)'
    BY <1>1, <2>1, <2>2 DEF ListKept
  <2> QED
    BY <2>1, <2>2, <2>3 DEF InStep
<1>3. (\A v \in Windows : ~Writing(v)') => history' # Torn /\ InStep(history)'
  <2>1. PICK l : l = history
    OBVIOUS
  <2>2. InStep(l) => InStep(l)'
    OBVIOUS
  <2> QED
    BY <1>1, <2>1, <2>2 DEF ListKept, InStep
<1> QED
  BY <1>1, <1>2, <1>3 DEF ListKept

AtHistory == {"read", "truncate", "fill", "settingsFill"}

\* A step elsewhere.
LEMMA HistoryElsewhere ==
    ASSUME TypeOK, HistoryKept, faults \subseteq faults',
           UNCHANGED <<runs, ratings, history, settings, wished, expected, last>>,
           \A v \in Windows :
              \/ job'[v] = job[v]
              \/ job'[v].at \notin AtHistory /\ job[v].at \notin AtHistory
    PROVE  HistoryKept'
<1>1. \A v \in Windows : /\ job'[v].at \in AtHistory => job'[v] = job[v]
                         /\ job[v].at \in AtHistory => job'[v] = job[v]
  OBVIOUS
<1>2. \A x : /\ Pending(x)' <=> Pending(x)
             /\ LastRating(x)' = LastRating(x)
             /\ Awaited(x)' <=> Awaited(x)
             /\ HasRating(x)' <=> HasRating(x)
  BY <1>1 DEF Pending, LastRating, Awaited, HasRating, AtHistory
<1>3. RunsKept'
  <2>1. ASSUME NEW v \in Windows PROVE ReadOK(v)'
    <3>1. CASE job'[v].at = "read"
      <4>1. job'[v] = job[v] /\ ReadOK(v) /\ last'[v] = last[v]
        BY <1>1, <3>1 DEF AtHistory, HistoryKept, RunsKept
      <4> QED
        BY <1>2, <4>1, ReadStays
    <3> QED
      BY <3>1 DEF ReadOK
  <2> QED
    BY <2>1 DEF HistoryKept, RunsKept, LastsApart, RatingsOfRuns
<1>4. SettingsKept'
  BY <1>1, SettingsStay DEF HistoryKept, AtHistory
<1>5. ListKept'
  <2>1. \A v \in Windows : /\ (job'[v].at = "fill" <=> job[v].at = "fill")
                           /\ (Writing(v)' <=> Writing(v))
                           /\ Writing(v) => job'[v] = job[v]
    BY <1>1 DEF Writing, AtHistory
  <2>2. \A l : InStep(l) => InStep(l)'
    BY <1>2 DEF InStep, Record
  <2> QED
    BY <2>1, <2>2, ListStays DEF HistoryKept
<1> QED
  BY <1>3, <1>4, <1>5 DEF HistoryKept

\* A handler that ends early: its store is behind.
LEMMA HistoryEnds ==
    ASSUME TypeOK, HistoryKept, NEW w \in Windows, Goto(w, Idle),
           UNCHANGED <<runs, ratings, history, settings, wished, expected>>,
           last' = last \/ last' = [last EXCEPT ![w] = 0],
           faults \subseteq faults',
           job[w].at \in {"read", "truncate", "fill"} => "history" \in faults',
           job[w].at = "settingsFill" => "settings" \in faults'
    PROVE  HistoryKept'
<1>1. job'[w] = Idle /\ \A v \in Windows \ {w} : job'[v] = job[v]
  BY GoesOn
<1>2. \A v \in Windows : v # w => last'[v] = last[v]
  BY DEF TypeOK
<1>3. \A x : /\ LastRating(x)' = LastRating(x)
             /\ Awaited(x)' <=> Awaited(x)
             /\ HasRating(x)' <=> HasRating(x)
  BY DEF LastRating, Awaited, HasRating
<1>4. RunsKept'
  <2>1. ASSUME NEW v \in Windows PROVE ReadOK(v)'
    <3>1. CASE v = w
      BY <1>1, <3>1 DEF ReadOK, Idle
    <3>2. CASE v # w
      <4>1. job'[v] = job[v] /\ ReadOK(v) /\ last'[v] = last[v]
        BY <1>1, <1>2, <3>2 DEF HistoryKept, RunsKept
      <4> QED
        BY <1>3, <4>1, ReadStays
    <3> QED
      BY <3>1, <3>2
  <2>2. LastsApart'
    BY <1>2 DEF HistoryKept, RunsKept, LastsApart, TypeOK
  <2> QED
    BY <2>1, <2>2 DEF HistoryKept, RunsKept, RatingsOfRuns
<1>5. SettingsKept'
  <2>1. CASE "settings" \in faults'
    BY <2>1 DEF SettingsKept
  <2>2. CASE job[w].at # "settingsFill"
    <3>1. \A v \in Windows : job'[v].at = "settingsFill" <=> job[v].at = "settingsFill"
      BY <1>1, <2>2 DEF Idle
    <3> QED
      BY <3>1, SettingsStay DEF HistoryKept
  <2> QED
    BY <2>1, <2>2
<1>6. ListKept'
  <2>1. CASE job[w].at \in AtHistory
    BY <2>1 DEF ListKept, Clean, AtHistory
  <2>2. CASE job[w].at \notin AtHistory
    <3>1. \A v \in Windows : /\ (job'[v].at = "fill" <=> job[v].at = "fill")
                             /\ (Writing(v)' <=> Writing(v))
                             /\ Writing(v) => job'[v] = job[v]
      BY <1>1, <2>2 DEF Writing, AtHistory, Idle
    <3>2. \A x : Pending(x)' <=> Pending(x)
      BY <1>1, <2>2 DEF Pending, AtHistory, Idle
    <3>3. \A l : InStep(l) => InStep(l)'
      BY <1>3, <3>2 DEF InStep, Record
    <3> QED
      BY <3>1, <3>3, ListStays DEF HistoryKept
  <2> QED
    BY <2>1, <2>2
<1> QED
  BY <1>4, <1>5, <1>6 DEF HistoryKept

\* A rating is stored, and on its way to the history.
LEMMA KeptSubmitRating ==
    ASSUME TypeOK, HistoryKept, NEW w \in Windows, NEW stars \in Rates,
           ops < MaxOps, SubmitRating(w, stars)
    PROVE  HistoryKept'
<1> DEFINE r == Filed(w, stars)
           j == [at |-> "read", op |-> "rate", run |-> last[w],
                 stars |-> stars, wished |-> FALSE]
<1>0. PICK n : n = last[w]
  OBVIOUS
<1>1. /\ ratings' = Append(ratings, r) /\ Goto(w, j) /\ n # 0 /\ job[w] = Idle
      /\ UNCHANGED <<runs, history, settings, last, wished, expected, faults>>
  BY <1>0 DEF SubmitRating, Stored, Call, files, ghosts
<1>2. job'[w] = j /\ \A v \in Windows \ {w} : job'[v] = job[v]
  BY <1>1, GoesOn
<1>3. r.run = n /\ r.stars = stars
  BY <1>0 DEF Filed, Rating
<1>4. ratings \in Seq(RatingRow) /\ r \in RatingRow
  <2>1. TypeOK'
    BY TypeSubmitRating
  <2>2. ratings \in Seq(RatingRow) /\ ratings' \in Seq(RatingRow)
    BY <2>1 DEF TypeOK, RatingRow
  <2> HIDE DEF r
  <2>3. ratings'[Len(ratings) + 1] = r /\ Len(ratings) + 1 \in DOMAIN ratings'
    BY <1>1, <2>2
  <2> QED
    BY <2>2, <2>3
<1> HIDE DEF r
<1>5. LastRating(n)' = stars /\ \A x : x # n => LastRating(x)' = LastRating(x)
  BY <1>1, <1>3, <1>4, LastGiven
<1>6. n \in DOMAIN runs
  <2>1. n \in 0..Len(runs) /\ runs \in Seq(RunRow)
    BY <1>0 DEF TypeOK, RunRow
  <2> QED
    BY <1>1, <2>1
<1>7. /\ \A x : x # n => (HasRating(x)' => HasRating(x))
      /\ RatingsOfRuns'
  <2>1. \A i \in DOMAIN ratings' :
           ratings'[i] = r \/ (i \in DOMAIN ratings /\ ratings'[i] = ratings[i])
    BY <1>1, <1>4
  <2> QED
    BY <1>1, <1>3, <1>6, <2>1 DEF HasRating, RatingsOfRuns, HistoryKept, RunsKept
<1>8. RunsKept'
  <2>1. ASSUME NEW v \in Windows PROVE ReadOK(v)'
    <3>1. CASE v = w
      BY <1>0, <1>1, <1>2, <1>5, <3>1 DEF ReadOK
    <3>2. CASE v # w
      <4>1. job'[v] = job[v] /\ last'[v] = last[v] /\ ReadOK(v)
        BY <1>1, <1>2, <3>2 DEF HistoryKept, RunsKept
      <4>2. PICK x : x = job[v].run
        OBVIOUS
      <4>3. job[v].at = "read" => x # n
        BY <1>0, <1>1, <3>2, <4>1, <4>2 DEF ReadOK, HistoryKept, RunsKept, LastsApart
      <4>4. Awaited(x)' => Awaited(x)
        BY <1>1 DEF Awaited
      <4> QED
        BY <1>1, <1>5, <1>7, <4>1, <4>2, <4>3, <4>4, ReadStays
    <3> QED
      BY <3>1, <3>2
  <2> QED
    BY <1>1, <1>7, <2>1 DEF HistoryKept, RunsKept, LastsApart
<1>9. SettingsKept'
  <2>1. \A v \in Windows : job'[v].at = "settingsFill" <=> job[v].at = "settingsFill"
    BY <1>1, <1>2 DEF Idle
  <2> QED
    BY <1>1, <2>1, SettingsStay DEF HistoryKept
<1>10. ListKept'
  <2>1. \A v \in Windows : /\ (job'[v].at = "fill" <=> job[v].at = "fill")
                           /\ (Writing(v)' <=> Writing(v))
                           /\ Writing(v) => job'[v] = job[v]
    BY <1>1, <1>2 DEF Writing, Idle
  <2>2. Pending(n)'
    BY <1>0, <1>2 DEF Pending
  <2>3. \A x : x # n => (Pending(x)' <=> Pending(x))
    BY <1>0, <1>1, <1>2 DEF Pending, Idle
  <2>4. ASSUME NEW l, InStep(l) PROVE InStep(l)'
    <3>1. \A x \in DOMAIN runs :
             Pending(x)' \/ (LastRating(x)' = LastRating(x) /\ ~Pending(x))
      BY <1>5, <2>2, <2>3
    <3> QED
      BY <1>1, <2>4, <3>1, InStepStays
  <2> QED
    BY <1>1, <2>1, <2>4, ListStays DEF HistoryKept
<1> QED
  BY <1>8, <1>9, <1>10 DEF HistoryKept

\* A run is stored; it is wanted in the history as the settings last saved
\* say, or those are being saved at the time.
LEMMA KeptRecordRun ==
    ASSUME TypeOK, HistoryKept, NEW w \in Windows, RecordRun(w)
    PROVE  HistoryKept'
<1>0. PICK n : n = Len(runs) + 1
  OBVIOUS
<1> DEFINE r == Run(w)
           j == [at |-> "read", op |-> "add", run |-> n, stars |-> 0, wished |-> wished]
<1>1. /\ runs' = Append(runs, r) /\ last' = [last EXCEPT ![w] = n] /\ job[w].at = "run"
      /\ UNCHANGED <<ratings, history, settings, wished>>
  BY <1>0 DEF RecordRun, files
<1>2. r \in RunRow /\ runs \in Seq(RunRow)
  BY RunType DEF RecordRun, TypeOK, RunRow
<1> HIDE DEF r
<1>3. /\ Len(runs) \in Nat /\ DOMAIN runs = 1..Len(runs) /\ DOMAIN runs \subseteq DOMAIN runs'
      /\ \A i \in DOMAIN runs : runs'[i] = runs[i]
  BY <1>1, <1>2, AppendType
<1>4. n # 0 /\ n \notin DOMAIN runs
  BY <1>0, <1>3
<1>5. last'[w] = n /\ \A v \in Windows : v # w => last'[v] = last[v] /\ last[v] # n
  <2>1. last \in [Windows -> 0..Len(runs)]
    BY DEF TypeOK
  <2>2. n \notin 0..Len(runs)
    BY <1>0, <1>3
  <2> QED
    BY <1>1, <2>1, <2>2
<1>6. expected \in Seq(DOMAIN runs)
  BY DEF TypeOK
<1>7. \A i \in DOMAIN expected : expected[i] \in DOMAIN runs
  BY <1>6
<1>8. \A v \in Windows \ {w} : job'[v] = job[v]
  <2>1. Goto(w, Idle) \/ Goto(w, j)
    BY <1>0 DEF RecordRun, Leave
  <2> HIDE DEF j
  <2> QED
    BY <2>1, GoesOn
<1>9. /\ faults \subseteq faults'
      /\ \/ job'[w] = Idle /\ expected' = expected
         \/ job'[w] = j /\ expected' = expected /\ ("settings" \notin faults' => AutoSaves /\ ~Busy(w, {"settingsFill"}))
         \/ /\ job'[w] = Idle
            /\ expected' = IF wished THEN <<n>> \o expected ELSE expected
            /\ "settings" \notin faults' => ~AutoSaves /\ ~Busy(w, {"settingsFill"})
  <2>1. CASE w \in Tk /\ Leave(w) /\ UNCHANGED <<expected, faults>>
    BY <2>1, GoesOn DEF Leave
  <2>2. CASE w \notin Tk /\ AutoSaves /\ Goto(w, j) /\ Meets(w, "settings", {"settingsFill"})
             /\ UNCHANGED expected
    <3>1. job'[w] = j
      <4> HIDE DEF j
      <4> QED
        BY <2>2, GoesOn
    <3> QED
      BY <2>2, <3>1 DEF Meets
  <2>3. CASE /\ w \notin Tk /\ ~AutoSaves /\ Leave(w) /\ Meets(w, "settings", {"settingsFill"})
             /\ expected' = IF wished THEN <<n>> \o expected ELSE expected
    <3>1. job'[w] = Idle
      BY <2>3, GoesOn DEF Leave
    <3> QED
      BY <2>3, <3>1 DEF Meets
  <2> QED
    BY <1>0, <2>1, <2>2, <2>3 DEF RecordRun
\* Where nobody saves the settings, they are what was last saved.
<1>10. "settings" \notin faults' /\ ~Busy(w, {"settingsFill"}) => (AutoSaves <=> wished)
  <2> SUFFICES ASSUME "settings" \notin faults', ~Busy(w, {"settingsFill"})
               PROVE  AutoSaves <=> wished
    OBVIOUS
  <2>1. \A v \in Windows : job[v].at # "settingsFill"
    BY <1>1 DEF Busy
  <2>2. "settings" \notin faults
    BY <1>9
  <2>3. settings = wished
    BY <2>1, <2>2 DEF HistoryKept, SettingsKept
  <2>4. wished \in BOOLEAN
    BY DEF TypeOK
  <2> QED
    BY <2>3, <2>4, DeskAssumption DEF AutoSaves
<1>11. expected' = expected \/ (expected' = <<n>> \o expected /\ job'[w] = Idle /\ "settings" \in faults')
  BY <1>9, <1>10
<1>12. \A x : /\ LastRating(x)' = LastRating(x)
              /\ HasRating(x)' <=> HasRating(x)
  BY <1>1 DEF LastRating, HasRating
<1>13. \A x : x # n /\ Awaited(x)' => Awaited(x)
  <2>1. \A x : x # n => ((\E i \in DOMAIN (<<n>> \o expected) : (<<n>> \o expected)[i] = x)
                          => \E i \in DOMAIN expected : expected[i] = x)
    BY <1>6
  <2> QED
    BY <1>11, <2>1 DEF Awaited
<1>14. RunsKept'
  <2>1. LastsApart'
    BY <1>5 DEF HistoryKept, RunsKept, LastsApart
  <2>2. RatingsOfRuns'
    BY <1>1, <1>3 DEF HistoryKept, RunsKept, RatingsOfRuns
  <2>3. Once(expected')
    <3>1. Once(expected)
      BY DEF HistoryKept, RunsKept
    <3>2. Once(<<n>> \o expected)
      BY <1>4, <1>6, <1>7, <3>1, OnceFirst
    <3> QED
      BY <1>11, <3>1, <3>2
  <2>4. ASSUME NEW v \in Windows, v # w PROVE ReadOK(v)'
    <3>1. job'[v] = job[v] /\ last'[v] = last[v] /\ ReadOK(v)
      BY <1>5, <1>8, <2>4 DEF HistoryKept, RunsKept
    <3>2. PICK x : x = job[v].run
      OBVIOUS
    <3>3. job[v].at = "read" => x # n
      BY <1>5, <2>4, <3>1, <3>2 DEF ReadOK
    <3> QED
      BY <1>9, <1>12, <1>13, <3>1, <3>2, <3>3, ReadStays
  <2>5. ReadOK(w)'
    <3>1. CASE job'[w] = Idle
      BY <3>1 DEF ReadOK, Idle
    <3>2. CASE job'[w] = j
      <4>1. expected' = expected /\ ("settings" \notin faults' => wished = TRUE)
        <5>1. wished \in BOOLEAN
          BY DEF TypeOK
        <5>2. Idle # j
          BY DEF Idle
        <5> QED
          BY <1>9, <1>10, <3>2, <5>1, <5>2
      <4>2. ~Awaited(n)'
        BY <1>4, <1>7, <4>1 DEF Awaited
      <4>3. ~HasRating(n)'
        BY <1>1, <1>4 DEF HasRating, HistoryKept, RunsKept, RatingsOfRuns
      <4>4. job'[w].at = "read" /\ job'[w].op = "add" /\ job'[w].run = n
            /\ job'[w].wished = wished
        BY <3>2
      <4> HIDE DEF j
      <4> QED
        BY <1>5, <4>1, <4>2, <4>3, <4>4 DEF ReadOK
    <3> QED
      BY <1>9, <3>1, <3>2
  <2> QED
    BY <2>1, <2>2, <2>3, <2>4, <2>5 DEF RunsKept
<1>15. /\ job'[w].at \notin {"settingsFill", "truncate", "fill"}
       /\ job'[w].at = "read" => job'[w].op = "add"
  BY <1>9 DEF Idle
<1>16. SettingsKept'
  <2>1. \A v \in Windows : job'[v].at = "settingsFill" <=> job[v].at = "settingsFill"
    BY <1>1, <1>8, <1>15
  <2> QED
    BY <1>1, <1>9, <2>1, SettingsStay DEF HistoryKept
<1>17. ListKept'
  <2>1. \A v \in Windows : /\ (job'[v].at = "fill" <=> job[v].at = "fill")
                           /\ (Writing(v)' <=> Writing(v))
                           /\ Writing(v) => job'[v] = job[v]
    BY <1>1, <1>8, <1>15 DEF Writing
  <2>2. \A x : Pending(x)' <=> Pending(x)
    BY <1>1, <1>8, <1>15 DEF Pending
  <2>3. ASSUME Clean', NEW l, InStep(l) PROVE InStep(l)'
    <3>1. expected' = expected
      BY <1>11, <2>3 DEF Clean
    <3>2. \A x \in DOMAIN runs :
             Pending(x)' \/ (LastRating(x)' = LastRating(x) /\ ~Pending(x))
      BY <1>12, <2>2
    <3> QED
      BY <1>3, <2>3, <3>1, <3>2, InStepStays
  <2> QED
    BY <1>1, <1>9, <2>1, <2>3, ListStays DEF HistoryKept
<1> QED
  BY <1>14, <1>16, <1>17 DEF HistoryKept

\* What a list in step shows.
LEMMA InStepParts ==
    ASSUME TypeOK, NEW l, InStep(l)
    PROVE  /\ expected \in Seq(DOMAIN runs) /\ Len(expected) \in Nat
           /\ DOMAIN l = 1..Least(HistoryLimit, Len(expected))
           /\ DOMAIN l \subseteq DOMAIN expected
           /\ \A i \in DOMAIN l : /\ l[i] = Record(expected[i], l[i].stars)
                                  /\ l[i].run = expected[i]
<1>1. expected \in Seq(DOMAIN runs) /\ Len(expected) \in Nat /\ HistoryLimit \in Nat
  BY DeskAssumption DEF TypeOK
<1> DEFINE n == Least(HistoryLimit, Len(expected))
<1>2. 1..n \subseteq DOMAIN expected
  BY <1>1 DEF Least
<1>3. l = [i \in 1..n |-> Record(expected[i], l[i].stars)]
  BY DEF InStep
<1> HIDE DEF n
<1>4. DOMAIN l = 1..n /\ \A i \in 1..n : l[i] = Record(expected[i], l[i].stars)
  BY <1>3
<1>5. \A i \in 1..n : l[i].run = expected[i]
  BY <1>4 DEF Record
<1> QED
  BY <1>1, <1>2, <1>4, <1>5 DEF n

\* While nobody writes the history, it is read as it is.
LEMMA ReadInStep ==
    ASSUME TypeOK, HistoryKept, Clean, \A v \in Windows : ~Writing(v)
    PROVE  Listed = history /\ InStep(history) /\ history \in Seq(Entry) /\ history # Torn
<1>1. history # Torn /\ InStep(history)
  BY DEF HistoryKept, ListKept
<1>2. history \in Seq(Entry)
  BY <1>1 DEF TypeOK
<1>3. DOMAIN history = 1..Least(HistoryLimit, Len(expected)) /\ Len(expected) \in Nat
  <2>1. PICK l : l = history
    OBVIOUS
  <2>2. DOMAIN l = 1..Least(HistoryLimit, Len(expected)) /\ Len(expected) \in Nat
    BY <1>1, <2>1, InStepParts
  <2> QED
    BY <2>1, <2>2
<1>4. Len(history) <= HistoryLimit /\ HistoryLimit \in Nat
  BY <1>2, <1>3, DeskAssumption DEF Least
<1>5. Take(history, HistoryLimit) = history
  <2>1. Least(HistoryLimit, Len(history)) = Len(history)
    BY <1>2, <1>4 DEF Least
  <2>2. SubSeq(history, 1, Len(history)) = history
    BY <1>2
  <2> QED
    BY <2>1, <2>2 DEF Take
<1> QED
  BY <1>1, <1>2, <1>5 DEF Listed

\* The first items of a list.
LEMMA FirstItems ==
    ASSUME NEW S, NEW s \in Seq(S), NEW n \in Nat, n <= Len(s)
    PROVE  /\ DOMAIN SubSeq(s, 1, n) = 1..n
           /\ SubSeq(s, 1, n) = [i \in 1..n |-> SubSeq(s, 1, n)[i]]
           /\ \A i \in 1..n : SubSeq(s, 1, n)[i] = s[i]
OBVIOUS

\* A run comes first.
LEMMA AddedInStep ==
    ASSUME TypeOK, NEW h, h \in Seq(Entry), InStep(h), NEW x \in DOMAIN runs,
           expected' = <<x>> \o expected, UNCHANGED <<runs, ratings>>,
           \A y : Pending(y)' <=> Pending(y), ~HasRating(x),
           NEW l, l = Take(<<Record(x, 0)>> \o h, HistoryLimit)
    PROVE  InStep(l)'
<1> DEFINE e == Record(x, 0)
           m == Least(HistoryLimit, Len(expected) + 1)
           u == <<e>> \o h
<1>1. /\ expected \in Seq(DOMAIN runs) /\ Len(expected) \in Nat
      /\ DOMAIN h = 1..Least(HistoryLimit, Len(expected))
      /\ DOMAIN h \subseteq DOMAIN expected
      /\ \A i \in DOMAIN h : h[i] = Record(expected[i], h[i].stars)
  BY InStepParts
<1>2. HistoryLimit \in Nat \ {0}
  BY DeskAssumption
<1>3. /\ Len(expected') = Len(expected) + 1 /\ expected'[1] = x
      /\ \A i \in 2..m : expected'[i] = expected[i - 1]
  BY <1>1, <1>2 DEF Least
<1>4. e \in Entry
  BY RecordType
<1> HIDE DEF e
<1>5. /\ u \in Seq(Entry) /\ Len(u) = Len(h) + 1 /\ u[1] = e
      /\ \A i \in 2..(Len(h) + 1) : u[i] = h[i - 1]
  BY <1>4
<1>6. Least(HistoryLimit, Len(u)) = m /\ m \in Nat /\ 1 <= m /\ m <= Len(h) + 1
      /\ m <= Len(u) /\ Len(h) \in Nat
  BY <1>1, <1>2, <1>5 DEF Least
<1>7. l = SubSeq(u, 1, m)
  BY <1>6 DEF Take, e
<1> HIDE DEF u, m
<1>8. DOMAIN l = 1..m /\ l = [i \in 1..m |-> l[i]] /\ \A i \in 1..m : l[i] = u[i]
  <2>1. /\ DOMAIN SubSeq(u, 1, m) = 1..m
        /\ SubSeq(u, 1, m) = [i \in 1..m |-> SubSeq(u, 1, m)[i]]
        /\ \A i \in 1..m : SubSeq(u, 1, m)[i] = u[i]
    BY <1>5, <1>6, FirstItems
  <2> QED
    BY <1>7, <2>1
<1>9. l[1] = e /\ \A i \in 2..m : l[i] = h[i - 1] /\ i - 1 \in DOMAIN h
  <2>1. \A i \in 2..m : i - 1 \in DOMAIN h /\ i \in 2..(Len(h) + 1) /\ i \in 1..m
    BY <1>6, DOMAIN h = 1..Len(h)
  <2>2. 1 \in 1..m
    BY <1>6
  <2> QED
    BY <1>5, <1>8, <2>1, <2>2
<1>10. ASSUME NEW i \in 1..m
       PROVE  /\ l[i] = Record(expected'[i], l[i].stars)
              /\ l[i].stars = LastRating(expected'[i]) \/ Pending(expected'[i])
  <2>1. CASE i = 1
    <3>1. LastRating(x) = 0
      BY Unrated
    <3>2. e = Record(x, e.stars) /\ e.stars = 0
      BY DEF e, Record
    <3> QED
      BY <1>3, <1>9, <2>1, <3>1, <3>2
  <2>2. CASE i # 1
    <3>1. i \in 2..m
      BY <1>6, <2>2
    <3>2. l[i] = h[i - 1] /\ expected'[i] = expected[i - 1] /\ i - 1 \in DOMAIN h
      BY <1>3, <1>9, <3>1
    <3> QED
      BY <1>1, <3>2 DEF InStep
  <2> QED
    BY <2>1, <2>2
<1>11. Least(HistoryLimit, Len(expected')) = m
  BY <1>3 DEF m
<1>12. l = [i \in 1..m |-> Record(expected'[i], l[i].stars)]
  BY <1>8, <1>10
<1>13. \A i \in 1..m : Record(expected[i], l[i].stars)' = Record(expected'[i], l[i].stars)
  BY DEF Record
<1>14. ASSUME NEW i \in 1..m
       PROVE  l[i].stars = LastRating(expected[i])' \/ Pending(expected[i])'
  <2>1. PICK y : y = expected'[i]
    OBVIOUS
  <2>2. l[i].stars = LastRating(y)' \/ Pending(y)'
    <3>1. LastRating(y)' = LastRating(y)
      BY DEF LastRating
    <3> QED
      BY <1>10, <2>1, <3>1
  <2> QED
    BY <2>1, <2>2
<1>15. l = [i \in 1..m |-> Record(expected[i], l[i].stars)']
  BY <1>12, <1>13
<1> QED
  BY <1>8, <1>11, <1>14, <1>15 DEF InStep

\* A rating arrives at the record of its run, wherever that stands.
LEMMA RatedInStep ==
    ASSUME TypeOK, NEW h, h \in Seq(Entry), InStep(h), Once(expected),
           UNCHANGED <<runs, ratings, expected>>, NEW x, NEW s, LastRating(x) = s,
           \A y : y # x /\ Pending(y) => Pending(y)',
           NEW l, l = [i \in DOMAIN h |-> IF expected[i] = x
                                          THEN [h[i] EXCEPT !.stars = s] ELSE h[i]]
    PROVE  InStep(l)'
<1>1. /\ DOMAIN h = 1..Least(HistoryLimit, Len(expected))
      /\ DOMAIN h \subseteq DOMAIN expected
      /\ \A i \in DOMAIN h : h[i] = Record(expected[i], h[i].stars)
  BY InStepParts
<1>2. DOMAIN l = DOMAIN h
  OBVIOUS
<1>3. ASSUME NEW i \in DOMAIN h
      PROVE  /\ l[i] = Record(expected[i], l[i].stars)
             /\ l[i].stars = LastRating(expected[i]) \/ Pending(expected[i])'
  <2>1. CASE expected[i] = x
    <3>1. l[i] = [Record(x, h[i].stars) EXCEPT !.stars = s]
      BY <1>1, <2>1
    <3>2. l[i] = Record(x, s) /\ l[i].stars = s
      BY <3>1 DEF Record
    <3> QED
      BY <2>1, <3>2
  <2>2. CASE expected[i] # x
    <3>1. l[i] = h[i]
      BY <2>2
    <3>2. h[i].stars = LastRating(expected[i]) \/ Pending(expected[i])
      BY DEF InStep
    <3>3. PICK y : y = expected[i]
      OBVIOUS
    <3>4. Pending(y) => Pending(y)'
      BY <2>2, <3>3
    <3>5. Pending(expected[i]) => Pending(expected[i])'
      BY <3>3, <3>4
    <3> QED
      BY <1>1, <3>1, <3>2, <3>5
  <2> QED
    BY <2>1, <2>2
<1>4. l = [i \in DOMAIN h |-> l[i]]
  OBVIOUS
<1>5. l = [i \in DOMAIN h |-> Record(expected[i], l[i].stars)]
  BY <1>3, <1>4
<1>6. \A i : Record(expected[i], l[i].stars)' = Record(expected[i], l[i].stars)
             /\ LastRating(expected[i])' = LastRating(expected[i])
  BY DEF Record, LastRating
<1>7. l = [i \in 1..Least(HistoryLimit, Len(expected')) |-> Record(expected[i], l[i].stars)']
  BY <1>1, <1>5, <1>6
<1>8. \A i \in DOMAIN l : l[i].stars = LastRating(expected[i])' \/ Pending(expected[i])'
  BY <1>2, <1>3, <1>6
<1> QED
  BY <1>7, <1>8 DEF InStep

\* Where attach_rating finds a run.
LEMMA FirstThere ==
    ASSUME TypeOK, NEW h, InStep(h), Listed = h, Once(expected), NEW x
    PROVE  /\ \A i \in DOMAIN h : i \in First(x) <=> expected[i] = x
           /\ First(x) \subseteq DOMAIN h
<1>1. /\ DOMAIN h = 1..Least(HistoryLimit, Len(expected))
      /\ DOMAIN h \subseteq DOMAIN expected
      /\ \A i \in DOMAIN h : h[i].run = expected[i]
  BY InStepParts
<1>2. ASSUME NEW i \in DOMAIN h, expected[i] = x, NEW j \in 1..(i - 1)
      PROVE  h[j].run # x
  <2>1. i \in Int /\ j \in Int /\ j < i /\ j \in DOMAIN h
    <3>1. HistoryLimit \in Nat /\ Len(expected) \in Nat
      BY DeskAssumption DEF TypeOK
    <3> QED
      BY <1>1, <3>1 DEF Least
  <2> QED
    BY <1>1, <1>2, <2>1 DEF Once
<1> QED
  BY <1>1, <1>2 DEF First

\* A window reads the history and adds its run, attaches its rating, or
\* finds no record to attach it to.
LEMMA KeptHistoryRead ==
    ASSUME TypeOK, HistoryKept, NEW w \in Windows, HistoryRead(w)
    PROVE  HistoryKept'
<1>0. PICK x, s : x = job[w].run /\ s = job[w].stars
  OBVIOUS
<1>1. /\ UNCHANGED <<runs, ratings, history, settings, last, wished>>
      /\ job[w].at = "read" /\ Meets(w, "history", {"truncate", "fill"})
      /\ \A v \in Windows \ {w} : job'[v] = job[v]
  BY GoesOn DEF HistoryRead, database, files, Leave
<1>2. /\ x \in DOMAIN runs /\ x = last[w] /\ x # 0 /\ ReadOK(w)
      /\ runs \in Seq(RunRow)
  BY <1>0, <1>1 DEF TypeOK, JobOK, ReadOK, HistoryKept, RunsKept, RunRow
<1>3. \/ /\ job[w].op = "add"
         /\ job'[w] = [at |-> "truncate", list |-> Added(x)]
         /\ expected' = IF job[w].wished THEN <<x>> \o expected ELSE expected
      \/ /\ job[w].op = "rate" /\ First(x) # {}
         /\ job'[w] = [at |-> "truncate", list |-> Rated(x, s)]
         /\ expected' = expected
      \/ /\ job[w].op = "rate" /\ First(x) = {}
         /\ job'[w] = Idle
         /\ expected' = expected
  <2>1. ASSUME NEW j, Goto(w, j) PROVE job'[w] = j
    BY <2>1, GoesOn
  <2> QED
    BY <1>0, <2>1 DEF HistoryRead, Leave
<1>4. expected \in Seq(DOMAIN runs) /\ Once(expected)
  BY DEF TypeOK, HistoryKept, RunsKept
<1>5. faults \subseteq faults'
  BY <1>1 DEF Meets
<1>6. expected' = expected \/ (expected' = <<x>> \o expected /\ job[w].op = "add")
  BY <1>3
<1>7. RunsKept'
  <2>1. Once(expected')
    <3>1. CASE expected' = <<x>> \o expected /\ job[w].op = "add"
      <4>1. ~Awaited(x)
        BY <1>0, <1>1, <1>2, <3>1 DEF ReadOK
      <4> QED
        BY <1>4, <3>1, <4>1, OnceFirst DEF Awaited
    <3> QED
      BY <1>4, <1>6, <3>1
  <2>2. ASSUME NEW v \in Windows, v # w PROVE ReadOK(v)'
    <3>1. job'[v] = job[v] /\ last'[v] = last[v] /\ ReadOK(v)
      BY <1>1, <2>2 DEF HistoryKept, RunsKept
    <3>2. PICK y : y = job[v].run
      OBVIOUS
    <3>3. job[v].at = "read" => y # x
      BY <1>2, <2>2, <3>1, <3>2 DEF ReadOK, HistoryKept, RunsKept, LastsApart
    <3>4. y # x /\ Awaited(y)' => Awaited(y)
      <4>1. y # x => ((\E i \in DOMAIN (<<x>> \o expected) : (<<x>> \o expected)[i] = y)
                        => \E i \in DOMAIN expected : expected[i] = y)
        BY <1>4
      <4> QED
        BY <1>6, <4>1 DEF Awaited
    <3>5. LastRating(y)' = LastRating(y) /\ (HasRating(y)' => HasRating(y))
      BY <1>1 DEF LastRating, HasRating
    <3> QED
      BY <1>5, <3>1, <3>2, <3>3, <3>4, <3>5, ReadStays
  <2>3. ReadOK(w)'
    BY <1>3 DEF ReadOK, Idle
  <2> QED
    BY <1>1, <2>1, <2>2, <2>3 DEF HistoryKept, RunsKept, LastsApart, RatingsOfRuns
<1>8. SettingsKept'
  <2>1. \A v \in Windows : job'[v].at = "settingsFill" <=> job[v].at = "settingsFill"
    BY <1>1, <1>3 DEF Idle
  <2> QED
    BY <1>1, <1>5, <2>1, SettingsStay DEF HistoryKept
<1>9. ListKept'
  <2> SUFFICES ASSUME Clean' PROVE ListKept'
    BY DEF ListKept
  <2>1. Clean /\ ~Busy(w, {"truncate", "fill"})
    BY <1>1 DEF Clean, Meets
  <2>2. \A v \in Windows : ~Writing(v)
    BY <1>1, <2>1 DEF Busy, Writing
  <2>3. PICK h : h = history
    OBVIOUS
  <2>4. Listed = h /\ InStep(h) /\ h \in Seq(Entry) /\ h # Torn
    BY <2>1, <2>2, <2>3, ReadInStep
  <2>5. \A v \in Windows \ {w} : ~Writing(v)' /\ job'[v].at # "fill"
    BY <1>1, <2>2 DEF Writing
  <2>6. \A y : y # x /\ Pending(y) => Pending(y)'
    BY <1>0, <1>1 DEF Pending
  <2>7. ASSUME NEW l, InStep(l)', job'[w] = [at |-> "truncate", list |-> l]
        PROVE  ListKept'
    <3>1. Writing(w)' /\ job'[w].list = l /\ job'[w].at # "fill"
      BY <2>7 DEF Writing
    <3>2. InStep(job[w].list)'
      BY <2>7, <3>1 DEF InStep
    <3> QED
      BY <2>5, <3>1, <3>2 DEF ListKept
  <2>8. CASE job[w].op = "add"
    <3>1. job[w].wished = TRUE /\ ~HasRating(x)
      BY <1>0, <1>1, <1>2, <2>1, <2>8 DEF ReadOK, Clean
    <3>2. expected' = <<x>> \o expected /\ job'[w] = [at |-> "truncate", list |-> Added(x)]
      BY <1>3, <2>8, <3>1
    <3>3. \A y : Pending(y)' <=> Pending(y)
      BY <1>1, <2>8, <3>2 DEF Pending
    <3>4. PICK l : l = Added(x)
      OBVIOUS
    <3>5. l = Take(<<Record(x, 0)>> \o h, HistoryLimit)
      BY <2>4, <3>4 DEF Added
    <3>6. InStep(l)'
      BY <1>1, <1>2, <2>4, <3>1, <3>2, <3>3, <3>5, AddedInStep
    <3> QED
      BY <2>7, <3>2, <3>4, <3>6
  <2>9. CASE job[w].op = "rate"
    <3>1. LastRating(x) = s /\ expected' = expected
      BY <1>0, <1>1, <1>2, <1>3, <2>9 DEF ReadOK
    <3>2. \A i \in DOMAIN h : i \in First(x) <=> expected[i] = x
      BY <1>4, <2>4, FirstThere
    <3>3. PICK l : l = [i \in DOMAIN h |-> IF expected[i] = x
                                          THEN [h[i] EXCEPT !.stars = s] ELSE h[i]]
      OBVIOUS
    <3>4. InStep(l)'
      BY <1>1, <1>4, <2>4, <2>6, <3>1, <3>3, RatedInStep
    <3>5. CASE First(x) # {}
      <4>1. Rated(x, s) = l
        BY <2>4, <3>2, <3>3 DEF Rated
      <4> QED
        BY <1>3, <2>7, <2>9, <3>4, <3>5, <4>1
    <3>6. CASE First(x) = {}
      <4>1. job'[w] = Idle
        BY <1>3, <2>9, <3>6
      <4>2. l = [i \in DOMAIN h |-> h[i]]
        BY <3>2, <3>3, <3>6
      <4>3. l = h
        BY <2>4, <4>2
      <4>4. ~Writing(w)' /\ job'[w].at # "fill"
        BY <4>1 DEF Writing, Idle
      <4>5. InStep(history)'
        BY <1>1, <2>3, <3>4, <4>3 DEF InStep
      <4> QED
        BY <1>1, <2>3, <2>4, <2>5, <4>4, <4>5 DEF ListKept
    <3> QED
      BY <3>5, <3>6
  <2> QED
    BY <1>3, <2>8, <2>9
<1> QED
  BY <1>7, <1>8, <1>9 DEF HistoryKept

\* The steps of a window that writes the history.
LEMMA KeptHistoryTruncate ==
    ASSUME TypeOK, HistoryKept, NEW w \in Windows, HistoryTruncate(w)
    PROVE  HistoryKept'
<1>1. /\ UNCHANGED <<runs, ratings, settings, last, wished, expected>>
      /\ job[w].at = "truncate" /\ Meets(w, "history", {"truncate", "fill"})
      /\ history' = Torn /\ faults \subseteq faults'
      /\ job'[w] = [at |-> "fill", list |-> job[w].list]
      /\ \A v \in Windows \ {w} : job'[v] = job[v]
  BY GoesOn DEF HistoryTruncate, database, Meets
<1>2. \A x : /\ Pending(x)' <=> Pending(x)
             /\ LastRating(x)' = LastRating(x)
             /\ Awaited(x)' <=> Awaited(x)
             /\ HasRating(x)' <=> HasRating(x)
  BY <1>1 DEF Pending, LastRating, Awaited, HasRating
<1>3. RunsKept'
  <2>1. ASSUME NEW v \in Windows PROVE ReadOK(v)'
    <3>1. CASE v = w
      BY <1>1, <3>1 DEF ReadOK
    <3>2. CASE v # w
      <4>1. job'[v] = job[v] /\ last'[v] = last[v] /\ ReadOK(v)
        BY <1>1, <3>2 DEF HistoryKept, RunsKept
      <4> QED
        BY <1>1, <1>2, <4>1, ReadStays
    <3> QED
      BY <3>1, <3>2
  <2> QED
    BY <1>1, <2>1 DEF HistoryKept, RunsKept, LastsApart, RatingsOfRuns
<1>4. SettingsKept'
  <2>1. \A v \in Windows : job'[v].at = "settingsFill" <=> job[v].at = "settingsFill"
    BY <1>1
  <2> QED
    BY <1>1, <2>1, SettingsStay DEF HistoryKept
<1>5. ListKept'
  <2> SUFFICES ASSUME Clean' PROVE ListKept'
    BY DEF ListKept
  <2>1. Clean
    BY <1>1 DEF Clean
  <2>2. \A v \in Windows : Writing(v) <=> v = w
    BY <1>1, <2>1 DEF HistoryKept, ListKept, Writing
  <2>3. \A v \in Windows : Writing(v)' <=> v = w
    BY <1>1, <2>2 DEF Writing
  <2>4. PICK l : l = job[w].list
    OBVIOUS
  <2>5. InStep(l)
    BY <2>1, <2>2, <2>4 DEF HistoryKept, ListKept
  <2>6. InStep(l)'
    BY <1>1, <1>2, <2>5 DEF InStep, Record
  <2>7. InStep(job[w].list)'
    BY <1>1, <2>4, <2>6 DEF InStep
  <2> QED
    BY <1>1, <2>3, <2>7 DEF ListKept
<1> QED
  BY <1>3, <1>4, <1>5 DEF HistoryKept

\* The file holds the list again.
LEMMA KeptHistoryFill ==
    ASSUME TypeOK, HistoryKept, NEW w \in Windows, HistoryFill(w)
    PROVE  HistoryKept'
<1>1. /\ UNCHANGED <<runs, ratings, settings, last, wished, expected>>
      /\ job[w].at = "fill" /\ Meets(w, "history", {"truncate", "fill"})
      /\ history' = job[w].list \/ history # Torn
      /\ faults \subseteq faults'
      /\ job'[w] = Idle
      /\ \A v \in Windows \ {w} : job'[v] = job[v]
  BY GoesOn DEF HistoryFill, database, Meets, Leave
<1>2. \A x : /\ Pending(x)' <=> Pending(x)
             /\ LastRating(x)' = LastRating(x)
             /\ Awaited(x)' <=> Awaited(x)
             /\ HasRating(x)' <=> HasRating(x)
  BY <1>1 DEF Pending, LastRating, Awaited, HasRating, Idle
<1>3. RunsKept'
  <2>1. ASSUME NEW v \in Windows PROVE ReadOK(v)'
    <3>1. CASE v = w
      BY <1>1, <3>1 DEF ReadOK, Idle
    <3>2. CASE v # w
      <4>1. job'[v] = job[v] /\ last'[v] = last[v] /\ ReadOK(v)
        BY <1>1, <3>2 DEF HistoryKept, RunsKept
      <4> QED
        BY <1>1, <1>2, <4>1, ReadStays
    <3> QED
      BY <3>1, <3>2
  <2> QED
    BY <1>1, <2>1 DEF HistoryKept, RunsKept, LastsApart, RatingsOfRuns
<1>4. SettingsKept'
  <2>1. \A v \in Windows : job'[v].at = "settingsFill" <=> job[v].at = "settingsFill"
    BY <1>1 DEF Idle
  <2> QED
    BY <1>1, <2>1, SettingsStay DEF HistoryKept
<1>5. ListKept'
  <2> SUFFICES ASSUME Clean' PROVE ListKept'
    BY DEF ListKept
  <2>1. Clean
    BY <1>1 DEF Clean
  <2>2. (\A v \in Windows : Writing(v) <=> v = w) /\ history = Torn
    BY <1>1, <2>1 DEF HistoryKept, ListKept, Writing
  <2>3. \A v \in Windows : ~Writing(v)' /\ job'[v].at # "fill"
    BY <1>1, <2>2 DEF Writing, Idle
  <2>4. PICK l : l = job[w].list
    OBVIOUS
  <2>5. InStep(l) /\ history' = l
    BY <1>1, <2>1, <2>2, <2>4 DEF HistoryKept, ListKept
  <2>6. InStep(l)'
    BY <1>1, <1>2, <2>5 DEF InStep, Record
  <2>7. InStep(history)'
    BY <2>5, <2>6 DEF InStep
  <2>8. history' # Torn
    <3>1. l \in Seq(Entry)
      BY <1>1, <2>4 DEF TypeOK, JobOK
    <3> QED
      BY <2>5, <3>1, TornAssumption
  <2> QED
    BY <2>3, <2>7, <2>8 DEF ListKept
<1> QED
  BY <1>3, <1>4, <1>5 DEF HistoryKept

\* Clearing it: no run is expected there.
LEMMA KeptClearHistory ==
    ASSUME TypeOK, HistoryKept, NEW w \in Windows, ClearHistory(w)
    PROVE  HistoryKept'
<1>1. /\ UNCHANGED <<runs, ratings, settings, last, wished>>
      /\ job[w] = Idle /\ Meets(w, "history", {"truncate", "fill"})
      /\ history' = Torn /\ expected' = <<>> /\ faults \subseteq faults'
      /\ job'[w] = [at |-> "fill", list |-> <<>>]
      /\ \A v \in Windows \ {w} : job'[v] = job[v]
  <2> DEFINE j == [at |-> "fill", list |-> <<>>]
  <2>1. /\ UNCHANGED <<runs, ratings, settings, last, wished>>
        /\ job[w] = Idle /\ Meets(w, "history", {"truncate", "fill"})
        /\ history' = Torn /\ expected' = <<>> /\ Goto(w, j)
    BY DEF ClearHistory, database, Works, Call
  <2> HIDE DEF j
  <2>2. job'[w] = j /\ \A v \in Windows \ {w} : job'[v] = job[v]
    BY <2>1, GoesOn
  <2> QED
    BY <2>1, <2>2 DEF j, Meets
<1>2. \A x : /\ LastRating(x)' = LastRating(x)
             /\ ~Awaited(x)'
             /\ HasRating(x)' <=> HasRating(x)
  BY <1>1 DEF LastRating, Awaited, HasRating
<1>3. RunsKept'
  <2>1. ASSUME NEW v \in Windows PROVE ReadOK(v)'
    <3>1. CASE v = w
      BY <1>1, <3>1 DEF ReadOK
    <3>2. CASE v # w
      <4>1. job'[v] = job[v] /\ last'[v] = last[v] /\ ReadOK(v)
        BY <1>1, <3>2 DEF HistoryKept, RunsKept
      <4> QED
        BY <1>1, <1>2, <4>1, ReadStays
    <3> QED
      BY <3>1, <3>2
  <2>2. Once(expected')
    BY <1>1 DEF Once
  <2> QED
    BY <1>1, <2>1, <2>2 DEF HistoryKept, RunsKept, LastsApart, RatingsOfRuns
<1>4. SettingsKept'
  <2>1. \A v \in Windows : job'[v].at = "settingsFill" <=> job[v].at = "settingsFill"
    BY <1>1 DEF Idle
  <2> QED
    BY <1>1, <2>1, SettingsStay DEF HistoryKept
<1>5. ListKept'
  <2> SUFFICES ASSUME Clean' PROVE ListKept'
    BY DEF ListKept
  <2>1. ~Busy(w, {"truncate", "fill"})
    BY <1>1 DEF Clean, Meets
  <2>2. \A v \in Windows : Writing(v)' <=> v = w
    BY <1>1, <2>1 DEF Writing, Busy
  <2>3. PICK l : l = <<>>
    OBVIOUS
  <2>4. InStep(l)'
    <3>1. Len(expected') = 0 /\ Least(HistoryLimit, 0) = 0
      BY <1>1, DeskAssumption DEF Least
    <3>2. l = [i \in 1..0 |-> Record(expected[i], l[i].stars)']
      BY <2>3
    <3>3. DOMAIN l = {}
      BY <2>3
    <3> QED
      BY <3>1, <3>2, <3>3 DEF InStep
  <2>5. InStep(job[w].list)'
    BY <1>1, <2>3, <2>4 DEF InStep
  <2> QED
    BY <1>1, <2>2, <2>5 DEF ListKept
<1> QED
  BY <1>3, <1>4, <1>5 DEF HistoryKept

\* Saving the settings leaves the history to itself.
LEMMA SettingsApart ==
    ASSUME TypeOK, HistoryKept, NEW w \in Windows,
           UNCHANGED <<runs, ratings, history, last, expected>>,
           faults \subseteq faults', \A v \in Windows \ {w} : job'[v] = job[v],
           job[w].at \in {"idle", "settingsFill"},
           job'[w].at \in {"idle", "settingsFill"}
    PROVE  RunsKept' /\ ListKept'
<1>1. \A x : /\ Pending(x)' <=> Pending(x)
             /\ LastRating(x)' = LastRating(x)
             /\ Awaited(x)' <=> Awaited(x)
             /\ HasRating(x)' <=> HasRating(x)
  BY DEF Pending, LastRating, Awaited, HasRating
<1>2. RunsKept'
  <2>1. ASSUME NEW v \in Windows PROVE ReadOK(v)'
    <3>1. CASE v = w
      BY <3>1 DEF ReadOK
    <3>2. CASE v # w
      <4>1. job'[v] = job[v] /\ last'[v] = last[v] /\ ReadOK(v)
        BY <3>2 DEF HistoryKept, RunsKept
      <4> QED
        BY <1>1, <4>1, ReadStays
    <3> QED
      BY <3>1, <3>2
  <2> QED
    BY <2>1 DEF HistoryKept, RunsKept, LastsApart, RatingsOfRuns
<1>3. ListKept'
  <2>1. \A v \in Windows : /\ (job'[v].at = "fill" <=> job[v].at = "fill")
                           /\ (Writing(v)' <=> Writing(v))
                           /\ Writing(v) => job'[v] = job[v]
    BY DEF Writing
  <2>2. \A l : InStep(l) => InStep(l)'
    BY <1>1 DEF InStep, Record
  <2> QED
    BY <2>1, <2>2, ListStays DEF HistoryKept
<1> QED
  BY <1>2, <1>3

\* The settings file is emptied,
LEMMA KeptSaveSettings ==
    ASSUME TypeOK, HistoryKept, NEW w \in Windows, NEW auto, SaveSettings(w, auto)
    PROVE  HistoryKept'
<1> DEFINE j == [at |-> "settingsFill", value |-> auto]
<1>1. /\ UNCHANGED <<runs, ratings, history, last, expected, wished>>
      /\ job[w] = Idle /\ Meets(w, "settings", {"settingsFill"})
      /\ settings' = Torn /\ Goto(w, j)
  BY DEF SaveSettings, database, Works, Call
<1>2. faults \subseteq faults' /\ job[w].at = "idle"
  BY <1>1 DEF Meets, Idle
<1>3. job'[w] = j /\ \A v \in Windows \ {w} : job'[v] = job[v]
  <2> HIDE DEF j
  <2> QED
    BY <1>1, GoesOn
<1>4. RunsKept' /\ ListKept'
  BY <1>1, <1>2, <1>3, SettingsApart
<1>5. SettingsKept'
  <2> SUFFICES ASSUME "settings" \notin faults' PROVE SettingsKept'
    BY DEF SettingsKept
  <2>1. ~Busy(w, {"settingsFill"})
    BY <1>1 DEF Meets
  <2>2. \A v \in Windows : job'[v].at = "settingsFill" <=> v = w
    BY <1>3, <2>1 DEF Busy
  <2> QED
    BY <1>1, <2>2 DEF SettingsKept
<1> QED
  BY <1>4, <1>5 DEF HistoryKept

\* and filled.
LEMMA KeptSettingsFill ==
    ASSUME TypeOK, HistoryKept, NEW w \in Windows, SettingsFill(w)
    PROVE  HistoryKept'
<1>1. /\ UNCHANGED <<runs, ratings, history, last, expected>>
      /\ job[w].at = "settingsFill" /\ Meets(w, "settings", {"settingsFill"})
      /\ settings' = job[w].value \/ settings # Torn
      /\ wished' = job[w].value /\ Goto(w, Idle)
  BY DEF SettingsFill, database, Leave
<1>2. faults \subseteq faults'
  BY <1>1 DEF Meets
<1>3. job'[w] = Idle /\ \A v \in Windows \ {w} : job'[v] = job[v]
  BY <1>1, GoesOn
<1>4. RunsKept' /\ ListKept'
  <2>1. job'[w].at = "idle"
    BY <1>3 DEF Idle
  <2> QED
    BY <1>1, <1>2, <1>3, <2>1, SettingsApart
<1>5. SettingsKept'
  <2> SUFFICES ASSUME "settings" \notin faults' PROVE SettingsKept'
    BY DEF SettingsKept
  <2>1. /\ \A v \in Windows : job[v].at = "settingsFill" => v = w
        /\ settings = Torn
    BY <1>1, <1>2 DEF HistoryKept, SettingsKept
  <2>2. \A v \in Windows : job'[v].at # "settingsFill"
    BY <1>3, <2>1 DEF Idle
  <2> QED
    BY <1>1, <2>1, <2>2 DEF SettingsKept
<1> QED
  BY <1>4, <1>5 DEF HistoryKept

\* Every step keeps the history in step, or marks what went wrong.
LEMMA HistoryKeptStep == TypeOK /\ HistoryKept /\ [Next]_vars => HistoryKept'
<1> SUFFICES ASSUME TypeOK, HistoryKept, [Next]_vars PROVE HistoryKept'
  OBVIOUS
<1>1. ASSUME NEW w \in Windows, NEW j, j.at \notin AtHistory, Goto(w, j),
             UNCHANGED <<runs, ratings, history, settings, wished, expected, last>>,
             faults \subseteq faults', job[w].at \notin AtHistory
      PROVE  HistoryKept'
  <2>1. job'[w] = j /\ \A v \in Windows \ {w} : job'[v] = job[v]
    BY <1>1, GoesOn
  <2> QED
    BY <1>1, <2>1, HistoryElsewhere
<1>2. ASSUME NEW w \in Windows, Handlers(w) PROVE HistoryKept'
  <2> USE DEF Works, Call, Idle, database, files, ghosts, Meets, AtHistory
  <2>1. ASSUME NEW form \in Forms, Translate(w, form.in, form.task) PROVE HistoryKept'
    BY <1>1, <2>1 DEF Translate
  <2>2. ASSUME NEW path \in Paths, OpenFile(w, path) PROVE HistoryKept'
    BY <1>1, <2>2 DEF OpenFile
  <2>3. ASSUME NEW form \in Forms, SaveProject(w, form.in) PROVE HistoryKept'
    BY <1>1, <2>3 DEF SaveProject
  <2>4. CASE HomePage(w)
    BY <2>4, HistoryElsewhere DEF HomePage
  <2>5. ASSUME NEW form \in ProviderForms, SaveProvider(w, form) PROVE HistoryKept'
    <3>1. /\ UNCHANGED <<runs, ratings, history, settings, wished, expected, last>>
          /\ faults \subseteq faults' /\ job[w].at \notin AtHistory
      BY <2>5 DEF SaveProvider
    <3>2. CASE UNCHANGED job
      BY <3>1, <3>2, HistoryElsewhere
    <3>3. ASSUME NEW j, j.at \notin AtHistory, Goto(w, j) PROVE HistoryKept'
      BY <1>1, <3>1, <3>3
    <3> QED
      BY <2>5, <3>2, <3>3 DEF SaveProvider
  <2>6. CASE LoadProviders(w)
    BY <1>1, <2>6 DEF LoadProviders
  <2>7. ops < MaxOps
    BY <1>2 DEF Handlers
  <2> HIDE DEF Works, Call, Idle, database, files, ghosts, Meets, AtHistory
  <2> QED
    BY <1>2, <2>1, <2>2, <2>3, <2>4, <2>5, <2>6, <2>7, KeptSubmitRating,
       KeptClearHistory, KeptSaveSettings DEF Handlers
<1>3. ASSUME NEW w \in Windows, Steps(w) PROVE HistoryKept'
  <2>1. CASE TranslateFails(w)
    BY <1>1, <2>1 DEF TranslateFails, Leave, Idle, database, files, ghosts, AtHistory
  <2>2. CASE SaveProfile(w)
    BY <1>1, <2>2 DEF SaveProfile, Leave, Idle, database, files, Meets, AtHistory
  <2>3. CASE KeyTruncate(w)
    BY <1>1, <2>3 DEF KeyTruncate, database, Meets, AtHistory
  <2>4. CASE KeyFill(w)
    BY <1>1, <2>4 DEF KeyFill, database, Meets, AtHistory
  <2>5. CASE SaveRow(w)
    BY <1>1, <2>5 DEF SaveRow, Leave, Idle, files, AtHistory
  <2>6. CASE LoadKeys(w)
    BY <1>1, <2>6 DEF LoadKeys, Leave, Idle, database, files, ghosts, AtHistory
  <2> QED
    BY <1>3, <2>1, <2>2, <2>3, <2>4, <2>5, <2>6, KeptRecordRun, KeptHistoryRead,
       KeptHistoryTruncate, KeptHistoryFill, KeptSettingsFill DEF Steps
<1>4. ASSUME NEW w \in Windows, Fails(w) PROVE HistoryKept'
  BY <1>4, HistoryEnds DEF Fails, Leave, database, files, StoreOf
<1>5. ASSUME NEW w \in Windows, Restart(w) PROVE HistoryKept'
  BY <1>5, HistoryEnds DEF Restart, Leave, database, files, StoreOf
<1>6. CASE UNCHANGED vars
  BY <1>6, HistoryElsewhere DEF vars, database, files, windows, ghosts
<1> QED
  BY <1>2, <1>3, <1>4, <1>5, <1>6 DEF Next, Rest

\* No run is expected in the first history.
LEMMA HistoryKeptInit == Init => HistoryKept
<1> SUFFICES ASSUME Init PROVE HistoryKept
  OBVIOUS
<1>1. SettingsKept /\ RunsKept
  <2>1. \A w \in Windows : job[w].at = "idle" /\ last[w] = 0
    BY DEF Init, Idle
  <2>2. settings = wished
    BY DEF Init
  <2>3. SettingsKept
    BY <2>1, <2>2 DEF SettingsKept
  <2>4. ratings = <<>> /\ expected = <<>>
    BY DEF Init
  <2> QED
    BY <2>1, <2>3, <2>4 DEF RunsKept, LastsApart, RatingsOfRuns, Once, ReadOK
<1>2. history # Torn
  <2>1. history = <<>> /\ <<>> \in Seq(Entry)
    BY DEF Init
  <2> QED
    BY <2>1, TornAssumption
<1>3. InStep(history)
  <2>1. history = <<>> /\ expected = <<>>
    BY DEF Init
  <2>2. Least(HistoryLimit, Len(expected)) = 0
    BY <2>1, DeskAssumption DEF Least
  <2>3. <<>> = [i \in 1..0 |-> Record(expected[i], history[i].stars)]
    OBVIOUS
  <2> QED
    BY <2>1, <2>2, <2>3 DEF InStep
<1>4. ListKept
  BY <1>2, <1>3 DEF Init, ListKept, Writing, Idle
<1> QED
  BY <1>1, <1>4 DEF HistoryKept

\* Once no window is on its way to the history, it is complete.
LEMMA HistoryThere == TypeOK /\ HistoryKept => HistoryInStep
<1> SUFFICES ASSUME TypeOK, HistoryKept, Clean,
                    \A w \in Windows : job[w].at \notin {"read", "truncate", "fill"}
             PROVE  history = [i \in 1..Least(HistoryLimit, Len(expected)) |->
                                 Record(expected[i], LastRating(expected[i]))]
  BY DEF HistoryInStep, Clean
<1>1. InStep(history)
  BY DEF HistoryKept, ListKept, Writing
<1>2. \A x : ~Pending(x)
  BY DEF Pending
<1> DEFINE n == Least(HistoryLimit, Len(expected))
<1>3. history = [i \in 1..n |-> Record(expected[i], history[i].stars)]
  BY <1>1 DEF InStep
<1> HIDE DEF n
<1>4. \A i \in 1..n : history[i].stars = LastRating(expected[i])
  BY <1>1, <1>2, <1>3 DEF InStep
<1> QED
  BY <1>3, <1>4 DEF n

\* For any number of windows and any limit: while no handler overlaps another
\* on the history or the settings and none is cut short, the history holds
\* the newest runs the user wanted there, each with its last rating.
THEOREM HistoryIsInStep == Spec => []HistoryInStep
BY HistoryKeptInit, HistoryKeptStep, HistoryThere, TypeCorrect, PTL DEF Spec

-----------------------------------------------------------------------------
(* One more low rating.                                                    *)

\* A product grows with its factor.
LEMMA TimesGrows ==
    ASSUME NEW x \in Nat, NEW y \in Nat, x <= y, NEW n \in Nat
    PROVE  x * n \in Nat /\ y * n \in Nat /\ x * n <= y * n
<1> DEFINE d == y - x
<1>1. d \in Nat /\ y = x + d
  OBVIOUS
<1> HIDE DEF d
<1>2. (x + d) * n = x * n + d * n /\ x * n \in Nat /\ d * n \in Nat
  BY <1>1
<1> QED
  BY <1>1, <1>2

\* A quotient is what it is bounded by.
LEMMA QuotientBounds ==
    ASSUME NEW a \in Nat, NEW n \in Nat, n > 0
    PROVE  /\ a \div n \in Nat
           /\ (a \div n) * n <= a
           /\ \A b \in Nat : b * n <= a => b <= a \div n
           /\ \A b \in Nat : a < (b + 1) * n => a \div n <= b
<1> DEFINE q == a \div n
<1>1. q \in Nat /\ q * n <= a /\ a < (q + 1) * n
  OBVIOUS
<1> HIDE DEF q
<1>2. ASSUME NEW b \in Nat, b * n <= a PROVE b <= q
  <2>1. CASE q + 1 <= b
    <3>1. (q + 1) * n <= b * n
      BY <1>1, <2>1, TimesGrows
    <3> QED
      BY <1>1, <1>2, <3>1, TimesGrows
  <2> QED
    BY <1>1, <2>1
<1>3. ASSUME NEW b \in Nat, a < (b + 1) * n PROVE q <= b
  <2>1. CASE b + 1 <= q
    <3>1. (b + 1) * n <= q * n
      BY <1>1, <2>1, TimesGrows
    <3> QED
      BY <1>1, <1>3, <3>1, TimesGrows
  <2> QED
    BY <1>1, <2>1
<1> QED
  BY <1>1, <1>2, <1>3 DEF q

\* An average that is low stays low with another low rating.
LEMMA LowerMean ==
    ASSUME NEW s \in Nat, NEW c \in Nat, c > 0, c <= s, NEW k \in 1..2,
           (s * 180000) \div (5 * c) <= 90000
    PROVE  /\ ((s + k) * 180000) \div (5 * (c + 1)) > 0
           /\ ((s + k) * 180000) \div (5 * (c + 1)) <= 90000
<1> DEFINE a == s * 180000
           d == 5 * c
           b == (s + k) * 180000
           e == 5 * (c + 1)
<1>1. /\ a \in Nat /\ d \in Nat /\ d > 0 /\ b \in Nat /\ e \in Nat /\ e > 0
      /\ b <= a + 360000 /\ e = d + 5 /\ e <= b
  BY SMT
<1> HIDE DEF a, b, d, e
<1>2. a < 90001 * d
  <2>1. CASE 90001 * d <= a
    <3>1. 90001 <= a \div d
      BY <1>1, <2>1, QuotientBounds
    <3>2. a \div d <= 90000
      BY DEF a, d
    <3> QED
      BY <1>1, <3>1, <3>2, QuotientBounds
  <2> QED
    BY <1>1, <2>1
<1>3. b < (90000 + 1) * e /\ 1 * e <= b
  BY <1>1, <1>2, SMT
<1>4. b \div e <= 90000 /\ 1 <= b \div e /\ b \div e \in Nat
  BY <1>1, <1>3, QuotientBounds
<1> QED
  BY <1>4 DEF b, e

\* A share of a part that grows with its whole does not shrink.
LEMMA ShareGrows ==
    ASSUME NEW p \in Nat, NEW n \in Nat, n > 0, NEW m \in 0..n
    PROVE  /\ (p * m) \div n \in Nat /\ (p * (m + 1)) \div (n + 1) \in Nat
           /\ (p * m) \div n <= (p * (m + 1)) \div (n + 1)
<1> DEFINE a == p * m
           b == p * (m + 1)
           q == a \div n
<1>1. a \in Nat /\ b \in Nat /\ b = a + p /\ n + 1 \in Nat
  OBVIOUS
<1>2. a <= p * n
  OBVIOUS
<1> HIDE DEF a, b
<1>3. q \in Nat /\ q * n <= a
  BY <1>1, QuotientBounds
<1>4. q <= p
  <2>1. p * n \in Nat /\ (p * n) \div n = p
    OBVIOUS
  <2>2. q * n <= p * n
    BY <1>1, <1>2, <1>3, <2>1
  <2> HIDE DEF q
  <2> QED
    BY <1>3, <2>1, <2>2, QuotientBounds
<1> HIDE DEF q
<1>5. q * (n + 1) <= b
  <2>1. q * (n + 1) = q * n + q /\ q * n \in Nat
    BY <1>3
  <2> QED
    BY <1>1, <1>3, <1>4, <2>1
<1>6. b \div (n + 1) \in Nat /\ q <= b \div (n + 1)
  BY <1>1, <1>3, <1>5, QuotientBounds
<1> QED
  BY <1>3, <1>6 DEF q, a, b

\* One misjudged run of three or more counts for less with one more rating,
\* but not for much less.
LEMMA MisjudgedLess ==
    ASSUME NEW n \in Nat, n >= 3, NEW b \in Nat, 1 <= b
    PROVE  /\ (180000 * 1) \div n \in Nat /\ (180000 * b) \div (n + 1) \in Nat
           /\ (180000 * 1) \div n <= 60000
           /\ (180000 * 1) \div n <= (180000 * b) \div (n + 1) + 40000
<1> DEFINE q == 180000 \div n
           r == (180000 * b) \div (n + 1)
<1>1. /\ q \in Nat /\ q * n <= 180000
      /\ \A x \in Nat : x * n <= 180000 => x <= q
      /\ \A x \in Nat : 180000 < (x + 1) * n => q <= x
  BY QuotientBounds
<1>2. 180000 * b \in Nat /\ 180000 <= 180000 * b /\ n + 1 \in Nat
  OBVIOUS
<1> DEFINE a == 180000 * b
<1> HIDE DEF a
<1>3. r \in Nat /\ \A x \in Nat : x * (n + 1) <= a => x <= r
  BY <1>2, QuotientBounds DEF a
<1>4. q <= 60000
  <2>1. 180000 < (60000 + 1) * n
    OBVIOUS
  <2> QED
    BY <1>1, <2>1
<1>5. CASE n = 3
  <2>1. 45000 * (n + 1) <= a
    BY <1>2, <1>5 DEF a
  <2> HIDE DEF q, r
  <2>2. 45000 <= r
    BY <1>3, <2>1
  <2> QED
    BY <1>1, <1>3, <1>4, <2>2 DEF q, r
<1>6. CASE n = 4
  <2>1. 36000 * (n + 1) <= a /\ 180000 < (45000 + 1) * n
    BY <1>2, <1>6 DEF a
  <2>2. q <= 45000
    BY <1>1, <2>1
  <2> HIDE DEF q, r
  <2>3. 36000 <= r
    BY <1>3, <2>1
  <2> QED
    BY <1>1, <1>3, <1>4, <2>2, <2>3 DEF q, r
<1>7. CASE n >= 5
  <2>1. 180000 < (36000 + 1) * n
    BY <1>7
  <2>2. q <= 36000
    BY <1>1, <2>1
  <2> HIDE DEF q, r
  <2> QED
    BY <1>1, <1>3, <1>4, <2>2 DEF q, r
<1> QED
  BY <1>5, <1>6, <1>7

\* ts is rs with one more rating, at m.
Joined(rs, ts, m) ==
    /\ m \notin DOMAIN rs /\ DOMAIN ts = DOMAIN rs \cup {m}
    /\ \A i \in DOMAIN rs : ts[i] = rs[i]

\* A rating of just this kind joins every set of ratings that counts for it.
LEMMA JoinedSets ==
    ASSUME NEW rs, NEW ts, NEW m, Joined(rs, ts, m), NEW cfg, NEW ids,
           ts[m].cfg = cfg, ids = {} \/ ts[m].providers \cap ids # {}
    PROVE  /\ ByTopic(ts, cfg) = ByTopic(rs, cfg) \cup {m}
           /\ ByProvider(ts, ids) = ByProvider(rs, ids) \cup {m}
           /\ Exact(ts, cfg, ids) = Exact(rs, cfg, ids) \cup {m}
<1>1. ByTopic(ts, cfg) = ByTopic(rs, cfg) \cup {m}
  BY DEF ByTopic, Joined
<1>2. ByPair(ts, cfg) = ByPair(rs, cfg) \cup {m}
  BY DEF ByPair, Joined
<1>3. ByMode(ts, cfg) = ByMode(rs, cfg) \cup {m}
  BY DEF ByMode, Joined
<1>4. ByProvider(ts, ids) = ByProvider(rs, ids) \cup {m}
  BY DEF ByProvider, Joined
<1> QED
  BY <1>1, <1>2, <1>3, <1>4 DEF Exact

\* The average of ratings joined by a low one is low where it was.
LEMMA AverageLower ==
    ASSUME NEW rs, NEW ts, NEW m, Joined(rs, ts, m), NEW I, I \subseteq DOMAIN rs,
           IsFiniteSet(I), \A i \in I : rs[i].stars \in Stars,
           ts[m].stars \in 1..LowRating, LowAverage(Average(rs, I))
    PROVE  LowAverage(Average(ts, I \cup {m}))
<1> DEFINE f == [i \in I |-> rs[i].stars]
           g == [i \in I \cup {m} |-> ts[i].stars]
           s == SumFunction(f)
           c == Cardinality(I)
           k == ts[m].stars
<1>1. I # {} /\ Average(rs, I) = (s * 180000) \div (5 * c)
  BY DEF Average, LowAverage, One
<1>2. (s * 180000) \div (5 * c) <= 90000
  BY <1>1 DEF LowAverage, One
<1>3. c \in Nat /\ c > 0 /\ IsFiniteSet(I \cup {m}) /\ Cardinality(I \cup {m}) = c + 1
  BY <1>1, FS_CardinalityType, FS_EmptySet, FS_AddElement DEF Joined
<1>4. /\ IsFiniteSet(DOMAIN f) /\ DOMAIN f = I
      /\ \A x \in DOMAIN f : f[x] \in 1..5
      /\ m \notin DOMAIN f /\ DOMAIN g = DOMAIN f \cup {m}
      /\ g[m] = k /\ \A x \in DOMAIN f : g[x] = f[x]
  BY DEF Joined, Stars
<1> HIDE DEF f, g
<1>5. s \in Nat /\ SumFunction(g) = s + k
  <2>1. k \in Nat /\ \A x \in DOMAIN f : f[x] \in Nat
    BY <1>4 DEF LowRating
  <2> QED
    BY <1>4, <2>1, SumGrows
<1>6. c * 1 <= s
  <2>1. \A x \in I : f[x] \in 1..5
    BY <1>4
  <2>2. Cardinality(I) * 1 <= SumFunctionOnSet(f, I)
    BY <2>1, SumBetween
  <2> QED
    BY <1>4, <2>2 DEF SumFunction
<1>7. Average(ts, I \cup {m}) = ((s + k) * 180000) \div (5 * (c + 1))
  BY <1>3, <1>5 DEF Average, One, g
<1>8. k \in 1..2
  BY DEF LowRating
<1> HIDE DEF s, c, k
<1>9. /\ ((s + k) * 180000) \div (5 * (c + 1)) > 0
      /\ ((s + k) * 180000) \div (5 * (c + 1)) <= 90000
  <2>1. c <= s
    BY <1>3, <1>6
  <2> QED
    BY <1>2, <1>3, <1>5, <1>8, <2>1, LowerMean
<1> QED
  BY <1>7, <1>9 DEF LowAverage, One

\* What one more low rating, with its issues ticked, does to a summary s.
Lower(s, t) ==
    /\ s.samples \in Nat /\ s.samples > 0 /\ t.samples = s.samples + 1
    /\ s.low \in 0..s.samples /\ t.low = s.low + 1
    /\ \A kind \in Kinds : /\ s.issues[kind] \in Nat /\ t.issues[kind] \in Nat
                           /\ s.issues[kind] <= t.issues[kind]
    /\ LowAverage(s.average.topic) => LowAverage(t.average.topic)
    /\ LowAverage(s.average.provider) => LowAverage(t.average.provider)
    /\ \E a, b \in Nat : /\ a <= s.low /\ a <= b
                         /\ s.mismatch = (One * a) \div s.samples
                         /\ t.mismatch = (One * b) \div (s.samples + 1)

\* The counts of a summary.
LEMMA RiskCounts ==
    ASSUME NEW rs, NEW cfg, NEW ids, NEW I, I = Relevant(rs, cfg, ids)
    PROVE  /\ Summary(rs, cfg, ids).samples = Cardinality(I)
           /\ Summary(rs, cfg, ids).low = Cardinality(LowOnes(rs, I))
BY DEF Summary, LowOnes

\* Its shares of ratings.
LEMMA RiskShares ==
    ASSUME NEW rs, NEW cfg, NEW ids, NEW I, I = Relevant(rs, cfg, ids)
    PROVE  /\ Summary(rs, cfg, ids).mismatch = Ratio(Misjudged(rs, I), I, 100)
           /\ \A kind \in Kinds : Summary(rs, cfg, ids).issues[kind] =
                 Ratio({i \in I : kind \in rs[i].issues}, I, 100)
BY DEF Summary, LowOnes, Misjudged

\* Its averages.
LEMMA RiskAverages ==
    ASSUME NEW rs, NEW cfg, NEW ids
    PROVE  /\ Summary(rs, cfg, ids).average.topic = Average(rs, ByTopic(rs, cfg))
           /\ Summary(rs, cfg, ids).average.provider = Average(rs, ByProvider(rs, ids))
BY DEF Summary

\* The sizes of a part of a set that one more joins.
LEMMA SizeJoined ==
    ASSUME NEW I, IsFiniteSet(I), I # {}, NEW m, m \notin I, NEW J, J \subseteq I
    PROVE  /\ IsFiniteSet(J) /\ Cardinality(J) \in Nat
           /\ Cardinality(J) <= Cardinality(I)
           /\ Cardinality(J \cup {m}) = Cardinality(J) + 1
           /\ Cardinality(I \cup {m}) = Cardinality(I) + 1
           /\ Cardinality(I) \in Nat /\ Cardinality(I) > 0
<1>1. /\ IsFiniteSet(J) /\ Cardinality(J) \in Nat /\ Cardinality(I) \in Nat
      /\ Cardinality(J) <= Cardinality(I)
  BY FS_Subset, FS_CardinalityType
<1>2. Cardinality(J \cup {m}) = Cardinality(J) + 1
  BY <1>1, FS_AddElement
<1>3. Cardinality(I \cup {m}) = Cardinality(I) + 1
  BY FS_AddElement
<1>4. Cardinality(I) # 0
  BY FS_EmptySet
<1> QED
  BY <1>1, <1>2, <1>3, <1>4

\* A hundred percent is the whole.
LEMMA WholePercent == One \in Nat /\ Percent(100) = One
BY SMT DEF Percent, One

\* The shares of such a part.
LEMMA ShareJoined ==
    ASSUME NEW I, IsFiniteSet(I), I # {}, NEW m, m \notin I, NEW J, J \subseteq I
    PROVE  /\ Ratio(J, I, 100) = (One * Cardinality(J)) \div Cardinality(I)
           /\ Ratio(J, I \cup {m}, 100) =
                 (One * Cardinality(J)) \div (Cardinality(I) + 1)
           /\ Ratio(J \cup {m}, I \cup {m}, 100) =
                 (One * (Cardinality(J) + 1)) \div (Cardinality(I) + 1)
<1> DEFINE n == Cardinality(I)
           c == Cardinality(J)
<1>1. Percent(100) = One /\ I \cup {m} # {}
  BY WholePercent
<1>2. Ratio(J, I, 100) = (One * c) \div n
  BY <1>1 DEF Ratio
<1>3. Ratio(J, I \cup {m}, 100) = (One * c) \div (n + 1)
  BY <1>1, SizeJoined DEF Ratio
<1>4. Ratio(J \cup {m}, I \cup {m}, 100) = (One * (c + 1)) \div (n + 1)
  BY <1>1, SizeJoined DEF Ratio
<1> QED
  BY <1>2, <1>3, <1>4

\* The rating at m is low.
LowAt(ts, m) == ts[m].stars <= LowRating

\* The low ratings with one more.
LEMMA LowGrow ==
    ASSUME NEW rs, NEW ts, NEW m, Joined(rs, ts, m), NEW I, I \subseteq DOMAIN rs,
           LowAt(ts, m)
    PROVE  LowOnes(ts, I \cup {m}) = LowOnes(rs, I) \cup {m}
<1>1. m \notin I /\ \A i \in I : ts[i] = rs[i]
  BY DEF Joined
<1> QED
  BY <1>1 DEF LowOnes, LowAt

\* The misjudged ones with one more low rating.
LEMMA LowJoined ==
    ASSUME NEW rs, NEW ts, NEW m, Joined(rs, ts, m), NEW I, I \subseteq DOMAIN rs,
           LowAt(ts, m)
    PROVE  /\ LowOnes(rs, I) \subseteq I
           /\ Misjudged(rs, I) \subseteq LowOnes(rs, I)
           /\ \/ Misjudged(ts, I \cup {m}) = Misjudged(rs, I)
              \/ Misjudged(ts, I \cup {m}) = Misjudged(rs, I) \cup {m}
<1>1. m \notin I /\ \A i \in I : ts[i] = rs[i]
  BY DEF Joined
<1>2. LowOnes(rs, I) \subseteq I
  BY DEF LowOnes
<1> DEFINE L == LowOnes(rs, I)
           Bad(us, i) == us[i].score >= 100 * Percent(75)
<1>3. Misjudged(rs, I) = {i \in L : Bad(rs, i)}
  BY DEF Misjudged
<1>4. Misjudged(ts, I \cup {m}) = {i \in L \cup {m} : Bad(ts, i)}
  BY LowGrow DEF Misjudged
<1>5. \A i \in L : Bad(ts, i) <=> Bad(rs, i)
  BY <1>1, <1>2
<1> HIDE DEF L, Bad
<1>6. {i \in L \cup {m} : Bad(ts, i)} \in {{i \in L : Bad(rs, i)}, {i \in L : Bad(rs, i)} \cup {m}}
  BY <1>5
<1> QED
  BY <1>2, <1>3, <1>4, <1>6 DEF L

\* Of the issues ticked, none has a smaller share with one more rating that
\* ticks them all.
LEMMA IssuesJoined ==
    ASSUME NEW rs, NEW ts, NEW m, Joined(rs, ts, m), NEW I, I \subseteq DOMAIN rs,
           IsFiniteSet(I), I # {}, NEW kind, kind \in ts[m].issues
    PROVE  LET a == Ratio({i \in I : kind \in rs[i].issues}, I, 100)
               b == Ratio({i \in I \cup {m} : kind \in ts[i].issues}, I \cup {m}, 100)
           IN  a \in Nat /\ b \in Nat /\ a <= b
<1>1. m \notin I /\ \A i \in I : ts[i] = rs[i]
  BY DEF Joined
<1>2. PICK J : J = {i \in I : kind \in rs[i].issues}
  OBVIOUS
<1>3. {i \in I \cup {m} : kind \in ts[i].issues} = J \cup {m} /\ J \subseteq I
  BY <1>1, <1>2
<1>4. PICK n, c : n = Cardinality(I) /\ c = Cardinality(J)
  OBVIOUS
<1>5. n \in Nat /\ n > 0 /\ c \in Nat /\ c <= n
  BY <1>1, <1>3, <1>4, SizeJoined
<1>6. /\ Ratio(J, I, 100) = (One * c) \div n
      /\ Ratio(J \cup {m}, I \cup {m}, 100) = (One * (c + 1)) \div (n + 1)
  BY <1>1, <1>3, <1>4, ShareJoined
<1>7. c \in 0..n
  BY <1>5
<1>8. /\ (One * c) \div n \in Nat /\ (One * (c + 1)) \div (n + 1) \in Nat
      /\ (One * c) \div n <= (One * (c + 1)) \div (n + 1)
  BY <1>5, <1>7, ShareGrows, WholePercent
<1> QED
  BY <1>2, <1>3, <1>6, <1>8

\* The counts with one more low rating.
LEMMA CountsJoined ==
    ASSUME NEW rs, NEW ts, NEW m, Joined(rs, ts, m), NEW I, I \subseteq DOMAIN rs,
           IsFiniteSet(I), I # {}, LowAt(ts, m)
    PROVE  /\ Cardinality(I) \in Nat /\ Cardinality(I) > 0
           /\ Cardinality(I \cup {m}) = Cardinality(I) + 1
           /\ Cardinality(LowOnes(rs, I)) \in 0..Cardinality(I)
           /\ Cardinality(LowOnes(ts, I \cup {m})) = Cardinality(LowOnes(rs, I)) + 1
<1>1. m \notin I
  BY DEF Joined
<1>2. PICK L, M : L = LowOnes(rs, I) /\ M = Misjudged(rs, I)
  OBVIOUS
<1>3. L \subseteq I /\ M \subseteq L
  BY <1>2, LowJoined
<1>4. LowOnes(ts, I \cup {m}) = LowOnes(rs, I) \cup {m}
  BY LowGrow
<1>5. /\ IsFiniteSet(L) /\ Cardinality(L) \in Nat
      /\ Cardinality(L) <= Cardinality(I)
      /\ Cardinality(L \cup {m}) = Cardinality(L) + 1
      /\ Cardinality(I \cup {m}) = Cardinality(I) + 1
      /\ Cardinality(I) \in Nat /\ Cardinality(I) > 0
  BY <1>1, <1>3, SizeJoined
<1>6. Cardinality(L) \in 0..Cardinality(I)
  BY <1>5
<1>7. Cardinality(LowOnes(ts, I \cup {m})) = Cardinality(L \cup {m})
  BY <1>2, <1>4
<1>8. Cardinality(LowOnes(ts, I \cup {m})) = Cardinality(L) + 1
  BY <1>5, <1>7
<1> QED
  BY <1>2, <1>5, <1>6, <1>8

\* The share of misjudged runs with one more low rating.
LEMMA MisjudgedJoined ==
    ASSUME NEW rs, NEW ts, NEW m, Joined(rs, ts, m), NEW I, I \subseteq DOMAIN rs,
           IsFiniteSet(I), I # {}, LowAt(ts, m)
    PROVE  \E a, b \in Nat :
              /\ a <= Cardinality(LowOnes(rs, I)) /\ a <= b
              /\ Ratio(Misjudged(rs, I), I, 100) = (One * a) \div Cardinality(I)
              /\ Ratio(Misjudged(ts, I \cup {m}), I \cup {m}, 100) =
                    (One * b) \div (Cardinality(I) + 1)
<1>1. m \notin I
  BY DEF Joined
<1>2. PICK M, L : M = Misjudged(rs, I) /\ L = LowOnes(rs, I)
  OBVIOUS
<1>3. L \subseteq I /\ M \subseteq L
  BY <1>2, LowJoined
<1>4. Misjudged(ts, I \cup {m}) = M \/ Misjudged(ts, I \cup {m}) = M \cup {m}
  BY <1>2, LowJoined
<1>5. M \subseteq I /\ IsFiniteSet(L)
  BY <1>3, FS_Subset
<1>6. Cardinality(M) \in Nat /\ Cardinality(M) <= Cardinality(L)
  BY <1>3, <1>5, FS_Subset, FS_CardinalityType
<1>7. PICK a, n : a = Cardinality(M) /\ n = Cardinality(I)
  OBVIOUS
<1>8. /\ Ratio(M, I, 100) = (One * Cardinality(M)) \div Cardinality(I)
      /\ Ratio(M, I \cup {m}, 100) = (One * Cardinality(M)) \div (Cardinality(I) + 1)
      /\ Ratio(M \cup {m}, I \cup {m}, 100) =
            (One * (Cardinality(M) + 1)) \div (Cardinality(I) + 1)
  BY <1>1, <1>5, ShareJoined
<1>9. /\ Ratio(M, I, 100) = (One * a) \div n
      /\ Ratio(M, I \cup {m}, 100) = (One * a) \div (n + 1)
      /\ Ratio(M \cup {m}, I \cup {m}, 100) = (One * (a + 1)) \div (n + 1)
  BY <1>7, <1>8
<1>10. a \in Nat /\ a + 1 \in Nat /\ a <= a /\ a <= a + 1 /\ a <= Cardinality(L)
  BY <1>6, <1>7
<1>11. CASE Misjudged(ts, I \cup {m}) = M
  BY <1>2, <1>7, <1>9, <1>10, <1>11
<1>12. CASE Misjudged(ts, I \cup {m}) = M \cup {m}
  BY <1>2, <1>7, <1>9, <1>10, <1>12
<1> QED
  BY <1>4, <1>11, <1>12

\* One more low rating of just this kind, with its issues ticked, makes a
\* summary lower.
LEMMA LowerSummary ==
    ASSUME NEW rs, RatingList(rs), NEW ts, NEW m, Joined(rs, ts, m),
           NEW cfg, NEW ids, ts[m].cfg = cfg, ids = {} \/ ts[m].providers \cap ids # {},
           ts[m].stars \in 1..LowRating, ts[m].issues = Kinds, Exact(rs, cfg, ids) # {}
    PROVE  Lower(Summary(rs, cfg, ids), Summary(ts, cfg, ids))
<1>1. PICK I, K : I = Exact(rs, cfg, ids) /\ K = I \cup {m}
  OBVIOUS
<1>2. PICK s, t : s = Summary(rs, cfg, ids) /\ t = Summary(ts, cfg, ids)
  OBVIOUS
<1>3. /\ ByTopic(ts, cfg) = ByTopic(rs, cfg) \cup {m}
      /\ ByProvider(ts, ids) = ByProvider(rs, ids) \cup {m}
      /\ I = Relevant(rs, cfg, ids) /\ K = Relevant(ts, cfg, ids)
  BY <1>1, JoinedSets DEF Relevant
<1>4. IsFiniteSet(DOMAIN rs) /\ I \subseteq DOMAIN rs /\ IsFiniteSet(I) /\ I # {}
  <2>1. IsFiniteSet(DOMAIN rs)
    BY UpTo DEF RatingList
  <2> QED
    BY <1>1, <1>3, <2>1, RelevantAmong, FS_Subset
<1>5. LowAt(ts, m)
  BY DEF LowRating, LowAt
<1>6. PICK n, low : n = Cardinality(I) /\ low = Cardinality(LowOnes(rs, I))
  OBVIOUS
<1>7. /\ n \in Nat /\ n > 0 /\ s.samples = n /\ t.samples = n + 1
      /\ s.low = low /\ low \in 0..n /\ t.low = low + 1
  <2>1. /\ Cardinality(I) \in Nat /\ Cardinality(I) > 0
        /\ Cardinality(I \cup {m}) = Cardinality(I) + 1
        /\ Cardinality(LowOnes(rs, I)) \in 0..Cardinality(I)
        /\ Cardinality(LowOnes(ts, I \cup {m})) = Cardinality(LowOnes(rs, I)) + 1
    BY <1>4, <1>5, CountsJoined
  <2>2. s.samples = Cardinality(I) /\ s.low = Cardinality(LowOnes(rs, I))
    BY <1>2, <1>3, RiskCounts
  <2>3. t.samples = Cardinality(K) /\ t.low = Cardinality(LowOnes(ts, K))
    BY <1>2, <1>3, RiskCounts
  <2> QED
    BY <1>1, <1>6, <2>1, <2>2, <2>3
<1>8. ASSUME NEW kind \in Kinds
      PROVE  /\ s.issues[kind] \in Nat /\ t.issues[kind] \in Nat
             /\ s.issues[kind] <= t.issues[kind]
  <2>1. s.issues[kind] = Ratio({i \in I : kind \in rs[i].issues}, I, 100)
    BY <1>2, <1>3, <1>8, RiskShares
  <2>2. t.issues[kind] = Ratio({i \in K : kind \in ts[i].issues}, K, 100)
    BY <1>2, <1>3, <1>8, RiskShares
  <2>3. kind \in ts[m].issues
    BY <1>8
  <2>4. t.issues[kind] = Ratio({i \in I \cup {m} : kind \in ts[i].issues}, I \cup {m}, 100)
    BY <1>1, <2>2
  <2> QED
    BY <1>4, <2>1, <2>3, <2>4, IssuesJoined
<1>9. /\ LowAverage(s.average.topic) => LowAverage(t.average.topic)
      /\ LowAverage(s.average.provider) => LowAverage(t.average.provider)
  <2>1. ASSUME NEW J, J \subseteq DOMAIN rs, LowAverage(Average(rs, J))
        PROVE  LowAverage(Average(ts, J \cup {m}))
    <3>1. IsFiniteSet(J) /\ \A i \in J : rs[i].stars \in Stars
      BY <1>4, <2>1, FS_Subset DEF RatingList
    <3> QED
      BY <2>1, <3>1, AverageLower
  <2>2. /\ s.average.topic = Average(rs, ByTopic(rs, cfg))
        /\ s.average.provider = Average(rs, ByProvider(rs, ids))
    BY <1>2, RiskAverages
  <2>3. /\ t.average.topic = Average(ts, ByTopic(rs, cfg) \cup {m})
        /\ t.average.provider = Average(ts, ByProvider(rs, ids) \cup {m})
    BY <1>2, <1>3, RiskAverages
  <2> QED
    BY <2>1, <2>2, <2>3, RelevantAmong
<1>10. \E a, b \in Nat : /\ a <= low /\ a <= b
                         /\ s.mismatch = (One * a) \div n
                         /\ t.mismatch = (One * b) \div (n + 1)
  <2>1. s.mismatch = Ratio(Misjudged(rs, I), I, 100)
    BY <1>2, <1>3, RiskShares
  <2>2. t.mismatch = Ratio(Misjudged(ts, K), K, 100)
    BY <1>2, <1>3, RiskShares
  <2>3. \E a, b \in Nat :
            /\ a <= Cardinality(LowOnes(rs, I)) /\ a <= b
            /\ Ratio(Misjudged(rs, I), I, 100) = (One * a) \div Cardinality(I)
            /\ Ratio(Misjudged(ts, I \cup {m}), I \cup {m}, 100) =
                  (One * b) \div (Cardinality(I) + 1)
    BY <1>4, <1>5, MisjudgedJoined
  <2> QED
    BY <1>1, <1>6, <2>1, <2>2, <2>3
<1>11. Lower(s, t)
  BY <1>7, <1>8, <1>9, <1>10 DEF Lower
<1> QED
  BY <1>2, <1>11

-----------------------------------------------------------------------------
(* What a lower summary does to a run's review and its risk.               *)

\* Of few ratings, one misjudged run is less than the share that matters.
LEMMA MisjudgedTwice ==
    ASSUME NEW n \in Nat, n >= 3, NEW a \in Nat, (One * a) \div n >= Percent(60)
    PROVE  a >= 2
<1>1. CASE a = 0
  <2>1. (One * a) \div n = 0
    BY <1>1, SMT DEF One
  <2> QED
    BY <2>1, SMT DEF Percent, One
<1>2. CASE a = 1
  <2>1. (180000 * 1) \div n <= 60000
    BY MisjudgedLess, SMT
  <2> QED
    BY <1>2, <2>1, SMT DEF Percent, One
<1> QED
  BY <1>1, <1>2, SMT

\* A lower summary is reviewed where the other one was.
LEMMA ReviewStays ==
    ASSUME NEW s, NEW t, Lower(s, t), RatingReview(s)
    PROVE  RatingReview(t)
<1>1. /\ s.samples \in Nat /\ s.samples >= 3 /\ t.samples >= 3
      /\ s.low \in Nat /\ t.low = s.low + 1
  BY SMT DEF Lower, RatingReview, Enough
<1>2. CASE LowAverage(s.average.topic) \/ LowAverage(s.average.provider)
  BY <1>1, <1>2 DEF Lower, RatingReview, Enough
<1>3. CASE s.low >= 3
  BY <1>1, <1>3 DEF RatingReview, Enough
<1>4. CASE s.mismatch >= Percent(60)
  <2>1. PICK a \in Nat : a <= s.low /\ s.mismatch = (One * a) \div s.samples
    BY DEF Lower
  <2>2. a >= 2
    BY <1>1, <1>4, <2>1, MisjudgedTwice
  <2> QED
    BY <1>1, <2>1, <2>2 DEF RatingReview, Enough
<1> QED
  BY <1>2, <1>3, <1>4 DEF RatingReview

\* A share of a count.
LEMMA ShareType ==
    ASSUME NEW count \in Nat
    PROVE  /\ \A full \in {2, 3, 4} : Share(count, full) \in Nat
           /\ count <= 2 => Share(count, 4) = 45000 * count
BY SMT DEF Share, Least, One

\* What the history of a summary adds to a risk, by name.
Averaged(s) == (IF LowAverage(s.average.topic) THEN 24 * One ELSE 0)
               + (IF LowAverage(s.average.provider) THEN 20 * One ELSE 0)
Named(s) == 8 * s.issues.terminology + 6 * s.issues.style + 6 * s.issues.lore

\* What the history adds to a risk is the sum of what its parts add, each a number.
LEMMA HistoryParts ==
    ASSUME NEW s, \A kind \in Kinds : s.issues[kind] \in Nat,
           s.mismatch \in Nat, s.low \in Nat
    PROVE  /\ Averaged(s) \in Nat /\ Named(s) \in Nat /\ Share(s.low, 4) \in Nat
           /\ HistoryRisk(s) = IF ~Enough(s) THEN 0
                               ELSE Averaged(s) + 18 * Share(s.low, 4)
                                    + 20 * s.mismatch + Named(s)
<1> DEFINE A == IF LowAverage(s.average.topic) THEN 24 * One ELSE 0
           B == IF LowAverage(s.average.provider) THEN 20 * One ELSE 0
           a == Share(s.low, 4)
           b == s.mismatch
           c == s.issues.terminology
           d == s.issues.style
           e == s.issues.lore
<1>1. HistoryRisk(s) = IF ~Enough(s) THEN 0
                       ELSE A + B + 18 * a + 20 * b + 8 * c + 6 * d + 6 * e
  BY DEF HistoryRisk
<1>2. A \in Nat /\ B \in Nat
  BY WholePercent
<1>3. a \in Nat /\ b \in Nat /\ c \in Nat /\ d \in Nat /\ e \in Nat
  BY ShareType DEF Kinds
<1>4. Averaged(s) = A + B /\ Named(s) = 8 * c + 6 * d + 6 * e
  BY DEF Averaged, Named
<1> HIDE DEF A, B, a, b, c, d, e
<1>5. A + B \in Nat /\ 8 * c + 6 * d + 6 * e \in Nat
      /\ A + B + 18 * a + 20 * b + 8 * c + 6 * d + 6 * e
            = (A + B) + 18 * a + 20 * b + (8 * c + 6 * d + 6 * e)
  BY <1>2, <1>3
<1>6. a \in Nat /\ Averaged(s) \in Nat /\ Named(s) \in Nat
  BY <1>3, <1>4, <1>5
<1>7. HistoryRisk(s) = IF ~Enough(s) THEN 0
                       ELSE Averaged(s) + 18 * a + 20 * b + Named(s)
  BY <1>1, <1>4, <1>5
<1> QED
  BY <1>6, <1>7 DEF a, b

\* The misjudged share never loses more than one more low rating adds.
LEMMA MisjudgedOutweighed ==
    ASSUME NEW n \in Nat, n >= 3, NEW low \in 0..1,
           NEW a \in Nat, NEW b \in Nat, a <= low, a <= b
    PROVE  /\ (One * a) \div n \in Nat /\ (One * b) \div (n + 1) \in Nat
           /\ 18 * Share(low, 4) + 20 * ((One * a) \div n)
                 <= 18 * Share(low + 1, 4) + 20 * ((One * b) \div (n + 1))
<1> DEFINE p == (180000 * a) \div n
           q == (180000 * b) \div (n + 1)
<1>1. p \in Nat /\ q \in Nat
  <2>1. 180000 * a \in Nat /\ 180000 * b \in Nat /\ n + 1 \in Nat /\ n > 0 /\ n + 1 > 0
    BY SMT
  <2> QED
    BY <2>1, QuotientBounds, SMT
<1>2. p <= q + 40000
  <2>1. CASE a = 0
    <3>1. p = 0
      BY <2>1, SMT
    <3> QED
      BY <1>1, <3>1, SMT
  <2>2. CASE a = 1
    BY <2>2, MisjudgedLess, SMT
  <2> QED
    BY <2>1, <2>2, SMT
<1>3. Share(low, 4) = 45000 * low /\ Share(low + 1, 4) = 45000 * (low + 1)
  BY ShareType, SMT
<1>4. (One * a) \div n = p /\ (One * b) \div (n + 1) = q
  BY SMT DEF One
<1> HIDE DEF p, q
<1>5. 18 * (45000 * low) + 20 * p <= 18 * (45000 * (low + 1)) + 20 * q
  BY <1>1, <1>2, SMT
<1> QED
  BY <1>1, <1>3, <1>4, <1>5, SMT

\* Averages that are low count for the risk, and stay low.
LEMMA AveragedGrows ==
    ASSUME NEW s, NEW t,
           LowAverage(s.average.topic) => LowAverage(t.average.topic),
           LowAverage(s.average.provider) => LowAverage(t.average.provider)
    PROVE  Averaged(s) <= Averaged(t)
<1>1. 24 * One \in Nat /\ 20 * One \in Nat
  BY WholePercent
<1> QED
  BY <1>1 DEF Averaged

\* So do the issues.
LEMMA NamedGrows ==
    ASSUME NEW s, NEW t, \A kind \in Kinds : /\ s.issues[kind] \in Nat
                                             /\ t.issues[kind] \in Nat
                                             /\ s.issues[kind] <= t.issues[kind]
    PROVE  Named(s) <= Named(t)
<1>1. /\ s.issues.terminology \in Nat /\ t.issues.terminology \in Nat
      /\ s.issues.terminology <= t.issues.terminology
  BY DEF Kinds
<1>2. /\ s.issues.style \in Nat /\ t.issues.style \in Nat
      /\ s.issues.style <= t.issues.style
  BY DEF Kinds
<1>3. /\ s.issues.lore \in Nat /\ t.issues.lore \in Nat
      /\ s.issues.lore <= t.issues.lore
  BY DEF Kinds
<1> QED
  BY <1>1, <1>2, <1>3 DEF Named

\* A lower summary adds as much to a risk, unless it asks for a review anyway.
LEMMA HistoryGrows ==
    ASSUME NEW s, NEW t, Lower(s, t), ~RatingReview(t)
    PROVE  /\ HistoryRisk(s) \in Nat /\ HistoryRisk(t) \in Nat
           /\ HistoryRisk(s) <= HistoryRisk(t)
<1>1. /\ s.samples \in Nat /\ s.samples > 0 /\ t.samples = s.samples + 1
      /\ s.low \in 0..s.samples /\ t.low = s.low + 1
  BY DEF Lower
<1>2. PICK n, low : n = s.samples /\ low = s.low
  OBVIOUS
<1>3. PICK a, b \in Nat : /\ a <= s.low /\ a <= b
                          /\ s.mismatch = (One * a) \div s.samples
                          /\ t.mismatch = (One * b) \div (s.samples + 1)
  BY DEF Lower
<1>4. /\ n \in Nat /\ n > 0 /\ low \in Nat /\ low <= n /\ t.samples = n + 1
      /\ t.low = low + 1 /\ a <= low
      /\ s.mismatch = (One * a) \div n /\ t.mismatch = (One * b) \div (n + 1)
  BY <1>1, <1>2, <1>3
<1>5. s.mismatch \in Nat /\ t.mismatch \in Nat
  <2>1. One * a \in Nat /\ One * b \in Nat /\ n + 1 \in Nat /\ n + 1 > 0
    BY <1>4, WholePercent
  <2> QED
    BY <1>4, <2>1, QuotientBounds
<1>6. /\ \A kind \in Kinds : s.issues[kind] \in Nat /\ t.issues[kind] \in Nat
                              /\ s.issues[kind] <= t.issues[kind]
      /\ LowAverage(s.average.topic) => LowAverage(t.average.topic)
      /\ LowAverage(s.average.provider) => LowAverage(t.average.provider)
  BY DEF Lower
<1>7. s.low \in Nat /\ t.low \in Nat
  BY <1>1
<1>8. /\ Averaged(s) \in Nat /\ Named(s) \in Nat /\ Share(s.low, 4) \in Nat
      /\ HistoryRisk(s) = IF ~Enough(s) THEN 0
                          ELSE Averaged(s) + 18 * Share(s.low, 4)
                               + 20 * s.mismatch + Named(s)
  BY <1>5, <1>6, <1>7, HistoryParts
<1>9. /\ Averaged(t) \in Nat /\ Named(t) \in Nat /\ Share(t.low, 4) \in Nat
      /\ HistoryRisk(t) = IF ~Enough(t) THEN 0
                          ELSE Averaged(t) + 18 * Share(t.low, 4)
                               + 20 * t.mismatch + Named(t)
  BY <1>5, <1>6, <1>7, HistoryParts
<1>10. HistoryRisk(s) \in Nat /\ HistoryRisk(t) \in Nat
  BY <1>5, <1>8, <1>9
<1>11. CASE ~Enough(s)
  BY <1>8, <1>10, <1>11
<1>12. CASE Enough(s)
  <2>1. n >= 3 /\ Enough(t)
    BY <1>2, <1>4, <1>12 DEF Enough
  <2>2. low \in 0..1
    BY <1>4, <2>1 DEF RatingReview
  <2>3. 18 * Share(low, 4) + 20 * ((One * a) \div n)
           <= 18 * Share(low + 1, 4) + 20 * ((One * b) \div (n + 1))
    BY <1>3, <1>4, <2>1, <2>2, MisjudgedOutweighed
  <2>4. 18 * Share(s.low, 4) + 20 * s.mismatch <= 18 * Share(t.low, 4) + 20 * t.mismatch
    BY <1>2, <1>4, <2>3
  <2>5. Averaged(s) <= Averaged(t) /\ Named(s) <= Named(t)
    BY <1>6, AveragedGrows, NamedGrows
  <2> QED
    BY <1>5, <1>8, <1>9, <1>12, <2>1, <2>4, <2>5
<1> QED
  BY <1>10, <1>11, <1>12

\* What a text itself adds to a risk.
TextRisk(context) ==
    22 * Share(context.tags, 3) + 28 * Share(context.markers, 2)
    + 20 * Share(context.corrections, 3) + 18 * Share(context.riskTerms, 2)
    + TokenRisk(context.tokens)

\* A risk grows with what the history adds.
LEMMA RiskGrows ==
    ASSUME NEW c, NEW d, c.tags = d.tags, c.markers = d.markers,
           c.corrections = d.corrections, c.riskTerms = d.riskTerms,
           c.tokens = d.tokens, c.tags \in Nat, c.markers \in Nat,
           c.corrections \in Nat, c.riskTerms \in Nat, c.tokens \in Nat,
           HistoryRisk(c.ratings) \in Nat, HistoryRisk(d.ratings) \in Nat,
           HistoryRisk(c.ratings) <= HistoryRisk(d.ratings), HighRisk(c)
    PROVE  HighRisk(d)
<1>1. TextRisk(c) = TextRisk(d) /\ TextRisk(c) \in Nat
  <2>1. TokenRisk(c.tokens) \in Nat
    BY WholePercent DEF TokenRisk
  <2>2. /\ Share(c.tags, 3) \in Nat /\ Share(c.markers, 2) \in Nat
        /\ Share(c.corrections, 3) \in Nat /\ Share(c.riskTerms, 2) \in Nat
    BY ShareType
  <2> QED
    BY <2>1, <2>2 DEF TextRisk
<1>2. /\ RiskScore(c) = Least(TextRisk(c) + HistoryRisk(c.ratings), 100 * One)
      /\ RiskScore(d) = Least(TextRisk(d) + HistoryRisk(d.ratings), 100 * One)
  BY DEF RiskScore, TextRisk
<1> QED
  BY <1>1, <1>2, WholePercent DEF HighRisk, Least

\* The policy agent lets a run iterate by itself when neither the ratings
\* nor the risk are against it.
LEMMA SelfIterates ==
    ASSUME NEW context
    PROVE  SelectedMode(context) = "self_iterative"
              <=> ~RatingReview(context.ratings) /\ ~HighRisk(context)
BY DEF SelectedMode, Policy!SelectMode

\* One more low rating of just this kind, with its issues ticked, frees no
\* run.
LEMMA NeverFreed ==
    ASSUME NEW rs, RatingList(rs), NEW ts, NEW m, Joined(rs, ts, m),
           NEW cfg, NEW task \in Tasks, ts[m].cfg = cfg,
           Ids(task) = {} \/ ts[m].providers \cap Ids(task) # {},
           ts[m].stars \in 1..LowRating, ts[m].issues = Kinds,
           Exact(rs, cfg, Ids(task)) # {},
           Chosen(ts, cfg, task) = "self_iterative"
    PROVE  Chosen(rs, cfg, task) = "self_iterative"
<1>1. PICK c, d, s, t : /\ s = Signals(rs, cfg, task) /\ t = Signals(ts, cfg, task)
                        /\ c = Context(Counted(cfg, task), s)
                        /\ d = Context(Counted(cfg, task), t)
  OBVIOUS
<1>2. /\ c.tags = Counted(cfg, task).tags /\ d.tags = c.tags
      /\ c.markers = Counted(cfg, task).markers /\ d.markers = c.markers
      /\ c.riskTerms = c.markers /\ d.riskTerms = c.markers
      /\ c.corrections = Counted(cfg, task).corrections /\ d.corrections = c.corrections
      /\ c.tokens = Counted(cfg, task).tokens /\ d.tokens = c.tokens
      /\ c.ratings = s /\ d.ratings = t
  BY <1>1 DEF Context
<1>3. /\ c.tags \in Nat /\ c.markers \in Nat /\ c.corrections \in Nat
      /\ c.tokens \in Nat
  <2>1. Measured(Job[task])
    BY JobAssumption DEF Tasks
  <2>2. /\ Job[task].tags \in Nat /\ Job[task].tokens \in Nat
        /\ {"markers", "corrections"} \subseteq DOMAIN Job[task]
    BY <2>1 DEF Measured
  <2>3. Markers(cfg, task) \in Nat
    BY JobAssumption, FS_Subset, FS_CardinalityType DEF Markers, Matching
  <2>4. UserCorrections(cfg, task) \in Nat
    BY JobAssumption, FS_Subset, FS_CardinalityType DEF UserCorrections, Matching
  <2>5. /\ Counted(cfg, task).tags = Job[task].tags
        /\ Counted(cfg, task).tokens = Job[task].tokens
        /\ Counted(cfg, task).markers = Markers(cfg, task)
        /\ Counted(cfg, task).corrections = UserCorrections(cfg, task)
    BY <2>2 DEF Counted
  <2> QED
    BY <1>2, <2>2, <2>3, <2>4, <2>5
<1>4. Lower(s, t)
  BY <1>1, LowerSummary DEF Signals
<1>5. ~RatingReview(t) /\ ~HighRisk(d)
  BY <1>1, <1>2, SelfIterates DEF Chosen
<1>6. ~RatingReview(s)
  BY <1>4, <1>5, ReviewStays
<1>7. /\ HistoryRisk(s) \in Nat /\ HistoryRisk(t) \in Nat
      /\ HistoryRisk(s) <= HistoryRisk(t)
  BY <1>4, <1>5, HistoryGrows
<1>8. ~HighRisk(c)
  BY <1>2, <1>3, <1>5, <1>7, RiskGrows
<1> QED
  BY <1>1, <1>2, <1>6, <1>8, SelfIterates DEF Chosen

\* Where the variables have their types, low ratings hold runs back.
LEMMA HeldBack == TypeOK => LowRatingsHoldBack
<1> SUFFICES ASSUME TypeOK, NEW w \in Windows, last[w] # 0,
                    NEW stars \in Rates, stars <= LowRating, Issues(stars) = Kinds,
                    NEW task, task = runs[last[w]].task,
                    Exact(ratings, config[w], Ids(task)) # {},
                    Chosen(Stored(Filed(w, stars)), config[w], task) = "self_iterative"
             PROVE  Chosen(ratings, config[w], task) = "self_iterative"
  BY DEF LowRatingsHoldBack
<1>1. ratings \in Seq(RatingRow) /\ runs \in Seq(RunRow) /\ last[w] \in 1..Len(runs)
  BY DEF TypeOK, RatingRow, RunRow
<1>2. task \in Tasks
  <2>1. runs[last[w]] \in RunRow
    BY <1>1
  <2> QED
    BY <2>1 DEF RunRow
<1>3. PICK r : r = Filed(w, stars)
  OBVIOUS
<1>4. /\ r.cfg = config[w] /\ r.stars = stars /\ r.issues = Kinds
      /\ r.providers = Ids(task)
  BY <1>3 DEF Filed, Rating
<1>5. PICK ts, m : ts = Append(ratings, r) /\ m = Len(ratings) + 1
  OBVIOUS
<1>6. Joined(ratings, ts, m) /\ ts[m] = r
  <2>1. ratings \in Seq(RatingRow \cup {r})
    BY <1>1, SeqWider
  <2>2. r \in RatingRow \cup {r}
    OBVIOUS
  <2>3. /\ DOMAIN ratings = 1..Len(ratings) /\ Len(ratings) \in Nat
        /\ DOMAIN ts = 1..(Len(ratings) + 1) /\ ts[Len(ratings) + 1] = r
        /\ \A i \in DOMAIN ratings : ts[i] = ratings[i]
    BY <1>5, <2>1, <2>2, AppendType
  <2> QED
    BY <1>5, <2>3 DEF Joined
<1>7. RatingList(ratings)
  <2>1. /\ DOMAIN ratings = 1..Len(ratings) /\ Len(ratings) \in Nat
        /\ \A i \in DOMAIN ratings : ratings[i] \in RatingRow
    BY <1>1
  <2> QED
    BY <2>1 DEF RatingList, RatingRow
<1>8. stars \in 1..LowRating
  BY DeskAssumption DEF DeskAssumption, Stars, LowRating
<1>9. Ids(task) = {} \/ ts[m].providers \cap Ids(task) # {}
  BY <1>4, <1>6
<1>10. Chosen(ts, config[w], task) = "self_iterative"
  BY <1>3, <1>5 DEF Stored
<1> QED
  BY <1>2, <1>4, <1>6, <1>7, <1>8, <1>9, <1>10, NeverFreed

\* For any tasks, configs and ratings: one more low rating of a run, with its
\* issues ticked, never lets a run of its kind decide by itself that had to
\* wait for its user before.
THEOREM LowRatingsHold == Spec => []LowRatingsHoldBack
BY HeldBack, TypeCorrect, PTL

-----------------------------------------------------------------------------
(* What a run may make of a decision.                                      *)

\* The least of finitely many numbers.
LEMMA MinIn ==
    ASSUME NEW S, S \subseteq Int, IsFiniteSet(S), S # {}
    PROVE  Min(S) \in S
<1>1. 1 \in 1..Cardinality(S)
  BY FS_CardinalityType, FS_EmptySet
<1>2. PICK x \in S : Place(S, x) = 1
  BY <1>1, PlaceTaken
<1>3. \A y \in S : x <= y
  <2> SUFFICES ASSUME NEW y \in S, y < x PROVE FALSE
    OBVIOUS
  <2>1. Place(S, y) < Place(S, x) /\ Place(S, y) \in 1..Cardinality(S)
    BY PlaceGrows
  <2> QED
    BY <1>2, <2>1
<1> QED
  BY <1>3 DEF Min

\* Every candidate that is collected says something.
LEMMA CollectedSpeaks ==
    ASSUME NEW task, NEW texts, Scorable(task, texts), NEW k \in DOMAIN Collected(task)
    PROVE  Collected(task)[k].text # NoText
<1> DEFINE s == task.candidates
           I == {i \in DOMAIN s : s[i].text # NoText}
           g == Remembered("glossary", task.glossary, 64, task.glossaryHits)
           m == Remembered("translationMemory", task.memory, 78, 1)
           S == {c \in {s[i] : i \in I} \cup {g, m} : c.text # NoText}
           a == Kept(s, I)
           b == IF task.glossary \in {NoText, task.source} THEN <<>> ELSE <<g>>
           c == IF task.memory = NoText THEN <<>> ELSE <<m>>
<1>1. a \in Seq(S)
  <2>1. a \in Seq({s[i] : i \in I})
    <3>1. s \in Seq({s[i] : i \in DOMAIN s}) /\ I \subseteq DOMAIN s
      BY DEF Scorable
    <3> HIDE DEF s, I
    <3> QED
      BY <3>1, KeptType
  <2>2. {s[i] : i \in I} \subseteq S
    OBVIOUS
  <2>3. \A A, B : A \subseteq B => \A l \in Seq(A) : l \in Seq(B)
    OBVIOUS
  <2> HIDE DEF a, S, I
  <2> QED
    BY <2>1, <2>2, <2>3
<1>2. b \in Seq(S)
  <2>1. CASE task.glossary \in {NoText, task.source}
    <3>1. b = <<>>
      BY <2>1
    <3> HIDE DEF b, S
    <3> QED
      BY <3>1
  <2>2. CASE task.glossary \notin {NoText, task.source}
    <3>1. b = <<g>> /\ g \in S
      BY <2>2 DEF Remembered
    <3> HIDE DEF b, S, g
    <3> QED
      BY <3>1
  <2> QED
    BY <2>1, <2>2
<1>3. c \in Seq(S)
  <2>1. CASE task.memory = NoText
    <3>1. c = <<>>
      BY <2>1
    <3> HIDE DEF c, S
    <3> QED
      BY <3>1
  <2>2. CASE task.memory # NoText
    <3>1. c = <<m>> /\ m \in S
      BY <2>2 DEF Remembered
    <3> HIDE DEF c, S, m
    <3> QED
      BY <3>1
  <2> QED
    BY <2>1, <2>2
<1>4. Collected(task) = (a \o b) \o c
  BY DEF Collected
<1>5. \A e \in S : e.text # NoText
  OBVIOUS
<1> HIDE DEF a, b, c, S
<1>6. (a \o b) \o c \in Seq(S)
  BY <1>1, <1>2, <1>3
<1> QED
  BY <1>4, <1>5, <1>6

\* The winner is one of the candidates.
LEMMA WinnerIsOne ==
    ASSUME NEW cs, NEW texts, Scorables(cs, texts)
    PROVE  \E k \in DOMAIN cs : Winner(cs) = cs[k].text
<1> DEFINE support == {<<k, Support(cs, cs[k].text)>> : k \in DOMAIN cs}
           values == {s[2] : s \in support}
           leaders == {s[1] : s \in {t \in support : t[2] = Max(values)}}
<1>1. DOMAIN cs \subseteq Int /\ DOMAIN cs # {} /\ IsFiniteSet(DOMAIN cs)
  <2>1. Len(cs) \in Nat /\ Len(cs) > 0 /\ IsFiniteSet(DOMAIN cs)
    BY ListFinite
  <2>2. DOMAIN cs = 1..Len(cs)
    BY DEF Scorables
  <2> QED
    BY <2>1, <2>2
<1>2. ASSUME NEW k \in DOMAIN cs PROVE Support(cs, cs[k].text) \in Int
  <2> DEFINE J == {j \in DOMAIN cs : cs[j].text = cs[k].text}
             conf == [j \in J |-> cs[j].conf]
             confs == {cs[j].conf : j \in J}
  <2>1. IsFiniteSet(J) /\ Cardinality(J) \in Nat
    <3>1. J \subseteq DOMAIN cs
      OBVIOUS
    <3> HIDE DEF J
    <3> QED
      BY <1>1, <3>1, FS_Subset, FS_CardinalityType
  <2>2. DOMAIN conf = J /\ Range(conf) = confs
    BY DEF Range
  <2>3. confs \subseteq Int /\ confs # {}
    <3>1. \A j \in J : cs[j].conf \in Int
      BY DEF Scorables, Countable
    <3>2. k \in J
      OBVIOUS
    <3> HIDE DEF J
    <3> QED
      BY <3>1, <3>2
  <2>4. Support(cs, cs[k].text) = 101 * Cardinality(J) + Max(confs)
    BY DEF Support, Votes, BestConf
  <2> HIDE DEF J, conf, confs
  <2>5. IsFiniteSet(confs)
    BY <2>1, <2>2, FiniteRange
  <2>6. Max(confs) \in Int
    BY <2>3, <2>5, MaxIn
  <2> QED
    BY <2>1, <2>4, <2>6
<1> DEFINE worth == [k \in DOMAIN cs |-> Support(cs, cs[k].text)]
<1>3. DOMAIN worth = DOMAIN cs /\ \A k \in DOMAIN cs : worth[k] \in Int
  BY <1>2
<1>4. /\ \A s \in support : s[1] \in DOMAIN cs /\ s[2] = worth[s[1]]
      /\ \A k \in DOMAIN cs : <<k, worth[k]>> \in support
  OBVIOUS
<1>5. Winner(cs) = cs[Min(leaders)].text
  BY DEF Winner
<1> HIDE DEF worth, support
<1>6. values = {worth[k] : k \in DOMAIN cs}
  <2>1. \A v \in values : \E k \in DOMAIN cs : v = worth[k]
    BY <1>4
  <2>2. ASSUME NEW k \in DOMAIN cs PROVE worth[k] \in values
    <3>1. PICK s : s = <<k, worth[k]>>
      OBVIOUS
    <3>2. s \in support /\ s[2] = worth[k]
      BY <1>4, <3>1
    <3> QED
      BY <3>2
  <2> HIDE DEF values
  <2> QED
    BY <2>1, <2>2
<1>7. ASSUME NEW k \in DOMAIN cs, worth[k] = Max(values) PROVE k \in leaders
  <2>1. PICK s : s = <<k, worth[k]>>
    OBVIOUS
  <2>2. s \in support /\ s[1] = k /\ s[2] = Max(values)
    BY <1>4, <1>7, <2>1
  <2> HIDE DEF values
  <2> QED
    BY <2>2
<1>8. \A k \in leaders : k \in DOMAIN cs
  <2> HIDE DEF values
  <2> QED
    BY <1>4
<1> HIDE DEF values, leaders
<1>9. IsFiniteSet(values)
  <2>1. values = Range(worth)
    BY <1>3, <1>6 DEF Range
  <2> QED
    BY <1>1, <1>3, <2>1, FiniteRange
<1>10. values \subseteq Int /\ values # {}
  BY <1>1, <1>3, <1>6
<1>11. Max(values) \in values
  BY <1>9, <1>10, MaxIn
<1>12. leaders # {}
  BY <1>6, <1>7, <1>11
<1>13. Min(leaders) \in leaders
  <2>1. leaders \subseteq Int /\ IsFiniteSet(leaders)
    BY <1>1, <1>8, FS_Subset
  <2> QED
    BY <1>12, <2>1, MinIn
<1> QED
  BY <1>5, <1>8, <1>13

\* A run counts on three things of a decision, whatever the providers say and
\* the users rated: its score lies between nothing and one, a decision without
\* a text scores nothing, and one below the bar of an accepted run, .75, asks
\* for a review.  AgentRun leaves the rest open.
THEOREM DecisionsCovered ==
    ASSUME NEW cfg, NEW task \in Tasks, NEW rs, RatingList(rs)
    PROVE  LET d == Decide(Counted(cfg, task), Signals(rs, cfg, task))
           IN  /\ d.score \in 0..(100 * One)
               /\ d.text = NoText => d.score = 0
               /\ d.score < 100 * Percent(75) => d.review
<1>1. PICK t, s : t = Counted(cfg, task) /\ s = Signals(rs, cfg, task)
  OBVIOUS
<1>2. PICK texts : Scorable(t, texts)
  BY <1>1, CountedScorable
<1>3. PICK d, cs : d = Decide(t, s) /\ cs = Collected(t)
  OBVIOUS
<1>4. d.score \in Int
  <2>1. Scored(rs, cfg, task) \in Int
    BY ScoredType
  <2> QED
    BY <1>1, <1>3, <2>1 DEF Scored
<1>5. CASE cs = <<>>
  <2>1. d = NoDecision
    BY <1>3, <1>5 DEF Decide
  <2>2. d.score = 0 /\ d.review
    BY <2>1 DEF NoDecision
  <2>3. 0 \in 0..(100 * One)
    <3>1. One \in Nat
      BY SMT DEF One
    <3> QED
      BY <3>1, SMT
  <2>4. d.score \in 0..(100 * One)
    BY <2>2, <2>3, Zenon
  <2>5. d = Decide(Counted(cfg, task), Signals(rs, cfg, task))
    BY <1>1, <1>3, Zenon
  <2> QED
    BY <2>2, <2>4, <2>5, Zenon
<1>6. CASE cs # <<>>
  <2>1. d = Arbitrated(t, cs, s)
    BY <1>3, <1>6 DEF Decide
  <2>2. d.text = Winner(cs) /\ d.score = FinalScore(t, cs, s)
    BY <2>1 DEF Arbitrated
  <2>3. d.score < HighScore => d.review
    BY <2>1 DEF Arbitrated
  <2>4. Scorables(cs, texts)
    BY <1>2, <1>3, <1>6, CollectedType DEF Scorables, Scorable
  <2>5. d.text # NoText
    BY <1>2, <1>3, <2>2, <2>4, WinnerIsOne, CollectedSpeaks
  <2>6. PICK raw : d.score = Greatest(0, Least(raw, 100 * One))
    BY <2>2 DEF FinalScore
  <2>7. d.score \in 0..(100 * One)
    <3>1. One \in Nat
      BY SMT DEF One
    <3> QED
      BY <1>4, <2>6, <3>1, SMT DEF Greatest, Least
  <2>8. d.score < 100 * Percent(75) => d.score < HighScore
    BY <1>4, SMT DEF HighScore, Percent, One
  <2> QED
    BY <1>1, <1>3, <2>3, <2>5, <2>7, <2>8
<1> QED
  BY <1>5, <1>6

=============================================================================
