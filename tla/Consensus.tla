----------------------------- MODULE Consensus -----------------------------
(***************************************************************************)
(* agent_consensus.py and mdwc.py: the candidates of one translation are   *)
(* collected, aligned segment by segment and scored into a decision.       *)
(* A text is a sequence of segments.  A candidate carries its id, text,    *)
(* conf (percent), kind ("local", "cloud" or "memory"), hits (term hits)   *)
(* and mock.  Scores are exact: a score is a sum of values in parts of One *)
(* weighted with percents, so that 100 * One is a score of 1.0.            *)
(*                                                                         *)
(* A task is what the run hands over: source (a text), candidates,         *)
(* glossary and memory (the texts the confirmed terms and the translation  *)
(* memory make of the source, NoText when there is none), glossaryHits,    *)
(* terms (per confirmed term: the segments of the source it is in, the     *)
(* segments that contain its target), entities, topicMatch and coverage    *)
(* (percents), spent and limit (cents), rounds and markers.                *)
(***************************************************************************)
EXTENDS Feedback, SequencesExt

\* SequenceMatcher(a, b).ratio() of two texts, in percent.
CONSTANT Overlap(_, _)

NoText == <<>>

\* _text_overlap
TextOverlap(t, u) ==
    CASE t = NoText /\ u = NoText -> 100
      [] (t = NoText) # (u = NoText) -> 0
      [] OTHER -> Overlap(t, u)

Pairs(cs) == {p \in (DOMAIN cs) \X (DOMAIN cs) : p[1] < p[2]}

\* The mean of the percents f[x], in parts of One.
MeanPercent(f) ==
    IF DOMAIN f = {} THEN 0
    ELSE Percent(SumFunction(f)) \div Cardinality(DOMAIN f)

\* The items of s at the indexes I, in their order.
Kept(s, I) ==
    [n \in 1..Cardinality(I) |->
        s[CHOOSE i \in I : Cardinality({j \in I : j <= i}) = n]]

(***************************************************************************)
(* Collecting: the providers' texts, then the projected glossary, then an  *)
(* exact hit of the translation memory.                                    *)
(***************************************************************************)
Remembered(id, text, conf, hits) ==
    [id |-> id, text |-> text, conf |-> conf, kind |-> "memory",
     hits |-> hits, mock |-> FALSE]

Collected(task) ==
    Kept(task.candidates,
         {k \in DOMAIN task.candidates : task.candidates[k].text # NoText})
    \o (IF task.glossary \in {NoText, task.source} THEN <<>>
        ELSE <<Remembered("glossary", task.glossary, 64, task.glossaryHits)>>)
    \o (IF task.memory = NoText THEN <<>>
        ELSE <<Remembered("translationMemory", task.memory, 78, 1)>>)

(***************************************************************************)
(* Aligning: what the segments at one position disagree about.             *)
(***************************************************************************)
SegmentAt(text, i) == IF i <= Len(text) THEN <<text[i]>> ELSE NoText

\* candidate_segments is keyed by provider: a later candidate of the same id
\* takes the place of an earlier one.
Aligned(cs) == {cs[k] : k \in {n \in DOMAIN cs :
                   \A m \in DOMAIN cs : m > n => cs[m].id # cs[n].id}}

AlignmentConflicts(task, cs) ==
    LET texts == {c.text : c \in Aligned(cs)} \cup {task.source}
        positions == 1..Max({Len(t) : t \in texts})
        at(i) == {SegmentAt(c.text, i) : c \in Aligned(cs)}
        said(i) == at(i) \ {NoText}
        omission == \E i \in positions : NoText \in at(i) /\ said(i) # {}
        missing == \E term \in task.terms, i \in 1..Len(task.source) :
            i \in term.at /\ \E s \in said(i) : s[1] \notin term.with
        style == \E i \in positions : \E s, t \in said(i) :
            s # t /\ Overlap(s, t) < 72
        addition == \E c \in Aligned(cs) : Len(c.text) > Len(task.source)
    IN  (IF omission THEN {"omission"} ELSE {})
        \cup (IF missing THEN {"terminology_conflict"} ELSE {})
        \cup (IF missing /\ task.entities THEN {"entity_difference"} ELSE {})
        \cup (IF style THEN {"style_difference"} ELSE {})
        \cup (IF addition THEN {"addition"} ELSE {})

(***************************************************************************)
(* Scoring: evaluate_mdwc_consensus.                                       *)
(***************************************************************************)
Votes(cs, text) == Cardinality({k \in DOMAIN cs : cs[k].text = text})
BestConf(cs, text) == Max({cs[k].conf : k \in {j \in DOMAIN cs : cs[j].text = text}})

\* A vote more outweighs any confidence.
Support(cs, text) == 101 * Votes(cs, text) + BestConf(cs, text)

\* The text with most votes, then most confidence, then the first.
Winner(cs) ==
    LET support == {<<k, Support(cs, cs[k].text)>> : k \in DOMAIN cs}
        most == Max({s[2] : s \in support})
    IN  cs[Min({s[1] : s \in {t \in support : t[2] = most}})].text

Confidence(cs, kind) ==
    MeanPercent([k \in {j \in DOMAIN cs : cs[j].kind = kind} |-> cs[k].conf])

AgreedOverlap(cs) ==
    IF Len(cs) < 2 THEN One
    ELSE MeanPercent([p \in Pairs(cs) |-> TextOverlap(cs[p[1]].text, cs[p[2]].text)])

TermHits(cs) ==
    SumFunction([k \in DOMAIN cs |-> (One * Least(cs[k].hits, 3)) \div 3]) \div Len(cs)

BudgetScore(task) ==
    IF task.limit <= 0 THEN IF task.spent <= 0 THEN One ELSE 0
    ELSE Clamp(One - (One * task.spent) \div task.limit)

\* A rating nobody gave counts as the middle.
Neutral(v) == IF v > 0 THEN Clamp(v) ELSE One \div 2

FaultyCorrection(summary) ==
    100 * Clamp(summary.penalty) - 100 * Clamp(summary.boost)
        - 10 * Clamp(summary.mismatch)
Correction(summary) ==
    100 * Clamp(summary.boost) - 100 * Clamp(summary.penalty)
        - 10 * Clamp(summary.mismatch)

RatingAdjustment(summary) ==
    LET half == One \div 2
    IN  7 * (Neutral(summary.average.provider) - half)
        + 5 * (Neutral(summary.average.topic) - half)
        + 3 * (Neutral(summary.average.mode) - half)
        + 4 * (Neutral(summary.signal) - half)
        + Correction(summary)

FinalScore(task, cs, summary) ==
    LET raw == 22 * Confidence(cs, "local") + 16 * Confidence(cs, "cloud")
               + 18 * AgreedOverlap(cs)
               + 16 * ((One * Votes(cs, Winner(cs))) \div Len(cs))
               + 10 * TermHits(cs)
               + 8 * Percent(task.topicMatch) + 4 * Percent(task.coverage)
               + 2 * BudgetScore(task)
               + RatingAdjustment(summary)
               - 100 * Least(Percent(8) * task.markers, Percent(32))
               - 100 * Percent(3) * Greatest(task.rounds - 1, 0)
    IN  Greatest(0, Least(raw, 100 * One))

HighScore == 100 * Percent(78)

ScoreConflicts(task, cs, summary, score) ==
    LET risk == \/ Clamp(summary.penalty) >= Percent(15)
                \/ Neutral(summary.average.provider) < Percent(35)
                \/ Neutral(summary.average.topic) < Percent(35)
                \/ Clamp(summary.mismatch) >= Percent(50)
    IN  (IF \E j, k \in DOMAIN cs : cs[j].text # cs[k].text
         THEN {"candidate_divergence"} ELSE {})
        \cup (IF AgreedOverlap(cs) < Percent(55) THEN {"low_provider_overlap"} ELSE {})
        \cup (IF \E k \in DOMAIN cs : cs[k].mock THEN {"mock_provider_present"} ELSE {})
        \cup (IF task.markers > 0 THEN {"special_marker_penalty"} ELSE {})
        \cup (IF task.rounds >= 3 /\ score < HighScore
              THEN {"iteration_limit_risk"} ELSE {})
        \cup (IF risk THEN {"historical_user_rating_risk"} ELSE {})

\* arbitrate_consensus_result: the winner's text and score, to be reviewed
\* unless nobody disagrees and the score is high.
Arbitrated(task, cs, summary) ==
    LET score == FinalScore(task, cs, summary)
        conflicts == ScoreConflicts(task, cs, summary, score)
                        \cup AlignmentConflicts(task, cs)
    IN  [text |-> Winner(cs), score |-> score, conflicts |-> conflicts,
         review |-> conflicts # {} \/ score < HighScore]

\* _empty_decision
NoDecision == [text |-> NoText, score |-> 0, conflicts |-> {}, review |-> TRUE]

\* _decide
Decide(task, summary) ==
    IF Collected(task) = <<>> THEN NoDecision
    ELSE Arbitrated(task, Collected(task), summary)

=============================================================================
