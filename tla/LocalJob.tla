------------------------------ MODULE LocalJob ------------------------------
(***************************************************************************)
(* workflows.run_local_job with engines.py and merging.py: two engines     *)
(* translate a text, or fail; their answers are merged sentence by         *)
(* sentence into the provisional text, a weighted score picks a winner,    *)
(* and the consensus of the agent (module Consensus) audits both.          *)
(* A text is a sequence of sentences, blank ones left out.  The job's own  *)
(* scores are in parts of ten thousand.  The research engine, which no     *)
(* caller in the program selects, is left out.                             *)
(***************************************************************************)
EXTENDS Consensus

CONSTANTS
    Model(_, _),    \* what the model of a route makes of a text, not blank
    Tags(_)         \* how many domains a text's keywords are of

(***************************************************************************)
(* The engines.  A model that is not installed, or that finds nothing to   *)
(* say, raises; so each engine has a set of possible answers.              *)
(***************************************************************************)
Said(text) == [ok |-> TRUE, text |-> text]
Raised == [ok |-> FALSE, text |-> NoText]

\* OPUS_DIRECT_MODELS
Direct == {<<"zh", "en">>, <<"en", "zh">>, <<"ja", "en">>, <<"en", "ja">>,
           <<"zh", "ja">>}

Ran(route, text) ==
    IF route \in Direct THEN {Said(Model(route, text)), Raised} ELSE {Raised}

\* By way of English: both models have to answer.
Pivoted(from, to, text) ==
    UNION {IF half.ok THEN Ran(<<"en", to>>, half.text) ELSE {Raised} :
              half \in Ran(<<from, "en">>, text)}

\* LocalEngineA tries the direct model, and English where that fails;
\* LocalEngineB goes by way of English.  English itself is never a detour.
AnswersA(from, to, text) ==
    CASE from = to -> {Said(text)}
      [] from # to /\ "en" \in {from, to} -> Ran(<<from, to>>, text)
      [] OTHER -> (Ran(<<from, to>>, text) \ {Raised}) \cup Pivoted(from, to, text)
AnswersB(from, to, text) ==
    CASE from = to -> {Said(text)}
      [] from # to /\ "en" \in {from, to} -> Ran(<<from, to>>, text)
      [] OTHER -> Pivoted(from, to, text)

ConfidenceA == 66
ConfidenceB == 62

(***************************************************************************)
(* The job on the answers a and b of the two engines.                      *)
(***************************************************************************)
BothFailed(a, b) == ~a.ok /\ ~b.ok

\* candidate_deduplicated
Duplicate(a, b) == a.ok /\ b.ok /\ a.text # NoText /\ a.text = b.text

\* merge_sentences: where both have a sentence the more confident one's.
Merge(t, u) ==
    [i \in 1..Greatest(Len(t), Len(u)) |->
        IF i > Len(u) \/ (i <= Len(t) /\ ConfidenceA >= ConfidenceB) THEN t[i] ELSE u[i]]

\* score_candidate of an engine with its sentence and segment score.
EngineScore(confidence, quality) == 40 * confidence + 35 * quality + 20 * quality + 5 * 50
ScoreA == EngineScore(ConfidenceA, 45)
ScoreB == EngineScore(ConfidenceB, 40)

\* choose_candidate
Preferred == IF ScoreA >= ScoreB THEN "left" ELSE "right"

WinnerSide(a, b) ==
    CASE Duplicate(a, b) \/ (a.ok /\ ~b.ok) -> "left"
      [] a.ok /\ b.ok /\ ~Duplicate(a, b) -> Preferred
      [] OTHER -> "right"

WinnerText(a, b) == IF WinnerSide(a, b) = "left" THEN a.text ELSE b.text

\* Only two answers that differ are merged; the winner's stands in for a
\* merger that came to nothing.
FinalText(a, b) ==
    IF a.ok /\ b.ok /\ ~Duplicate(a, b) /\ Merge(a.text, b.text) # NoText
    THEN Merge(a.text, b.text)
    ELSE WinnerText(a, b)

\* Keywords of the source raise the winner's score by up to three points.
WinnerScore(text, a, b) ==
    Least((IF WinnerSide(a, b) = "left" THEN ScoreA ELSE ScoreB)
             + Least(100 * Tags(text), 300), 10000)
NeedsReview(text, a, b) == WinnerScore(text, a, b) < 5500

\* The legacy audit hands over what the engines said and nothing else: no
\* glossary, no memory, no ratings.
NoRatings ==
    [average |-> [topic |-> 0, pair |-> 0, provider |-> 0, mode |-> 0],
     signal |-> 0, mismatch |-> 0, penalty |-> 0, boost |-> 0]

Heard(id, answer, confidence) ==
    IF answer.ok
    THEN <<[id |-> id, text |-> answer.text, conf |-> confidence,
            kind |-> "local", hits |-> 0, mock |-> FALSE]>>
    ELSE <<>>

\* _legacy_consensus_audit: the texts' votes, the conflicts and whether a
\* person should look; the text it would choose itself is not handed back.
Audit(text, a, b) ==
    LET task == [source |-> text, glossary |-> NoText, memory |-> NoText,
                 glossaryHits |-> 0, terms |-> {}, entities |-> FALSE,
                 topicMatch |-> Least((100 * Tags(text)) \div 3, 100), coverage |-> 0,
                 spent |-> 0, limit |-> 100, rounds |-> 1, markers |-> 0,
                 candidates |-> Heard("legacy-engine-a", a, ConfidenceA)
                                \o Heard("legacy-engine-b", b, ConfidenceB)]
        heard == Collected(task)
        decision == Decide(task, NoRatings)
    IN  IF heard = <<>>
        THEN [status |-> "no-candidates", votes |-> <<>>, review |-> TRUE, conflicts |-> {}]
        ELSE [status |-> "agent-consensus-audit",
              votes |-> [t \in {heard[k].text : k \in DOMAIN heard} |-> Votes(heard, t)],
              review |-> decision.review, conflicts |-> decision.conflicts]

\* What run_local_job returns when an engine answered.
LocalResult(text, a, b) ==
    [text |-> FinalText(a, b), winner |-> WinnerSide(a, b),
     review |-> NeedsReview(text, a, b), audit |-> Audit(text, a, b)]

=============================================================================
