----------------------------- MODULE RiskPolicy -----------------------------
(***************************************************************************)
(* agent_meta_policy.py: whether the risk of a text and the ratings of     *)
(* earlier runs leave a self_decision run to itself.  Averages and ratios  *)
(* are in parts of One, as in Feedback; a risk of 1.0 is 100 * One.        *)
(***************************************************************************)
EXTENDS Feedback

Policy == INSTANCE MetaPolicy

\* MetaPolicyContext: what the text shows (counts, and its tokens) and what
\* the summary of the ratings says.
Context(task, summary) ==
    [tags |-> task.tags, markers |-> task.markers, riskTerms |-> task.markers,
     corrections |-> task.corrections, tokens |-> task.tokens,
     ratings |-> summary]

\* Fewer than three ratings say nothing.
FaultyEnough(summary) == summary.samples = 3
Enough(summary) == summary.samples >= 3

LowAverage(average) == average > 0 /\ average <= One \div 2

\* count / full, at most 1.
Share(count, full) == Least((One * count) \div full, One)

HistoryRisk(summary) ==
    IF ~Enough(summary) THEN 0
    ELSE (IF LowAverage(summary.average.topic) THEN 24 * One ELSE 0)
         + (IF LowAverage(summary.average.provider) THEN 20 * One ELSE 0)
         + 18 * Share(summary.low, 4) + 20 * summary.mismatch
         + 8 * summary.issues.terminology + 6 * summary.issues.style
         + 6 * summary.issues.lore

TokenRisk(tokens) ==
    CASE tokens >= 1200 -> 12 * One
      [] tokens >= 400 /\ tokens < 1200 -> 6 * One
      [] OTHER -> 0

RiskScore(context) ==
    Least(22 * Share(context.tags, 3) + 28 * Share(context.markers, 2)
          + 20 * Share(context.corrections, 3) + 18 * Share(context.riskTerms, 2)
          + TokenRisk(context.tokens) + HistoryRisk(context.ratings), 100 * One)

HighRisk(context) == RiskScore(context) >= 50 * One

\* _rating_history_requires_review
RatingReview(summary) ==
    /\ Enough(summary)
    /\ \/ LowAverage(summary.average.topic)
       \/ LowAverage(summary.average.provider)
       \/ summary.low >= 3
       \/ summary.mismatch >= Percent(60)

\* The mode of a run that has its texts, its providers and a budget.
SelectedMode(context) ==
    Policy!SelectMode(TRUE, TRUE, TRUE, 1, FALSE,
                      RatingReview(context.ratings), HighRisk(context))

=============================================================================
