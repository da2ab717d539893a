------------------------------ MODULE Feedback ------------------------------
(***************************************************************************)
(* agent_feedback.py: what the stored ratings say of a translation that is *)
(* about to be scored.  Ratings are stars from 1 to 5; every average is    *)
(* kept as a share of five stars, in parts of One, so that it is exact for *)
(* up to six ratings.                                                      *)
(***************************************************************************)
EXTENDS Integers, Sequences, FiniteSets, Functions

One == 180000
Percent(p) == p * (One \div 100)

LowRating == 2
HighRating == 4
Stars == 1..5

Least(a, b) == IF a <= b THEN a ELSE b
Greatest(a, b) == IF a <= b THEN b ELSE a
Clamp(v) == Greatest(0, Least(v, One))

\* The average of the ratings at the indexes I, as a share of five stars.
Average(rs, I) ==
    IF I = {} THEN 0
    ELSE (SumFunction([i \in I |-> rs[i].stars]) * One) \div (5 * Cardinality(I))

\* The share of the indexes I at which P holds, times a percentage.
Ratio(J, I, percent) ==
    IF I = {} THEN 0 ELSE (Percent(percent) * Cardinality(J)) \div Cardinality(I)

\* The ratings that count for a topic, a language pair, a mode and providers.
ByTopic(rs, cfg) == {i \in DOMAIN rs : rs[i].cfg.topic = cfg.topic}
ByPair(rs, cfg) == {i \in DOMAIN rs : rs[i].cfg.pair = cfg.pair}
ByMode(rs, cfg) == {i \in DOMAIN rs : rs[i].cfg.mode = cfg.mode}
ByProvider(rs, ids) ==
    {i \in DOMAIN rs : ids = {} \/ rs[i].providers \cap ids # {}}

Exact(rs, cfg, ids) ==
    ByTopic(rs, cfg) \cap ByPair(rs, cfg) \cap ByMode(rs, cfg)
        \cap ByProvider(rs, ids)

\* Those that match in everything, or else in topic, in language or in
\* provider, whichever comes first.
Relevant(rs, cfg, ids) ==
    LET exact == Exact(rs, cfg, ids)
    IN  CASE exact # {} -> exact
          [] exact = {} /\ ByTopic(rs, cfg) # {} -> ByTopic(rs, cfg)
          [] exact = {} /\ ByTopic(rs, cfg) = {} /\ ByPair(rs, cfg) # {} ->
                ByPair(rs, cfg)
          [] OTHER -> ByProvider(rs, ids)

\* RatingSignalSummary.user_rating_signal: the mean of the averages there are.
UserSignal(averages) ==
    LET known == Cardinality({k \in DOMAIN averages : averages[k] > 0})
        sum == averages.topic + averages.pair + averages.provider + averages.mode
    IN  IF known = 0 THEN 0 ELSE sum \div known

\* The kinds of issue a user may tick that the summary counts.
Kinds == {"terminology", "style", "lore"}

\* rating_summary_from_records: rs are ratings [cfg, providers, stars,
\* issues, score].
Summary(rs, cfg, ids) ==
    LET relevant == Relevant(rs, cfg, ids)
        low == {i \in relevant : rs[i].stars <= LowRating}
        high == {i \in relevant : rs[i].stars >= HighRating}
        \* a run the score thought good and its user did not
        mismatch == {i \in low : rs[i].score >= 100 * Percent(75)}
        topic == Average(rs, ByTopic(rs, cfg))
        average == [topic |-> topic,
                    pair |-> Average(rs, ByPair(rs, cfg)),
                    provider |-> Average(rs, ByProvider(rs, ids)),
                    mode |-> Average(rs, ByMode(rs, cfg))]
        floor == Greatest(0, Percent(56) - (IF topic = 0 THEN One ELSE topic))
        naming(kind) == {i \in relevant : kind \in rs[i].issues}
    IN  [samples  |-> Cardinality(relevant),
         low      |-> Cardinality(low),
         issues   |-> [k \in Kinds |-> Ratio(naming(k), relevant, 100)],
         average  |-> average,
         signal   |-> IF relevant = {} THEN 0 ELSE UserSignal(average),
         mismatch |-> Ratio(mismatch, relevant, 100),
         penalty  |-> Least(Ratio(low, relevant, 22) + floor, Percent(45)),
         boost    |-> Least(Ratio(high, relevant, 8), Percent(12))]

=============================================================================
