------------------------------- MODULE MCDesk -------------------------------
(***************************************************************************)
(* Two Qt windows and a Tk window on one data directory.  A page says a    *)
(* topic or leaves it blank; one task has two providers that agree, the    *)
(* other a cloud provider that does not, a term one of them misses and a   *)
(* projected glossary.  One term is special, another was corrected twice.  *)
(***************************************************************************)
EXTENDS Desk, TLC

CONSTANTS q1, q2, t1, blank, torn

MCWindows == {q1, q2, t1}
MCTk == {t1}
MCDefault == [mode |-> "learning", topic |-> "general", pair |-> "zh-ja"]
Candidate(id, text, conf, kind) ==
    [id |-> id, text |-> text, conf |-> conf, kind |-> kind, hits |-> 0,
     mock |-> FALSE]

Agreed == [source |-> <<"s">>, glossary |-> NoText, memory |-> NoText,
           glossaryHits |-> 0, terms |-> {}, entities |-> FALSE,
           topicMatch |-> 100, coverage |-> 100, spent |-> 0, limit |-> 0,
           rounds |-> 1, markers |-> 0, tags |-> 1, corrections |-> 0,
           tokens |-> 400,
           candidates |-> <<Candidate("local", <<"p">>, 90, "local"),
                            Candidate("cloud", <<"p">>, 90, "cloud")>>]
Disputed == [Agreed EXCEPT
    !.source = <<"s", "t">>, !.glossary = <<"g", "t">>, !.glossaryHits = 1,
    !.terms = {[at |-> {1}, with |-> {"g"}]}, !.spent = 1, !.limit = 2,
    !.candidates = <<Candidate("local", <<"p">>, 60, "local"),
                     Candidate("other", <<"r", "u">>, 80, "cloud")>>]
MCSpecials == {[row |-> 1, topic |-> "general", source |-> "t"]}
MCCorrections == {[row |-> 1, topic |-> "novel", source |-> "s"],
                  [row |-> 2, topic |-> "novel", source |-> "s"]}
MCJob == [agreed |-> Agreed, disputed |-> Disputed]
MCForms ==
    {[task |-> "agreed", in |-> [mode |-> "self_decision", topic |-> "novel", pair |-> "zh-ja"]],
     [task |-> "disputed", in |-> [mode |-> "local", topic |-> blank, pair |-> "zh-ja"]]}
MCProviderForms == {[id |-> "a", key |-> TRUE, on |-> TRUE],
                    [id |-> "b", key |-> TRUE, on |-> FALSE],
                    [id |-> "b", key |-> FALSE, on |-> TRUE]}
MCOverlap(t, u) == IF t = u THEN 100 ELSE 40
MCIssues(stars) == IF stars <= LowRating THEN Kinds ELSE {"style"}
MCPaths == {"f1", "f2", "f3"}

DeskSymmetry == Permutations({q1, q2})

=============================================================================
