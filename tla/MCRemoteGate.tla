---------------------------- MODULE MCRemoteGate ----------------------------
(***************************************************************************)
(* Small gates for TLC: rosters of a local and two remote providers, one   *)
(* with a cloud provider that needs no API and so makes the limit of two   *)
(* bite, a remote and a local evaluator, limits that the list of one task  *)
(* or of two tasks exceeds, and files that are empty or hold either of two *)
(* texts.                                                                  *)
(***************************************************************************)
EXTENDS RemoteGate

Local == [id |-> "local", remote |-> FALSE, cloud |-> FALSE, cost |-> 0]
KeylessCloud == [id |-> "keyless", remote |-> FALSE, cloud |-> TRUE, cost |-> 0]
CloudA == [id |-> "a", remote |-> TRUE, cloud |-> TRUE, cost |-> 1]
CloudB == [id |-> "b", remote |-> TRUE, cloud |-> TRUE, cost |-> 1]

Cfg(mode, api, limit, require, upload, roster, judged) ==
    [mode |-> mode, api |-> api, limit |-> limit, require |-> require,
     upload |-> upload, roster |-> roster,
     judge |-> [remote |-> judged, cost |-> IF judged THEN 1 ELSE 0]]

\* Each differs from another in one thing a fingerprint must tell apart.
MCConfigs ==
    {Cfg("learning", TRUE, 3, TRUE, FALSE, {Local, CloudA, CloudB}, FALSE),
     Cfg("learning", TRUE, 3, TRUE, TRUE, {Local, CloudA, CloudB}, FALSE),
     Cfg("learning", TRUE, 3, TRUE, TRUE, {Local, CloudA}, FALSE),
     Cfg("learning", TRUE, 1, TRUE, TRUE, {Local, CloudA}, FALSE),
     Cfg("learning", FALSE, 3, TRUE, TRUE, {Local, CloudA}, FALSE),
     Cfg("self_iterative", TRUE, 6, TRUE, TRUE, {CloudA}, TRUE),
     Cfg("pretraining", TRUE, 6, TRUE, TRUE, {KeylessCloud, CloudA, CloudB}, TRUE),
     Cfg("self_decision", TRUE, 6, TRUE, FALSE, {CloudA}, TRUE),
     Cfg("learning", TRUE, 3, FALSE, TRUE, {Local, CloudA}, FALSE)}

MCFileSets == {[training |-> 0, validation |-> 0],
               [training |-> 1, validation |-> 1],
               [training |-> 2, validation |-> 1]}

SelfDecisionConfigs == {c \in MCConfigs : c.mode = "self_decision"}

=============================================================================
