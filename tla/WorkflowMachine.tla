-------------------------- MODULE WorkflowMachine --------------------------
(***************************************************************************)
(* The transition table of agent_workflow_state.py: the twelve states of a *)
(* translation run, the fifteen events and the states they lead to.  The   *)
(* table is data, so the module has no variables: a run keeps its own      *)
(* state and asks Accepts and After.                                       *)
(***************************************************************************)

WorkflowState ==
    {"idle", "inputReady", "localTranslating", "localReviewing",
     "cloudTranslating", "crossfireRunning", "consensusScoring",
     "arbitration", "waitingHumanConfirmation", "glossarySuggestion",
     "completed", "failed"}

WorkflowEvent ==
    {"START_TRANSLATION", "LOCAL_TRANSLATION_DONE", "CLOUD_TRANSLATION_DONE",
     "CROSSFIRE_DONE", "CONSENSUS_DONE", "ARBITRATION_DONE", "USER_CONFIRMED",
     "USER_EDITED", "USER_REJECTED", "GLOSSARY_CONFIRMED", "GLOSSARY_SKIPPED",
     "RATING_SUBMITTED", "ERROR_OCCURRED", "RETRY", "RESET"}

\* The translation path proper.
TranslationArcs ==
    {<<"idle", "START_TRANSLATION", "inputReady">>,
     <<"inputReady", "LOCAL_TRANSLATION_DONE", "localTranslating">>,
     <<"localTranslating", "LOCAL_TRANSLATION_DONE", "localReviewing">>,
     <<"consensusScoring", "LOCAL_TRANSLATION_DONE", "localTranslating">>,
     <<"inputReady", "CLOUD_TRANSLATION_DONE", "cloudTranslating">>,
     <<"localTranslating", "CLOUD_TRANSLATION_DONE", "cloudTranslating">>,
     <<"localReviewing", "CLOUD_TRANSLATION_DONE", "cloudTranslating">>,
     <<"consensusScoring", "CLOUD_TRANSLATION_DONE", "cloudTranslating">>,
     <<"cloudTranslating", "CROSSFIRE_DONE", "crossfireRunning">>,
     <<"localTranslating", "CONSENSUS_DONE", "consensusScoring">>,
     <<"localReviewing", "CONSENSUS_DONE", "consensusScoring">>,
     <<"crossfireRunning", "CONSENSUS_DONE", "consensusScoring">>}

\* What the user's decision does to a scored run, and the way back.
DecisionArcs ==
    {<<"consensusScoring", "ARBITRATION_DONE", "waitingHumanConfirmation">>,
     <<"consensusScoring", "USER_CONFIRMED", "completed">>,
     <<"consensusScoring", "GLOSSARY_CONFIRMED", "glossarySuggestion">>,
     <<"waitingHumanConfirmation", "USER_EDITED", "glossarySuggestion">>,
     <<"waitingHumanConfirmation", "USER_CONFIRMED", "completed">>,
     <<"waitingHumanConfirmation", "USER_REJECTED", "failed">>,
     <<"glossarySuggestion", "GLOSSARY_CONFIRMED", "completed">>,
     <<"glossarySuggestion", "GLOSSARY_SKIPPED", "completed">>,
     <<"failed", "RETRY", "inputReady">>,
     <<"failed", "RESET", "idle">>,
     <<"completed", "RESET", "idle">>}

Rateable ==
    {"localReviewing", "cloudTranslating", "crossfireRunning",
     "consensusScoring", "waitingHumanConfirmation", "glossarySuggestion",
     "completed"}

Fallible == WorkflowState \ {"idle", "completed", "failed"}

Transitions ==
    TranslationArcs \cup DecisionArcs
        \cup {<<s, "RATING_SUBMITTED", s>> : s \in Rateable}
        \cup {<<s, "ERROR_OCCURRED", "failed">> : s \in Fallible}
        \cup {<<s, "RESET", "idle">> : s \in Fallible}

\* WorkflowStateMachine.apply raises ValueError unless Accepts(s, e).
Accepts(s, e) == \E t \in WorkflowState : <<s, e, t>> \in Transitions

After(s, e) == CHOOSE t \in WorkflowState : <<s, e, t>> \in Transitions

=============================================================================
