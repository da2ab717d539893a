----------------------------- MODULE MCAgentRun -----------------------------
(***************************************************************************)
(* Provider lists, evaluators and limits for TLC.  Costs are 0 or 1, so    *)
(* that the limits 0, 1 and 4 cut a run before, inside and after its first *)
(* round, and the limit -1 before anything.                                *)
(***************************************************************************)
EXTENDS AgentRun

Local(c) == [requires_api |-> FALSE, kind |-> "local", cost |-> c]
Remote(c) == [requires_api |-> TRUE, kind |-> "cloud", cost |-> c]
KeylessCloud == [requires_api |-> FALSE, kind |-> "cloud", cost |-> 0]
Mock == [requires_api |-> FALSE, kind |-> "mock", cost |-> 0]

\* No provider; local only; remote only; both, either side first; a cloud
\* provider that needs no key; a mock; more cloud providers than MaxCloud,
\* on either side of a local one.
MCLists ==
    {<<>>, <<Local(0)>>, <<Remote(1)>>, <<Local(0), Remote(1)>>,
     <<Remote(1), Local(0), Local(1)>>, <<KeylessCloud, Remote(1)>>,
     <<Mock, Remote(0)>>, <<Remote(0), Remote(1), Local(0), Remote(0)>>}

MCEvaluators == {[remote |-> FALSE, cost |-> 0], [remote |-> TRUE, cost |-> 1]}
MCLimits == {-1, 0, 1, 4}

=============================================================================
