---------------------------- MODULE MCAgentLoop ----------------------------
(***************************************************************************)
(* One run, for every role, every set of words in the utterance, and the   *)
(* budgets around the lengths of the plans; with and without LangGraph.    *)
(***************************************************************************)
EXTENDS AgentLoop

\* Below, at and above the plans of three, four and five steps, and the
\* default of twenty.
MCBudgets == {0, 1, 2, 3, 4, 5, 6, 20}
===========================================================================
