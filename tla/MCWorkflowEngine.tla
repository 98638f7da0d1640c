-------------------------- MODULE MCWorkflowEngine --------------------------
(***************************************************************************)
(* Instances of the workflow engine for TLC: the workflow definitions that *)
(* clients post, over three step identifiers.                              *)
(***************************************************************************)
EXTENDS DagRefinement, TLC

CONSTANTS a, b, c

MCStepIds == {a, b, c}

S(id, deps, gated) == [step_id |-> id, depends_on |-> deps, requires_approval |-> gated]

\* Independent a and b, then a gate, as in a batch that fails half-way.
JoinAtGate == <<S(a, {}, FALSE), S(b, {}, FALSE), S(c, {a, b}, TRUE)>>

\* A gate first in its batch: it pauses the walk before b is posted.
GateFirst == <<S(a, {}, TRUE), S(b, {}, FALSE), S(c, {a, b}, FALSE)>>

\* Two gates in one batch, and a step behind one of them.
TwoGates == <<S(a, {}, TRUE), S(b, {}, TRUE), S(c, {a}, FALSE)>>

\* A chain listed in reverse.
Chain == <<S(c, {b}, FALSE), S(b, {a}, FALSE), S(a, {}, FALSE)>>

\* A cycle between b and c; c also depends on itself.
Cycle == <<S(a, {}, FALSE), S(b, {c}, FALSE), S(c, {b, c}, FALSE)>>

\* A step identifier that is used twice.
Duplicate == <<S(a, {}, FALSE), S(a, {}, FALSE), S(b, {a}, TRUE)>>

AllDefinitions == {JoinAtGate, GateFirst, TwoGates, Chain, Cycle, Duplicate, <<>>}
GatedDefinitions == {JoinAtGate, GateFirst, TwoGates}

\* For the runs with liveness, where two workflows have one each.
FewDefinitions == {JoinAtGate, TwoGates, Cycle, Duplicate, <<>>}

RequestSymmetry == Permutations(Requests)
=============================================================================
