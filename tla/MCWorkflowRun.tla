---------------------------- MODULE MCWorkflowRun ----------------------------
(* Small workflows for TLC.                                                 *)
EXTENDS WorkflowRun

CONSTANTS a, b

\* Every workflow of the given steps whose outputs come from steps.
AllWorkflows == {w \in Workflow : Acyclic(w) /\ w.outs \subseteq Step}

\* A chain, and two steps side by side that the gatherer joins.
Of(x, y, outs) == [ins |-> [s \in {a, b} |-> IF s = a THEN x ELSE y], outs |-> outs]

Shapes ==
    {Of({WorkflowInput}, {a}, {b}),
     Of({WorkflowInput}, {WorkflowInput}, {a, b})}

==============================================================================
