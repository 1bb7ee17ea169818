----------------------------- MODULE MCJobData -----------------------------
(* All workflows of a few steps, and two kinds of documents, for TLC.      *)
EXTENDS JobData, TLC

\* The ids of the outputs, in any order, and of the input.
Names(outputs, input) ==
    {[x \in Step \cup {WorkflowInput} |-> IF x = WorkflowInput THEN input ELSE n[x]] :
        n \in {m \in [Step -> outputs] : \A s, t \in Step : m[s] = m[t] => s = t}}

\* a/b_c, a_b/c and the input a_b_c become one key; d/x/c is like none of them.
Alike == Names({<<<<"a">>, <<"b", "c">>>>, <<<<"a", "b">>, <<"c">>>>,
                <<<<"d">>, <<"x">>, <<"c">>>>},
               <<<<"a", "b", "c">>>>)

\* tmp/folder becomes the key of the folder; d/c, e/c and the input c differ.
Reserved == Names({<<<<"tmp">>, <<"folder">>>>, <<<<"d">>, <<"c">>>>, <<<<"e">>, <<"c">>>>},
                  <<<<"c">>>>)

Documents == Alike \cup Reserved

\* The steps of a workflow are interchangeable, and Documents has all orders.
StepSymmetry == Permutations(Step)

=============================================================================
