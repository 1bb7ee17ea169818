--------------------------- MODULE WorkflowGraph ---------------------------
(***************************************************************************)
(* CWL workflows and the Airflow DAGs that CWLDAG.__assemble makes of      *)
(* them (extensions/cwldag.py): a task per step, a dispatcher in front of  *)
(* the steps that read workflow inputs, a gatherer behind the steps that   *)
(* make the workflow outputs.  Operators only: DagAssembly runs the loops  *)
(* of __assemble, WorkflowRun runs the tasks of an assembled DAG.          *)
(***************************************************************************)
CONSTANTS
    Step,           \* the steps of a workflow
    Dispatcher,     \* the task CWLJobDispatcher
    Gatherer        \* the task CWLJobGatherer

\* Where a source is a workflow input, and where an entry has none.
WorkflowInput == "input"
NoSource == "no source"

ASSUME TasksAssumption ==
    /\ Step \cap {Dispatcher, Gatherer, WorkflowInput, NoSource} = {}
    /\ Dispatcher # Gatherer

-----------------------------------------------------------------------------
(* Workflows.  A source is a step, which stands for any of its outputs, or *)
(* a workflow input; an "in" entry may have no source at all (a default, a *)
(* valueFrom).  ins[s] = {} is a step whose "in" is empty or absent.       *)

Task == Step \cup {Dispatcher, Gatherer}

\* A workflow: the sources of every step, and those of the outputs.
Workflow == [ins : [Step -> SUBSET (Step \cup {WorkflowInput, NoSource})],
             outs : SUBSET (Step \cup {WorkflowInput})]

\* The steps whose outputs the step s reads.
Producers(w, s) == w.ins[s] \cap Step

\* No step waits for itself: every set of steps has one that needs none of
\* the others (cwltool and Airflow refuse the other workflows).
Acyclic(w) ==
    \A S \in SUBSET Step \ {{}} : \E s \in S : Producers(w, s) \cap S = {}

-----------------------------------------------------------------------------
(* The edges that each part of __assemble adds. *)

\* The task of a source: a registered step, else the dispatcher.
TaskOf(source, known) == IF source \in known THEN source ELSE Dispatcher

\* Mutant: a step whose "in" is empty is left alone.
StepEdgesFromSources(w, s, known) ==
    {<<TaskOf(source, known), s>> : source \in w.ins[s] \ {NoSource}}

\* The edges of one step: from its sources, or from the dispatcher if "in"
\* is empty.
StepEdges(w, s, known) ==
    {<<TaskOf(source, known), s>> : source \in w.ins[s] \ {NoSource}}
        \cup (IF w.ins[s] = {} THEN {<<Dispatcher, s>>} ELSE {})

\* Mutant: an outputSource that is a list is not looked into.
OutputEdgesOfScalar(w, known) ==
    {<<TaskOf(source, known), Gatherer>> : source \in {x \in w.outs : w.outs = {x}}}

OutputEdges(w, known) ==
    {<<TaskOf(source, known), Gatherer>> : source \in w.outs}

HasUpstream(e, t) == \E u \in Task : <<u, t>> \in e
HasDownstream(e, t) == \E d \in Task : <<t, d>> \in e

\* A gatherer that is connected to nothing is put behind all the leaves.
LeafEdges(e) ==
    IF HasUpstream(e, Gatherer) THEN {}
    ELSE {<<t, Gatherer>> : t \in {s \in Step : ~HasDownstream(e, s)}}

\* Mutant: the roots are looked for among all tasks.
RootEdgesOfTasks(e) ==
    IF HasDownstream(e, Dispatcher) THEN {}
    ELSE {<<Dispatcher, t>> : t \in {s \in Task : ~HasUpstream(e, s)}}

\* A dispatcher that is connected to nothing is put before all the roots.
RootEdges(e) ==
    IF HasDownstream(e, Dispatcher) THEN {}
    ELSE {<<Dispatcher, t>> : t \in {s \in Step : ~HasUpstream(e, s)}}

\* All of __assemble.
SourceEdges(w) ==
    (UNION {StepEdges(w, s, Step) : s \in Step}) \cup OutputEdges(w, Step)

GatheredEdges(w) == SourceEdges(w) \cup LeafEdges(SourceEdges(w))

Assemble(w) == GatheredEdges(w) \cup RootEdges(GatheredEdges(w))

\* The tasks that come before t.
Before(e, t) ==
    LET closed(S) == \A x \in e : x[2] \in S => x[1] \in S
    IN  {u \in Task : \A S \in SUBSET Task : t \in S /\ closed(S) => u \in S}

\* A step that starts from nothing: it has inputs and none has a source.
Unsourced(w, s) == w.ins[s] = {NoSource}

=============================================================================
