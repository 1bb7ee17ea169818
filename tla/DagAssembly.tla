---------------------------- MODULE DagAssembly ----------------------------
(***************************************************************************)
(* CWLDAG.__assemble (extensions/cwldag.py), loop by loop.                 *)
(*                                                                         *)
(* The code runs in two passes over the steps, because a source is looked  *)
(* up in the outputs registered so far and an unknown one is taken for a   *)
(* workflow input (except KeyError).  Steps come in the order of the       *)
(* document, which is any order.                                           *)
(***************************************************************************)
EXTENDS WorkflowGraph

VARIABLES
    workflow,       \* what the CWL file says (see Workflow)
    registered,     \* steps whose outputs are in task_by_out_id
    connected,      \* steps whose sources have been looked at
    edges,          \* <<upstream, downstream>> pairs of tasks
    phase           \* what __assemble is about to do

assemblyVars == <<workflow, registered, connected, edges, phase>>

-----------------------------------------------------------------------------
(* __assemble, loop by loop *)

AssemblyInit ==
    /\ workflow \in {w \in Workflow : Acyclic(w)}
    /\ registered = {}
    /\ connected = {}
    /\ edges = {}
    /\ phase = "register"

\* First loop: the task of a step, and its outputs in task_by_out_id.
RegisterStep(s) ==
    /\ phase = "register"
    /\ s \notin registered
    /\ registered' = registered \cup {s}
    /\ phase' = IF registered' = Step THEN "connect" ELSE phase
    /\ UNCHANGED <<workflow, connected, edges>>

\* Mutant: one loop, which knows the outputs of the steps before it only.
ConnectInOnePass(s) ==
    /\ phase = "connect"
    /\ s \notin connected
    /\ connected' = connected \cup {s}
    /\ edges' = edges \cup StepEdges(workflow, s, connected)
    /\ phase' = IF connected' = Step THEN "outputs" ELSE phase
    /\ UNCHANGED <<workflow, registered>>

\* Second loop: the upstream tasks of a step.
ConnectStep(s) ==
    /\ phase = "connect"
    /\ s \notin connected
    /\ connected' = connected \cup {s}
    /\ edges' = edges \cup StepEdges(workflow, s, registered)
    /\ phase' = IF connected' = Step THEN "outputs" ELSE phase
    /\ UNCHANGED <<workflow, registered>>

\* Third loop, and the two safety measures.
ConnectGatherer ==
    /\ phase = "outputs"
    /\ edges' = edges \cup OutputEdges(workflow, registered)
    /\ phase' = "leaves"
    /\ UNCHANGED <<workflow, registered, connected>>

ConnectLeaves ==
    /\ phase = "leaves"
    /\ edges' = edges \cup LeafEdges(edges)
    /\ phase' = "roots"
    /\ UNCHANGED <<workflow, registered, connected>>

ConnectRoots ==
    /\ phase = "roots"
    /\ edges' = edges \cup RootEdges(edges)
    /\ phase' = "done"
    /\ UNCHANGED <<workflow, registered, connected>>

AssemblyNext ==
    \/ \E s \in Step : RegisterStep(s) \/ ConnectStep(s)
    \/ ConnectGatherer \/ ConnectLeaves \/ ConnectRoots

AssemblySpec == AssemblyInit /\ [][AssemblyNext]_assemblyVars

-----------------------------------------------------------------------------
(* Properties *)

AssemblyTypeOK ==
    /\ workflow \in Workflow
    /\ registered \subseteq Step
    /\ connected \subseteq registered
    /\ edges \subseteq (Step \cup {Dispatcher}) \X (Step \cup {Gatherer})
    /\ phase \in {"register", "connect", "outputs", "leaves", "roots", "done"}

\* In the assembled DAG a step runs after each step whose outputs it reads,
\* and the gatherer after each step that makes a workflow output, whatever
\* the order of the steps in the document: no producer is mistaken for a
\* workflow input.
DependenciesConnected ==
    phase = "done" =>
        /\ \A s \in Step : \A p \in Producers(workflow, s) : <<p, s>> \in edges
        /\ \A p \in workflow.outs \cap Step : <<p, Gatherer>> \in edges

\* The result does not depend on the order of the steps.
OrderIrrelevant == phase = "done" => edges = Assemble(workflow)

\* Nothing runs before the dispatcher, which "is used to provide the
\* pipeline with the input data" (docs/readme/how_it_works.md), and
\* everything else runs after it, unless a step has inputs none of which
\* has a source; the gatherer has something to
\* wait for in every workflow ("safety measure in case of very specific
\* workflows").
DispatcherLeads ==
    phase = "done" =>
        /\ ~HasUpstream(edges, Dispatcher)
        /\ ~HasDownstream(edges, Gatherer)
        /\ HasUpstream(edges, Gatherer)
        /\ (\A s \in Step : ~Unsourced(workflow, s)) =>
               \A t \in Task : Dispatcher \in Before(edges, t)

=============================================================================
