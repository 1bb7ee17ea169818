-------------------------- MODULE DagAssemblyProofs --------------------------
(***************************************************************************)
(* Proofs about DagAssembly and JobData, for every set of steps, every     *)
(* workflow and every way of giving ids: the two passes of __assemble      *)
(* connect every dependency, the order of the steps in the document does   *)
(* not matter, the dispatcher and the gatherer enclose the steps, and data *)
(* reach the tasks that ask for them.                                      *)
(***************************************************************************)
EXTENDS JobData, FiniteSetTheorems, TLAPS

\* The edges that the second loop has added so far.
EdgesOf(S) == UNION {StepEdges(workflow, s, Step) : s \in S}

\* What is known before each phase: the second loop runs with all outputs
\* registered, so each step gets the edges it gets in any other order.
Progress ==
    /\ phase = "register" => connected = {} /\ edges = {}
    /\ phase # "register" => registered = Step
    /\ phase = "connect" => edges = EdgesOf(connected)
    /\ phase \in {"outputs", "leaves", "roots", "done"} => connected = Step
    /\ phase = "outputs" => edges = EdgesOf(Step)
    /\ phase = "leaves" => edges = SourceEdges(workflow)
    /\ phase = "roots" => edges = GatheredEdges(workflow)
    /\ phase = "done" => edges = Assemble(workflow)

AssemblyInv == AssemblyTypeOK /\ Progress

\* Edges go from steps and the dispatcher to steps and the gatherer.
LEMMA EdgeTypes ==
    ASSUME NEW w \in Workflow, NEW known \in SUBSET Step,
           NEW e \in SUBSET ((Step \cup {Dispatcher}) \X (Step \cup {Gatherer}))
    PROVE  /\ \A s \in Step : StepEdges(w, s, known)
                  \subseteq (Step \cup {Dispatcher}) \X (Step \cup {Gatherer})
           /\ OutputEdges(w, known)
                  \subseteq (Step \cup {Dispatcher}) \X (Step \cup {Gatherer})
           /\ LeafEdges(e)
                  \subseteq (Step \cup {Dispatcher}) \X (Step \cup {Gatherer})
           /\ RootEdges(e)
                  \subseteq (Step \cup {Dispatcher}) \X (Step \cup {Gatherer})
BY DEF Workflow, StepEdges, OutputEdges, TaskOf, LeafEdges, RootEdges

LEMMA AssemblyStarts == AssemblyInit => AssemblyInv
BY DEF AssemblyInit, AssemblyInv, AssemblyTypeOK, Progress

LEMMA AssemblyGoesOn == AssemblyInv /\ [AssemblyNext]_assemblyVars => AssemblyInv'
<1> SUFFICES ASSUME AssemblyInv, [AssemblyNext]_assemblyVars
             PROVE  AssemblyInv'
  OBVIOUS
<1> USE DEF AssemblyInv
<1>1. ASSUME NEW s \in Step, RegisterStep(s)
      PROVE  AssemblyInv'
  <2>1. AssemblyTypeOK'
    BY <1>1 DEF RegisterStep, AssemblyTypeOK
  <2>2. Progress'
    BY <1>1 DEF RegisterStep, Progress, EdgesOf
  <2> QED
    BY <2>1, <2>2
<1>2. ASSUME NEW s \in Step, ConnectStep(s)
      PROVE  AssemblyInv'
  <2>1. registered = Step /\ edges = EdgesOf(connected) /\ workflow' = workflow
    BY <1>2 DEF ConnectStep, Progress
  <2>2. edges' = EdgesOf(connected \cup {s})
    BY <1>2, <2>1 DEF ConnectStep, EdgesOf
  <2>3. AssemblyTypeOK'
    BY <1>2, <2>1, EdgeTypes DEF ConnectStep, AssemblyTypeOK
  <2>4. Progress'
    BY <1>2, <2>1, <2>2 DEF ConnectStep, Progress, EdgesOf
  <2> QED
    BY <2>3, <2>4
<1>3. CASE ConnectGatherer
  <2>1. registered = Step /\ edges = EdgesOf(Step)
    BY <1>3 DEF ConnectGatherer, Progress
  <2>2. AssemblyTypeOK'
    BY <1>3, <2>1, EdgeTypes DEF ConnectGatherer, AssemblyTypeOK
  <2>3. Progress'
    BY <1>3, <2>1 DEF ConnectGatherer, Progress, EdgesOf, SourceEdges
  <2> QED
    BY <2>2, <2>3
<1>4. CASE ConnectLeaves
  <2>1. AssemblyTypeOK'
    BY <1>4, EdgeTypes DEF ConnectLeaves, AssemblyTypeOK
  <2>2. Progress'
    BY <1>4 DEF ConnectLeaves, Progress, GatheredEdges
  <2> QED
    BY <2>1, <2>2
<1>5. CASE ConnectRoots
  <2>1. AssemblyTypeOK'
    BY <1>5, EdgeTypes DEF ConnectRoots, AssemblyTypeOK
  <2>2. Progress'
    BY <1>5 DEF ConnectRoots, Progress, Assemble
  <2> QED
    BY <2>1, <2>2
<1>6. CASE UNCHANGED assemblyVars
  <2>1. AssemblyTypeOK'
    BY <1>6 DEF assemblyVars, AssemblyTypeOK
  <2>2. Progress'
    BY <1>6 DEF assemblyVars, Progress, EdgesOf
  <2> QED
    BY <2>1, <2>2
<1> QED
  BY <1>1, <1>2, <1>3, <1>4, <1>5, <1>6 DEF AssemblyNext

LEMMA AssemblyInvariance == AssemblySpec => []AssemblyInv
BY AssemblyStarts, AssemblyGoesOn, PTL DEF AssemblySpec

\* The tasks and edges of a DAG under construction have their types, and a
\* step is connected only once its outputs are registered.
THEOREM AssemblyTypeCorrect == AssemblySpec => []AssemblyTypeOK
BY AssemblyInvariance, PTL DEF AssemblyInv

\* The order in which the workflow lists its steps does not change the DAG.
THEOREM AssemblyConfluent == AssemblySpec => []OrderIrrelevant
<1>1. AssemblyInv => OrderIrrelevant
  BY DEF AssemblyInv, Progress, OrderIrrelevant
<1> QED
  BY <1>1, AssemblyInvariance, PTL

\* Every step runs after the producers of its inputs, and the gatherer after
\* the producers of the workflow outputs.
THEOREM AssemblyConnectsDependencies == AssemblySpec => []DependenciesConnected
<1>1. AssemblyInv => DependenciesConnected
  <2> SUFFICES ASSUME AssemblyInv, phase = "done"
               PROVE  DependenciesConnected
    BY DEF DependenciesConnected
  <2>1. edges = Assemble(workflow)
    BY DEF AssemblyInv, Progress
  <2>2. \A s \in Step : StepEdges(workflow, s, Step) \subseteq edges
    BY <2>1 DEF Assemble, GatheredEdges, SourceEdges
  <2>3. OutputEdges(workflow, Step) \subseteq edges
    BY <2>1 DEF Assemble, GatheredEdges, SourceEdges
  <2>4. ASSUME NEW s \in Step, NEW p \in Producers(workflow, s)
        PROVE  <<p, s>> \in StepEdges(workflow, s, Step)
    <3>1. p \in workflow.ins[s] /\ p \in Step /\ p # NoSource
      BY TasksAssumption DEF Producers
    <3> QED
      BY <3>1 DEF StepEdges, TaskOf
  <2>5. \A p \in workflow.outs \cap Step :
           <<p, Gatherer>> \in OutputEdges(workflow, Step)
    BY DEF OutputEdges, TaskOf
  <2> QED
    BY <2>2, <2>3, <2>4, <2>5 DEF DependenciesConnected
<1> QED
  BY <1>1, AssemblyInvariance, PTL

-----------------------------------------------------------------------------
(* The dispatcher and the gatherer enclose the steps *)

\* Of finitely many steps there is one whose outputs none of the others reads:
\* a smallest set without one would stay without one when a step that reads
\* none of the others is taken out of it.
LEMMA LastStep ==
    ASSUME NEW w \in Workflow, Acyclic(w),
           NEW S \in SUBSET Step, IsFiniteSet(S), S # {}
    PROVE  \E s \in S : \A t \in S : s \notin Producers(w, t)
<1> DEFINE HasLast(T) == \E s \in T : \A t \in T : s \notin Producers(w, t)
           without == {T \in FiniteSubsetsOf(S) : T # {} /\ ~HasLast(T)}
<1> SUFFICES ASSUME ~HasLast(S) PROVE FALSE
  OBVIOUS
<1>1. without \subseteq FiniteSubsetsOf(S) /\ S \in without
  BY DEF FiniteSubsetsOf
<1>2. PICK T \in without : \A U \in without : <<U, T>> \notin StrictSubsetOrdering(S)
  <2> HIDE DEF without
  <2> QED BY <1>1, FS_StrictSubsetOrderingWellFounded, WFMin
<1>3. T \in SUBSET S /\ IsFiniteSet(T) /\ T # {} /\ ~HasLast(T)
  BY DEF FiniteSubsetsOf
<1>4. PICK first \in T : Producers(w, first) \cap T = {}
  BY <1>3 DEF Acyclic
<1>5. PICK t \in T : first \in Producers(w, t)
  BY <1>3
<1> DEFINE U == T \ {first}
<1>6. U # {} /\ U \in FiniteSubsetsOf(S) /\ U # T
  BY <1>3, <1>4, <1>5, FS_RemoveElement DEF FiniteSubsetsOf
<1>7. HasLast(U)
  <2>1. <<U, T>> \in StrictSubsetOrdering(S)
    BY <1>3, <1>6 DEF StrictSubsetOrdering
  <2> HIDE DEF U, HasLast
  <2> QED BY <1>2, <1>6, <2>1
<1>8. PICK s \in U : \A v \in U : s \notin Producers(w, v)
  BY <1>7
<1>9. s \notin Producers(w, first)
  BY <1>4, <1>8
<1> QED BY <1>3, <1>8, <1>9

\* The gatherer has something to wait for: the steps that make the workflow
\* outputs, or the last steps.
LEMMA GathererWaits ==
    ASSUME NEW w \in Workflow, Acyclic(w), IsFiniteSet(Step), Step # {}
    PROVE  HasUpstream(Assemble(w), Gatherer)
<1>1. CASE HasUpstream(SourceEdges(w), Gatherer)
  BY <1>1 DEF HasUpstream, Assemble, GatheredEdges
<1>2. CASE ~HasUpstream(SourceEdges(w), Gatherer)
  <2>1. PICK s \in Step : \A t \in Step : s \notin Producers(w, t)
    BY LastStep
  <2>2. ASSUME NEW d \in Task, <<s, d>> \in SourceEdges(w)
        PROVE  FALSE
    <3>1. s \in Task /\ s # Dispatcher
      BY TasksAssumption DEF Task
    <3>2. <<s, d>> \notin OutputEdges(w, Step)
      BY <1>2, <2>2, <3>1 DEF HasUpstream, OutputEdges
    <3>3. PICK t \in Step : <<s, d>> \in StepEdges(w, t, Step)
      BY <2>2, <3>2 DEF SourceEdges
    <3>4. PICK source \in w.ins[t] : <<s, d>> = <<TaskOf(source, Step), t>>
      BY <3>1, <3>3 DEF StepEdges
    <3>5. source = s
      BY <3>1, <3>4 DEF TaskOf
    <3> QED BY <2>1, <3>5 DEF Producers
  <2>3. <<s, Gatherer>> \in LeafEdges(SourceEdges(w))
    BY <1>2, <2>2 DEF LeafEdges, HasDownstream
  <2> QED BY <2>3 DEF HasUpstream, Assemble, GatheredEdges, Task
<1> QED BY <1>1, <1>2

\* The dispatcher comes before everything, if no step starts from nothing: of
\* the steps that it does not come before, one would read from none of the
\* others, so that it has an edge from the dispatcher.
LEMMA DispatcherIsFirst ==
    ASSUME NEW w \in Workflow, Acyclic(w), \A s \in Step : ~Unsourced(w, s),
           Assemble(w) \subseteq (Step \cup {Dispatcher}) \X (Step \cup {Gatherer}),
           HasUpstream(Assemble(w), Gatherer), NEW t \in Task
    PROVE  Dispatcher \in Before(Assemble(w), t)
<1> DEFINE closed(S) == \A x \in Assemble(w) : x[2] \in S => x[1] \in S
<1> SUFFICES ASSUME NEW S \in SUBSET Task, t \in S, closed(S)
             PROVE  Dispatcher \in S
  BY DEF Before, Task
<1>1. ASSUME NEW u, NEW s, <<u, s>> \in Assemble(w), s \in S PROVE u \in S
  BY <1>1
<1> HIDE DEF closed
<1>2. CASE S \cap Step # {}
  <2>1. PICK s \in S \cap Step : Producers(w, s) \cap (S \cap Step) = {}
    BY <1>2 DEF Acyclic
  <2>2. StepEdges(w, s, Step) \subseteq Assemble(w)
    BY DEF Assemble, GatheredEdges, SourceEdges
  <2>3. CASE w.ins[s] = {}
    BY <1>1, <2>1, <2>2, <2>3 DEF StepEdges
  <2>4. CASE w.ins[s] # {}
    <3>1. PICK source \in w.ins[s] : source # NoSource
      BY <2>4 DEF Unsourced
    <3>2. TaskOf(source, Step) \in S
      BY <1>1, <2>1, <2>2, <3>1 DEF StepEdges
    <3>3. source \notin Step
      BY <2>1, <3>1, <3>2 DEF TaskOf, Producers
    <3> QED BY <3>2, <3>3 DEF TaskOf
  <2> QED BY <2>3, <2>4
<1>3. CASE S \cap Step = {}
  <2>1. t = Dispatcher \/ Gatherer \in S
    BY <1>3 DEF Task
  <2>2. ASSUME Gatherer \in S PROVE Dispatcher \in S
    <3>1. PICK u \in Task : <<u, Gatherer>> \in Assemble(w)
      BY DEF HasUpstream
    <3>2. u \in S /\ u \in Step \cup {Dispatcher}
      BY <1>1, <2>2, <3>1
    <3> QED BY <1>3, <3>2
  <2> QED BY <2>1, <2>2
<1> QED BY <1>2, <1>3

\* There are steps, finitely many, as soon as one of them is connected.
Steps ==
    /\ Acyclic(workflow)
    /\ IsFiniteSet(registered)
    /\ phase # "register" => Step # {}

LEMMA StepsInvariance == AssemblySpec => []Steps
<1>1. AssemblyInit => Steps
  BY FS_EmptySet DEF AssemblyInit, Steps
<1>2. Steps /\ [AssemblyNext]_assemblyVars => Steps'
  <2> SUFFICES ASSUME Steps, [AssemblyNext]_assemblyVars PROVE Steps'
    OBVIOUS
  <2>1. ASSUME NEW s \in Step, RegisterStep(s) PROVE Steps'
    BY <2>1, FS_AddElement DEF RegisterStep, Steps, Acyclic, Producers
  <2>2. ASSUME NEW s \in Step, ConnectStep(s) PROVE Steps'
    BY <2>2 DEF ConnectStep, Steps, Acyclic, Producers
  <2>3. CASE ConnectGatherer \/ ConnectLeaves \/ ConnectRoots \/ UNCHANGED assemblyVars
    BY <2>3 DEF ConnectGatherer, ConnectLeaves, ConnectRoots, assemblyVars, Steps,
                Acyclic, Producers
  <2> QED BY <2>1, <2>2, <2>3 DEF AssemblyNext
<1> QED BY <1>1, <1>2, PTL DEF AssemblySpec

\* The assembled DAG begins with the dispatcher, ends with the gatherer, and has
\* everything else between them, unless a step starts from nothing.
THEOREM DispatcherAlwaysLeads == AssemblySpec => []DispatcherLeads
<1>1. AssemblyInv /\ Steps => DispatcherLeads
  <2> SUFFICES ASSUME AssemblyInv, Steps, phase = "done" PROVE DispatcherLeads
    BY DEF DispatcherLeads
  <2>1. /\ workflow \in Workflow /\ edges = Assemble(workflow) /\ registered = Step
        /\ edges \subseteq (Step \cup {Dispatcher}) \X (Step \cup {Gatherer})
    BY DEF AssemblyInv, AssemblyTypeOK, Progress
  <2>2. ~HasUpstream(edges, Dispatcher) /\ ~HasDownstream(edges, Gatherer)
    BY <2>1, TasksAssumption DEF HasUpstream, HasDownstream
  <2>3. HasUpstream(edges, Gatherer)
    BY <2>1, GathererWaits DEF Steps
  <2>4. (\A s \in Step : ~Unsourced(workflow, s)) =>
            \A t \in Task : Dispatcher \in Before(edges, t)
    BY <2>1, <2>3, DispatcherIsFirst DEF Steps
  <2> QED BY <2>2, <2>3, <2>4 DEF DispatcherLeads
<1> QED BY <1>1, AssemblyInvariance, StepsInvariance, PTL

-----------------------------------------------------------------------------
(* The data of tasks *)

\* What a task has taken is what its sources have put out.
RightlyTaken(t) ==
    /\ \A src \in Sources(t) : <<src, src>> \in taken[t]
    /\ \A pair \in taken[t] : ToldApart(pair[1]) => pair[2] = pair[1]

JobInv ==
    /\ naming \in Naming \cup {NoNaming}
    /\ naming = NoNaming => started = {} /\ finished = {}
    /\ naming # NoNaming => phase = "done"
    /\ started \subseteq Task /\ finished \subseteq started
    /\ taken \in [Task -> SUBSET (Origin \X Origin)]
    /\ \A t \in started \ {Dispatcher} : RightlyTaken(t)

\* The key of an id is its words, so ids that are told apart have keys of their own.
LEMMA KeyIsWords ==
    ASSUME naming \in Naming, NEW x \in Origin
    PROVE  KeyOf(naming, x) = WordsOf(x)
<1>1. CASE x = Folder
  BY <1>1 DEF KeyOf, WordsOf
<1>2. CASE x # Folder
  <2> DEFINE id == naming[x]
  <2>1. Len(id) = 1 \/ (Len(id) \in Nat /\ Len(id) > 1)
    BY <1>2, NamingAssumption DEF Origin
  <2> HIDE DEF id
  <2>2. Key(id) = Words(id)
    BY <2>1 DEF Key, Words, ShortId
  <2> QED BY <1>2, <2>2 DEF KeyOf, WordsOf, id
<1> QED BY <1>1, <1>2

\* A step workflow asks for a source under the key that it is reported under.
LEMMA SameKey ==
    ASSUME naming \in Naming, NEW src \in Step \cup {WorkflowInput}
    PROVE  KeyOfSource(src) = KeyOf(naming, src)
<1> DEFINE id == naming[src]
           input == naming[WorkflowInput]
<1>1. src # Folder
  BY NamingAssumption DEF Folder, WorkflowInput
<1>2. Len(input) = 1 /\ ShortId(input) = input
  BY NamingAssumption DEF ShortId
<1>3. CASE src = WorkflowInput
  BY <1>1, <1>2, <1>3 DEF KeyOfSource, Selected, KeyOf, Key
<1>4. CASE src \in Step
  <2>1. Len(id) \in Nat /\ Len(id) > 1
    BY <1>4, NamingAssumption
  <2> HIDE DEF id, input
  <2>2. Len(ShortId(id)) = 2
    BY <2>1 DEF ShortId
  <2>3. ~Selected(input, ShortId(id))
    BY <1>2, <2>2 DEF Selected
  <2> QED BY <1>1, <2>3 DEF KeyOfSource, KeyOf, id, input
<1> QED BY <1>3, <1>4

\* The DAG has an edge from the task of each source, and to the gatherer.
LEMMA SourcesBefore ==
    ASSUME AssemblyInv, phase = "done", NEW t \in Task \ {Dispatcher},
           NEW src \in Sources(t)
    PROVE  /\ src \in Step \cup {WorkflowInput}
           /\ (IF src \in Step THEN src ELSE Dispatcher) \in Upstream(t)
<1>1. edges = Assemble(workflow) /\ workflow \in Workflow
  BY DEF AssemblyInv, AssemblyTypeOK, Progress
<1>2. CASE t \in Step
  <2>1. t # Gatherer
    BY <1>2, TasksAssumption
  <2>2. src \in workflow.ins[t] \ {NoSource}
    BY <2>1 DEF Sources, SourcesOfStep
  <2>3. src \in Step \cup {WorkflowInput}
    BY <1>1, <1>2, <2>2 DEF Workflow
  <2>4. <<TaskOf(src, Step), t>> \in edges
    <3>1. <<TaskOf(src, Step), t>> \in StepEdges(workflow, t, Step)
      BY <2>2 DEF StepEdges
    <3>2. StepEdges(workflow, t, Step) \subseteq edges
      BY <1>1, <1>2 DEF Assemble, GatheredEdges, SourceEdges
    <3> QED BY <3>1, <3>2
  <2>5. TaskOf(src, Step) \in Task
    BY DEF TaskOf, Task
  <2> QED BY <2>3, <2>4, <2>5 DEF Upstream, TaskOf
<1>3. CASE t = Gatherer
  <2>1. src \in workflow.outs
    BY <1>3 DEF Sources
  <2>2. src \in Step \cup {WorkflowInput}
    BY <1>1, <2>1 DEF Workflow
  <2>3. <<TaskOf(src, Step), Gatherer>> \in edges
    BY <1>1, <2>1 DEF Assemble, GatheredEdges, SourceEdges, OutputEdges
  <2>4. TaskOf(src, Step) \in Task
    BY DEF TaskOf, Task
  <2> QED BY <1>3, <2>2, <2>3, <2>4 DEF Upstream, TaskOf
<1> QED BY <1>2, <1>3 DEF Task

\* What stands under a key comes from an id that becomes this key.
LEMMA CollectedUnderKey ==
    ASSUME naming \in Naming, NEW key, NEW x \in Collected(key), finished \subseteq Task
    PROVE  x \in Origin /\ KeyOf(naming, x) = key
BY DEF Collected, ReportOf, ReportOfDispatcher

\* A task that starts when all before it have ended takes what it should.
LEMMA TakesRightly ==
    ASSUME AssemblyInv, JobInv, naming # NoNaming, NEW t \in Task \ {Dispatcher},
           Upstream(t) \subseteq finished
    PROVE  /\ Take(t) \subseteq Origin \X Origin
           /\ \A src \in Sources(t) : <<src, src>> \in Take(t)
           /\ \A pair \in Take(t) : ToldApart(pair[1]) => pair[2] = pair[1]
<1>1. naming \in Naming /\ phase = "done" /\ finished \subseteq Task
  BY DEF JobInv
<1>2. ASSUME NEW src \in Sources(t)
      PROVE  /\ src \in Step \cup {WorkflowInput} /\ src \in Origin
             /\ <<src, src>> \in Take(t)
  <2> DEFINE from == IF src \in Step THEN src ELSE Dispatcher
  <2>1. src \in Step \cup {WorkflowInput} /\ from \in Upstream(t)
    BY <1>1, <1>2, SourcesBefore
  <2>2. from \in finished \ {Gatherer}
    BY <2>1, TasksAssumption
  <2>3. <<KeyOf(naming, src), src>> \in ReportOf(from)
    BY <2>1, TasksAssumption DEF ReportOf, ReportOfDispatcher
  <2> HIDE DEF from
  <2>4. src \in Origin
    BY <2>1 DEF Origin
  <2>5. src \in Collected(KeyOf(naming, src))
    BY <2>2, <2>3, <2>4 DEF Collected
  <2>6. src \in Collected(KeyOfSource(src))
    BY <1>1, <2>1, <2>5, SameKey
  <2>7. <<src, src>> \in {src} \X Collected(KeyOfSource(src))
    BY <2>6
  <2>8. <<src, src>> \in UNION {{s} \X Collected(KeyOfSource(s)) : s \in Sources(t)}
    BY <1>2, <2>7
  <2> QED BY <2>1, <2>4, <2>8 DEF Take
<1>3. ASSUME NEW pair \in Take(t)
      PROVE  /\ pair \in Origin \X Origin
             /\ ToldApart(pair[1]) => pair[2] = pair[1]
  <2>1. CASE \E s \in Sources(t) : pair \in {s} \X Collected(KeyOfSource(s))
    <3>1. PICK src \in Sources(t), x \in Origin :
              pair = <<src, x>> /\ x \in Collected(KeyOfSource(src))
      BY <2>1 DEF Collected
    <3>2. src \in Step \cup {WorkflowInput} /\ src \in Origin
      BY <1>2
    <3>3. KeyOf(naming, x) = KeyOf(naming, src)
      BY <1>1, <3>1, <3>2, CollectedUnderKey, SameKey
    <3>4. WordsOf(x) = WordsOf(src)
      BY <1>1, <3>1, <3>2, <3>3, KeyIsWords
    <3> QED BY <3>1, <3>2, <3>4 DEF ToldApart
  <2>2. CASE pair \in {Folder} \X Collected(TmpFolder)
    <3>1. PICK x \in Collected(TmpFolder) : pair = <<Folder, x>>
      BY <2>2
    <3>2. x \in Origin /\ KeyOf(naming, x) = TmpFolder
      BY <1>1, <3>1, CollectedUnderKey
    <3>3. WordsOf(x) = WordsOf(Folder)
      BY <1>1, <3>2, KeyIsWords DEF WordsOf
    <3>4. Folder \in Origin
      BY DEF Origin
    <3> QED BY <3>1, <3>2, <3>3, <3>4 DEF ToldApart
  <2>3. \/ \E s \in Sources(t) : pair \in {s} \X Collected(KeyOfSource(s))
        \/ pair \in {Folder} \X Collected(TmpFolder)
    <3> DEFINE A == UNION {{src} \X Collected(KeyOfSource(src)) : src \in Sources(t)}
               B == {Folder} \X Collected(TmpFolder)
    <3>1. Take(t) = A \cup B
      BY DEF Take
    <3>2. pair \in A \/ pair \in B
      <4> HIDE DEF A, B
      <4> QED BY <1>3, <3>1
    <3>3. pair \in A => \E s \in Sources(t) : pair \in {s} \X Collected(KeyOfSource(s))
      OBVIOUS
    <3> QED BY <3>2, <3>3
  <2> QED BY <2>1, <2>2, <2>3
<1> QED BY <1>2, <1>3

-----------------------------------------------------------------------------

\* The run of the DAG leaves the assembly alone.
LEMMA JobAssembles == JobSpec => AssemblySpec
<1>1. JobInit => AssemblyInit
  BY DEF JobInit
<1>2. [JobNext]_<<assemblyVars, jobVars>> => [AssemblyNext]_assemblyVars
  BY DEF JobNext, StartRun, Dispatch, StartStep, FinishStep, Gather
<1> QED BY <1>1, <1>2, PTL DEF JobSpec, AssemblySpec

LEMMA JobGoesOn ==
    AssemblyInv /\ JobInv /\ [JobNext]_<<assemblyVars, jobVars>> => JobInv'
<1> SUFFICES ASSUME AssemblyInv, JobInv, [JobNext]_<<assemblyVars, jobVars>>
             PROVE  JobInv'
  OBVIOUS
<1> USE DEF JobInv, jobVars
<1>1. \A t \in Task : UNCHANGED <<naming, workflow, taken[t]>> =>
                          (RightlyTaken(t) => RightlyTaken(t)')
  BY DEF RightlyTaken, Sources, SourcesOfStep, ToldApart, WordsOf
<1>2. CASE AssemblyNext /\ UNCHANGED jobVars
  <2>1. phase # "done"
    BY <1>2 DEF AssemblyNext, RegisterStep, ConnectStep, ConnectGatherer, ConnectLeaves,
                ConnectRoots
  <2> QED BY <1>2, <2>1
<1>3. CASE StartRun
  BY <1>3 DEF StartRun, assemblyVars
<1>4. CASE Dispatch
  BY <1>1, <1>4 DEF Dispatch, assemblyVars, Task
<1>5. ASSUME NEW t \in Task \ {Dispatcher}, t \notin started, naming # NoNaming,
             Upstream(t) \subseteq finished, started' = started \cup {t},
             finished' \in {finished, finished \cup {t}},
             taken' = [taken EXCEPT ![t] = Take(t)], UNCHANGED <<assemblyVars, naming>>
      PROVE  JobInv'
  <2>1. taken'[t] = Take(t) /\ Take(t) \subseteq Origin \X Origin
    BY <1>5, TakesRightly
  <2>2. RightlyTaken(t)'
    <3>1. /\ \A src \in Sources(t) : <<src, src>> \in taken'[t]
          /\ \A pair \in taken'[t] : ToldApart(pair[1]) => pair[2] = pair[1]
      BY <1>5, <2>1, TakesRightly
    <3>2. UNCHANGED <<naming, workflow>>
      BY <1>5 DEF assemblyVars
    <3> QED BY <3>1, <3>2
        DEF RightlyTaken, Sources, SourcesOfStep, ToldApart, WordsOf
  <2>3. \A u \in started \ {Dispatcher} : RightlyTaken(u)'
    <3>1. \A u \in started : UNCHANGED <<naming, workflow, taken[u]>>
      BY <1>5 DEF assemblyVars
    <3> QED BY <1>1, <3>1
  <2>4. taken' \in [Task -> SUBSET (Origin \X Origin)]
    BY <1>5, <2>1
  <2> QED BY <1>5, <2>2, <2>3, <2>4 DEF assemblyVars
<1>6. ASSUME NEW s \in Step, StartStep(s) PROVE JobInv'
  <2>1. s \in Task \ {Dispatcher}
    BY TasksAssumption DEF Task
  <2> QED BY <1>5, <1>6, <2>1 DEF StartStep
<1>7. ASSUME NEW s \in Step, FinishStep(s) PROVE JobInv'
  BY <1>1, <1>7 DEF FinishStep, assemblyVars
<1>8. CASE Gather
  <2>1. Gatherer \in Task \ {Dispatcher}
    BY TasksAssumption DEF Task
  <2> QED BY <1>5, <1>8, <2>1 DEF Gather
<1>9. CASE UNCHANGED <<assemblyVars, jobVars>>
  BY <1>1, <1>9 DEF assemblyVars
<1> QED
  BY <1>2, <1>3, <1>4, <1>6, <1>7, <1>8, <1>9 DEF JobNext

\* Every task finds what its sources have put out, and nothing else where no two
\* ids become one key.
THEOREM DataFromSources == JobSpec => []TakenFromSources
<1>1. JobInit => JobInv
  BY DEF JobInit, JobInv
<1>2. JobInv => TakenFromSources
  BY DEF JobInv, TakenFromSources, RightlyTaken
<1> QED
  BY <1>1, <1>2, JobAssembles, AssemblyInvariance, JobGoesOn, PTL DEF JobSpec

=============================================================================
