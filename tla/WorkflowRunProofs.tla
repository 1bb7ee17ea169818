-------------------------- MODULE WorkflowRunProofs --------------------------
(***************************************************************************)
(* Proofs about WorkflowRun, for all workflows and settings and however    *)
(* often the run is cleared or cancelled.                                  *)
(***************************************************************************)
EXTENDS WorkflowRun, FiniteSetTheorems, TLAPS

USE DEF vars, dagVars, diskVars, callbackVars, cancelVars

LEMMA Tasks ==
    /\ Dispatcher \in Task /\ Gatherer \in Task /\ Step \subseteq Task
    /\ Dispatcher # Gatherer /\ Dispatcher \notin Step /\ Gatherer \notin Step
BY TasksAssumption DEF Task

LEMMA Bounds == MaxClears \in Nat /\ MaxCancels \in Nat
BY RunAssumption

-----------------------------------------------------------------------------
(* Types.  The inductive invariant comes in four parts.  *)

\* The process of a dispatcher that was stopped: it has collected nothing.
DispatcherGhost == [task |-> Dispatcher, job |-> Nothing]

\* States of tasks; a folder is made once between two clearings, by the dispatcher or
\* by its process that was stopped.
Counters ==
    /\ task \in [Task -> TaskState]
    /\ clears \in Nat /\ clears <= MaxClears
    /\ cancels \in 0..MaxCancels
    /\ job[Dispatcher] = Nothing
    /\ \A g \in ghosts : g.task = Dispatcher => g = DispatcherGhost
    /\ made \in Nat
    /\ made + (IF DispatcherGhost \in ghosts THEN 1 ELSE 0)
          <= clears + (IF task[Dispatcher] \in {"none", "running"} THEN 0 ELSE 1)

\* XCom, jobs and processes name only folders that were made, and a running task has
\* one.
Folders ==
    /\ xcom \in [Task -> 0..made]
    /\ job \in [Task -> [Task -> 0..made]]
    /\ ghosts \subseteq [task : Task, job : [Task -> 0..made]]
    /\ tmp \subseteq 1..made /\ undeleted \subseteq 1..made
    /\ orphans \subseteq 0..clears
    /\ results \in 0..made
    /\ \A t \in Task \ {Dispatcher} :
          task[t] = "running" => job[t][Dispatcher] # 0

\* The DAG, the dag run, its callback and its cancellation.
Control ==
    /\ workflow \in Workflows /\ edges = Assemble(workflow)
    /\ keep \in KeepSettings
    /\ dagrun \in {"running", "success", "failed"}
    /\ requests \in Seq([outcome : {"success", "failed"}, clears : 0..MaxClears])
    /\ callback \in {"idle", "results", "clean_up", "clear_xcom"}
    /\ callback # "idle" => requests # <<>>
    /\ cancel \in [at : {"idle", "stop"}, tasks : SUBSET Task]

Flags == given \in JobFolders /\ crossed \in BOOLEAN

TypeInv == Counters /\ Folders /\ Control /\ Flags

LEMMA TypeStarts == Init => TypeInv
<1> SUFFICES ASSUME Init PROVE TypeInv
  OBVIOUS
<1>1. Counters
  BY Bounds, Tasks DEF Init, Counters, TaskState, Nothing
<1>2. Folders
  BY DEF Init, Folders, Nothing
<1>3. Control
  BY DEF Init, Control, NoCancel
<1>4. Flags
  BY DEF Init, Flags
<1> QED BY <1>1, <1>2, <1>3, <1>4 DEF TypeInv

\* What the callback, the scheduler and a request do between the steps of tasks.
LEMMA OtherSteps ==
    ASSUME EndRun \/ CallbackStep \/ StopTasks \/ RemoveTmpData \/ UNCHANGED vars
    PROVE  /\ UNCHANGED <<workflow, edges, keep, given, task, job, made, orphans, results,
                         clears, ghosts, crossed>>
           /\ xcom' = xcom \/ xcom' = Nothing
           /\ tmp' \subseteq tmp /\ undeleted \subseteq undeleted'
           /\ undeleted' \subseteq undeleted \cup tmp
           /\ cancels' = cancels \/ (cancels' = cancels + 1 /\ cancels < MaxCancels)
<1>1. CASE EndRun \/ StopTasks \/ UNCHANGED vars
  BY <1>1 DEF EndRun, StopTasks
<1>2. CASE ReportProgress \/ ReportResults \/ ClearXcom
  BY <1>2 DEF ReportProgress, ReportResults, ClearXcom
<1>3. CASE CleanUp
  BY <1>3 DEF CleanUp, RemoveFolder, Without
<1>4. CASE RemoveTmpData
  BY <1>4 DEF RemoveTmpData, RemoveFolder, Without
<1> QED BY <1>1, <1>2, <1>3, <1>4 DEF CallbackStep

LEMMA CountersGoOn == Counters /\ Folders /\ [Next]_vars => Counters'
<1> SUFFICES ASSUME Counters, Folders, [Next]_vars PROVE Counters'
  OBVIOUS
<1> USE Tasks, Bounds DEF Counters, TaskState
<1>0. /\ job \in [Task -> [Task -> 0..made]] /\ xcom \in [Task -> 0..made]
      /\ DispatcherGhost.task = Dispatcher
  BY DEF Folders, DispatcherGhost
<1>1. CASE StartDispatcher \/ FinishDispatcher \/ FailDispatcher
  BY <1>1 DEF StartDispatcher, FinishDispatcher, FailDispatcher, MakeFolder, AbandonFolder
<1>2. ASSUME NEW t \in Task, StartTask(t) \/ FailTask(t) \/ GiveUpTask(t) PROVE Counters'
  BY <1>0, <1>2 DEF StartTask, FailTask, GiveUpTask
<1>3. ASSUME NEW s \in Step, NEW outcome \in {"success", "skipped"}, FinishStep(s, outcome)
      PROVE  Counters'
  BY <1>0, <1>3 DEF FinishStep
<1>4. CASE FinishGatherer
  BY <1>0, <1>4 DEF FinishGatherer
<1>5. ASSUME NEW t \in Task, StopTask(t) PROVE Counters'
  <2> DEFINE g == [task |-> t, job |-> job[t]]
  <2>1. g.task = t /\ (t = Dispatcher => g = DispatcherGhost)
    BY DEF DispatcherGhost
  <2>2. /\ task' = [task EXCEPT ![t] = "failed"] /\ job' = [job EXCEPT ![t] = Nothing]
        /\ ghosts' = IF task[t] = "running" THEN ghosts \cup {g} ELSE ghosts
        /\ UNCHANGED <<clears, cancels, made>>
    BY <1>5 DEF StopTask
  <2> HIDE DEF g
  <2>3. \A h \in ghosts' : h.task = Dispatcher => h = DispatcherGhost
    BY <2>1, <2>2
  <2>4. t # Dispatcher => (DispatcherGhost \in ghosts' <=> DispatcherGhost \in ghosts)
    BY <1>0, <2>1, <2>2
  <2> QED BY <1>0, <2>2, <2>3, <2>4
<1>6. ASSUME NEW g \in ghosts, GhostReports(g) \/ GhostEnds(g) PROVE Counters'
  <2>1. /\ ghosts' = ghosts \ {g} /\ UNCHANGED <<task, clears, cancels, job>>
        /\ made' = made \/ (g = DispatcherGhost /\ made' = made + 1)
    BY <1>6 DEF GhostReports, GhostEnds, MakeFolder, AbandonFolder
  <2> QED BY <2>1
<1>7. CASE ClearRun
  BY <1>7 DEF ClearRun
<1>8. CASE EndRun \/ CallbackStep \/ StopTasks \/ RemoveTmpData \/ UNCHANGED vars
  BY <1>8, OtherSteps
<1> QED
  BY <1>1, <1>2, <1>3, <1>4, <1>5, <1>6, <1>7, <1>8
  DEF Next, TaskStep, FinishTask, CancelStep

\* Folders stays true while more folders are made.
LEMMA FoldersGrow ==
    ASSUME Counters, Folders, made' \in Nat, made <= made',
           UNCHANGED <<job, task>>, ghosts' \subseteq ghosts, clears' = clears,
           xcom' \in [Task -> 0..made'], results' \in 0..made',
           tmp' \subseteq 1..made', undeleted' \subseteq 1..made', orphans' \subseteq 0..clears
    PROVE  Folders'
<1>1. 0..made \subseteq 0..made'
  BY DEF Counters
<1>2. job' \in [Task -> [Task -> 0..made']]
  BY <1>1 DEF Folders
<1>3. ghosts' \subseteq [task : Task, job : [Task -> 0..made']]
  BY <1>1 DEF Folders
<1> QED BY <1>2, <1>3 DEF Folders

LEMMA FoldersGoOn == Counters /\ Folders /\ [Next]_vars => Folders'
<1> SUFFICES ASSUME Counters, Folders, [Next]_vars PROVE Folders'
  OBVIOUS
<1> USE Tasks DEF Folders
<1>0. made \in Nat /\ task \in [Task -> TaskState] /\ clears \in Nat
  BY DEF Counters
<1>n. Nothing \in [Task -> 0..made]
  BY <1>0 DEF Nothing
<1>m. MakeFolder =>
          /\ made' = made + 1 /\ made' \in Nat /\ 0..made \subseteq 0..made'
          /\ tmp' \subseteq 1..made' /\ undeleted' \subseteq 1..made'
          /\ orphans' \subseteq 0..clears
  BY <1>0 DEF MakeFolder
<1>1. CASE StartDispatcher
  BY <1>0, <1>1 DEF StartDispatcher
<1>2. CASE FinishDispatcher
  <2>1. /\ MakeFolder /\ xcom' = [xcom EXCEPT ![Dispatcher] = made']
        /\ task' = [task EXCEPT ![Dispatcher] = "success"]
        /\ UNCHANGED <<job, results, clears, ghosts>>
    BY <1>2 DEF FinishDispatcher
  <2>2. /\ xcom' \in [Task -> 0..made'] /\ job' \in [Task -> [Task -> 0..made']]
        /\ ghosts' \subseteq [task : Task, job : [Task -> 0..made']]
    BY <1>0, <1>m, <2>1
  <2> QED BY <1>0, <1>m, <2>1, <2>2
<1>3. CASE FailDispatcher
  <2>1. /\ task' = [task EXCEPT ![Dispatcher] = "failed"]
        /\ orphans' \subseteq orphans \cup {clears}
        /\ UNCHANGED <<xcom, job, ghosts, tmp, undeleted, made, clears, results>>
    BY <1>3 DEF FailDispatcher, AbandonFolder
  <2>2. orphans' \subseteq 0..clears
    BY <1>0, <2>1
  <2> QED BY <1>0, <2>1, <2>2
<1>4. ASSUME NEW t \in Task, StartTask(t) PROVE Folders'
  <2>1. xcom' \in [Task -> 0..made']
    BY <1>0, <1>4 DEF StartTask
  <2>2. job' \in [Task -> [Task -> 0..made']]
    BY <2>1, <1>4 DEF StartTask
  <2>3. ASSUME NEW u \in Task \ {Dispatcher}, task'[u] = "running"
        PROVE  job'[u][Dispatcher] # 0
    <3>1. xcom'[Dispatcher] = xcom[Dispatcher]
      BY <1>4 DEF StartTask
    <3> QED BY <1>0, <1>4, <2>3, <3>1 DEF StartTask
  <2> QED BY <1>4, <2>1, <2>2, <2>3 DEF StartTask
<1>5. ASSUME NEW t \in Task, FailTask(t) PROVE Folders'
  BY <1>0, <1>n, <1>5 DEF FailTask
<1>6. ASSUME NEW t \in Task, StopTask(t) PROVE Folders'
  <2>1. /\ task' = [task EXCEPT ![t] = "failed"] /\ job' = [job EXCEPT ![t] = Nothing]
        /\ ghosts' \subseteq ghosts \cup {[task |-> t, job |-> job[t]]}
        /\ UNCHANGED <<xcom, tmp, undeleted, orphans, clears, made, results>>
    BY <1>6 DEF StopTask
  <2>2. ghosts' \subseteq [task : Task, job : [Task -> 0..made]]
    BY <2>1
  <2> QED BY <1>0, <1>n, <2>1, <2>2
<1>7. ASSUME NEW s \in Step, NEW outcome \in {"success", "skipped"}, FinishStep(s, outcome)
      PROVE  Folders'
  BY <1>0, <1>n, <1>7 DEF FinishStep
<1>8. CASE FinishGatherer
  BY <1>0, <1>n, <1>8 DEF FinishGatherer
<1>9. CASE ClearRun
  <2>1. /\ \A t \in Task : task'[t] \in {"none", task[t]}
        /\ clears' = clears + 1
        /\ UNCHANGED <<xcom, job, ghosts, diskVars, results>>
    BY <1>9 DEF ClearRun
  <2>2. orphans' \subseteq 0..clears'
    BY <1>0, <2>1
  <2> QED BY <1>0, <2>1, <2>2
<1>13. CASE \E t \in Task : GiveUpTask(t)
  BY <1>0, <1>13 DEF GiveUpTask
<1>10. ASSUME NEW g \in ghosts, GhostReports(g) PROVE Folders'
  <2>1. g.task \in Task /\ g.job[Dispatcher] \in 0..made
    OBVIOUS
  <2>2. /\ ghosts' \subseteq ghosts /\ UNCHANGED <<job, task, clears>>
        /\ \/ MakeFolder /\ xcom' = [xcom EXCEPT ![Dispatcher] = made'] /\ results' = results
           \/ /\ UNCHANGED diskVars /\ xcom' = [xcom EXCEPT ![g.task] = g.job[Dispatcher]]
              /\ results' = results \/ results' = g.job[Dispatcher]
    BY <1>10 DEF GhostReports
  <2>3. CASE MakeFolder /\ xcom' = [xcom EXCEPT ![Dispatcher] = made'] /\ results' = results
    <3>1. xcom' \in [Task -> 0..made'] /\ results' \in 0..made'
      BY <1>0, <1>m, <2>3
    <3> QED BY <1>0, <1>m, <2>2, <2>3, <3>1, FoldersGrow
  <2>4. CASE /\ UNCHANGED diskVars /\ xcom' = [xcom EXCEPT ![g.task] = g.job[Dispatcher]]
             /\ results' = results \/ results' = g.job[Dispatcher]
    BY <1>0, <2>1, <2>2, <2>4
  <2> QED BY <2>2, <2>3, <2>4
<1>11. ASSUME NEW g \in ghosts, GhostEnds(g) PROVE Folders'
  <2>1. /\ ghosts' \subseteq ghosts /\ orphans' \subseteq orphans \cup {clears}
        /\ UNCHANGED <<task, xcom, job, tmp, undeleted, made, clears, results>>
    BY <1>11 DEF GhostEnds, AbandonFolder
  <2>2. orphans' \subseteq 0..clears
    BY <1>0, <2>1
  <2> QED BY <2>1, <2>2
<1>12. CASE EndRun \/ CallbackStep \/ StopTasks \/ RemoveTmpData \/ UNCHANGED vars
  <2>1. /\ UNCHANGED <<task, job, made, orphans, results, clears, ghosts>>
        /\ xcom' = xcom \/ xcom' = Nothing
        /\ tmp' \subseteq tmp /\ undeleted' \subseteq undeleted \cup tmp
    BY <1>12, OtherSteps
  <2> QED BY <1>n, <2>1
<1> QED
  BY <1>1, <1>2, <1>3, <1>4, <1>5, <1>6, <1>7, <1>8, <1>9, <1>10, <1>11, <1>12, <1>13
  DEF Next, TaskStep, FinishTask, CancelStep

LEMMA ControlGoesOn == Counters /\ Control /\ [Next]_vars => Control'
<1> SUFFICES ASSUME Counters, Control, [Next]_vars PROVE Control'
  OBVIOUS
<1> USE DEF Control
<1>1. CASE \E t \in Task : TaskStep(t)
  BY <1>1 DEF TaskStep, StartDispatcher, StartTask, FinishTask, FinishDispatcher,
              FailDispatcher, FinishStep, FinishGatherer, FailTask, GiveUpTask
<1>2. CASE EndRun
  BY <1>2 DEF EndRun, Outcome, Counters
<1>3. CASE ClearRun
  BY <1>3 DEF ClearRun
<1>4. CASE CallbackStep
  <2>1. /\ requests # <<>>
        /\ requests' = requests \/ (callback' = "idle" /\ requests' = Tail(requests))
        /\ callback' \in {"idle", "results", "clean_up", "clear_xcom"}
        /\ UNCHANGED <<workflow, edges, keep, dagrun, cancel>>
    BY <1>4 DEF CallbackStep, ReportProgress, ReportResults, CleanUp, ClearXcom
  <2>2. Tail(requests) \in Seq([outcome : {"success", "failed"}, clears : 0..MaxClears])
    BY <2>1
  <2> QED BY <2>1, <2>2
<1>5. CASE StopTasks \/ CancelStep \/ UNCHANGED vars
  BY <1>5 DEF StopTasks, CancelStep, StopTask, RemoveTmpData, NoCancel
<1>6. CASE \E g \in ghosts : GhostReports(g) \/ GhostEnds(g)
  BY <1>6 DEF GhostReports, GhostEnds
<1> QED
  BY <1>1, <1>2, <1>3, <1>4, <1>5, <1>6 DEF Next

LEMMA FlagsGoOn == Flags /\ [Next]_vars => Flags'
<1> SUFFICES ASSUME Flags, [Next]_vars PROVE Flags'
  OBVIOUS
<1>1. given' = given
  BY DEF Next, TaskStep, StartDispatcher, StartTask, FinishTask, FinishDispatcher,
         FailDispatcher, FinishStep, FinishGatherer, FailTask, GiveUpTask, EndRun,
         CallbackStep, ReportProgress, ReportResults, CleanUp, ClearXcom, ClearRun, StopTasks,
         CancelStep, StopTask, RemoveTmpData, GhostReports, GhostEnds
<1>2. crossed' = crossed \/ crossed' = (crossed \/ ghosts # {})
  BY DEF Next, TaskStep, StartDispatcher, StartTask, FinishTask, FinishDispatcher,
         FailDispatcher, FinishStep, FinishGatherer, FailTask, GiveUpTask, EndRun,
         CallbackStep, ReportProgress, ReportResults, CleanUp, ClearXcom, ClearRun, StopTasks,
         CancelStep, StopTask, RemoveTmpData, GhostReports, GhostEnds
<1> QED BY <1>1, <1>2 DEF Flags

LEMMA TypeInvariance == Spec => []TypeInv
<1>1. TypeInv /\ [Next]_vars => TypeInv'
  BY CountersGoOn, FoldersGoOn, ControlGoesOn, FlagsGoOn DEF TypeInv
<1> QED BY <1>1, TypeStarts, PTL DEF Spec

\* Everything stays within its type, and a running task has a folder.
THEOREM TypeCorrect == Spec => []TypeOK
<1>1. TypeInv => TypeOK
  <2> SUFFICES ASSUME TypeInv PROVE TypeOK
    OBVIOUS
  <2>1. made \in {0} \cup Folder /\ 0..made \subseteq {0} \cup Folder
    BY Bounds DEF TypeInv, Counters, Folder
  <2>2. xcom \in Collected /\ job \in [Task -> Collected]
    BY <2>1 DEF TypeInv, Folders, Collected
  <2>3. clears \in 0..MaxClears /\ orphans \subseteq 0..MaxClears
    BY Bounds DEF TypeInv, Counters, Folders
  <2>4. ghosts \subseteq [task : Task, job : Collected]
    BY <2>1 DEF TypeInv, Folders, Collected
  <2> QED BY <2>1, <2>2, <2>3, <2>4 DEF TypeInv, Counters, Folders, Control, Flags, TypeOK
<1> QED BY <1>1, TypeInvariance, PTL

-----------------------------------------------------------------------------
(* The edges of the DAG *)

LEMMA EdgesOfTasks ==
    ASSUME NEW w \in Workflow
    PROVE  Assemble(w) \subseteq Task \X Task
<1>1. \A s \in Step : StepEdges(w, s, Step) \subseteq Task \X Task
  BY Tasks DEF StepEdges, TaskOf
<1>2. OutputEdges(w, Step) \subseteq Task \X Task
  BY Tasks DEF OutputEdges, TaskOf
<1>3. SourceEdges(w) \subseteq Task \X Task
  BY <1>1, <1>2 DEF SourceEdges
<1>4. GatheredEdges(w) \subseteq Task \X Task
  BY <1>3, Tasks DEF GatheredEdges, LeafEdges
<1> QED BY <1>4, Tasks DEF Assemble, RootEdges

\* What a task needs comes from tasks that it waits for.
LEMMA NeedsAreUpstream ==
    ASSUME NEW w \in Workflow, NEW t \in Task \ {Dispatcher},
           NEW s \in IF t = Gatherer THEN w.outs \cap Step ELSE Producers(w, t)
    PROVE  <<s, t>> \in Assemble(w)
<1>1. s \in Step /\ s # NoSource
  BY TasksAssumption DEF Producers
<1>2. CASE t = Gatherer
  <2>1. <<s, t>> \in OutputEdges(w, Step)
    BY <1>1, <1>2 DEF OutputEdges, TaskOf
  <2> QED BY <2>1 DEF Assemble, GatheredEdges, SourceEdges
<1>3. CASE t \in Step
  <2>1. s \in w.ins[t]
    BY <1>3, Tasks DEF Producers
  <2>2. <<s, t>> \in StepEdges(w, t, Step)
    BY <1>1, <2>1 DEF StepEdges, TaskOf
  <2> QED BY <1>3, <2>2 DEF Assemble, GatheredEdges, SourceEdges
<1> QED BY <1>2, <1>3 DEF Task

LEMMA BeforeSelf ==
    ASSUME NEW e, NEW t \in Task PROVE t \in Before(e, t)
BY DEF Before

\* What is before a task, and not it, is before one of those it waits for.
LEMMA BeforeUpstream ==
    ASSUME NEW e \in SUBSET (Task \X Task), NEW t \in Task, NEW u \in Before(e, t), u # t
    PROVE  \E v \in Task : <<v, t>> \in e /\ u \in Before(e, v)
<1> DEFINE closed(S) == \A x \in e : x[2] \in S => x[1] \in S
           without == {x \in Task : u \notin Before(e, x)}
<1> SUFFICES ASSUME \A v \in Task : <<v, t>> \in e => u \notin Before(e, v)
             PROVE  FALSE
  OBVIOUS
<1>1. u \in Task
  BY DEF Before
<1>2. closed(without \cup {t})
  <2> SUFFICES ASSUME NEW x \in e, x[2] \in without \cup {t}
               PROVE  x[1] \in without \cup {t}
    OBVIOUS
  <2>1. x[1] \in Task /\ x[2] \in Task /\ x = <<x[1], x[2]>>
    OBVIOUS
  <2>2. CASE x[2] = t
    BY <2>1, <2>2
  <2>3. CASE u \notin Before(e, x[2])
    <3>1. PICK S \in SUBSET Task : x[2] \in S /\ closed(S) /\ u \notin S
      BY <1>1, <2>1, <2>3 DEF Before
    <3>2. x[1] \in S
      BY <3>1
    <3>3. u \notin Before(e, x[1])
      BY <3>1, <3>2 DEF Before
    <3> QED BY <2>1, <3>3
  <2> QED BY <2>2, <2>3
<1>3. u \in without \cup {t}
  <2>1. without \cup {t} \in SUBSET Task
    OBVIOUS
  <2>2. \A S \in SUBSET Task : t \in S /\ closed(S) => u \in S
    BY DEF Before
  <2> HIDE DEF without, closed
  <2> QED BY <1>2, <2>1, <2>2
<1> QED BY <1>1, <1>3, BeforeSelf

LEMMA BeforeTransitive ==
    ASSUME NEW e, NEW t \in Task, NEW u \in Before(e, t)
    PROVE  Before(e, u) \subseteq Before(e, t)
BY DEF Before

-----------------------------------------------------------------------------
(* Reports of an earlier execution are never taken for fresh ones *)

Done == {"success", "skipped"}

After == {t \in Task \ {Dispatcher} : Dispatcher \in Before(edges, t)}

\* No task is under way in a run that has ended.
Quiet == dagrun # "running" => \A t \in Task : task[t] \in Finished

\* What is behind the dispatcher has run after it, in the folder that it made last,
\* as long as its XCom has not been cleared.  A process of it that was stopped may still
\* make another one, and nothing behind it has started then.
FromDispatcher ==
    \A t \in After :
        /\ task[Dispatcher] \in {"none", "running"} \/ DispatcherGhost \in ghosts
              => task[t] \notin Done \cup {"running"}
        /\ task[t] \in Done /\ xcom[Dispatcher] # 0 => xcom[t] = xcom[Dispatcher]
        /\ task[t] = "running" /\ xcom[Dispatcher] # 0 => job[t][Dispatcher] = xcom[Dispatcher]

\* The task of a process that was stopped has not been started again.
GhostsFailed == \A g \in ghosts : task[g.task] = "failed"

\* FreshInputs, if no process outlived a clearing.
InputsFresh ==
    \A t \in Task \ {Dispatcher} : task[t] = "running" =>
        \A s \in Needs(t) :
            Dispatcher \in Before(edges, s) => job[t][s] = job[t][Dispatcher]

Fresh == Quiet /\ (~crossed => FromDispatcher /\ GhostsFailed /\ InputsFresh)

LEMMA QuietGoesOn == TypeInv /\ Quiet /\ [Next]_vars => Quiet'
<1> SUFFICES ASSUME TypeInv, Quiet, [Next]_vars PROVE Quiet'
  OBVIOUS
<1>0. task \in [Task -> TaskState]
  BY DEF TypeInv, Counters
<1> USE <1>0, Tasks DEF Quiet, Finished, TaskState
<1>1. CASE StartDispatcher \/ FinishDispatcher \/ FailDispatcher
  BY <1>1 DEF StartDispatcher, FinishDispatcher, FailDispatcher
<1>2. ASSUME NEW t \in Task, StartTask(t) \/ FailTask(t) \/ GiveUpTask(t) \/ StopTask(t)
      PROVE  Quiet'
  BY <1>2 DEF StartTask, FailTask, GiveUpTask, StopTask
<1>3. ASSUME NEW s \in Step, NEW outcome \in {"success", "skipped"}, FinishStep(s, outcome)
      PROVE  Quiet'
  BY <1>3 DEF FinishStep
<1>4. CASE FinishGatherer
  BY <1>4 DEF FinishGatherer
<1>5. CASE ClearRun \/ EndRun
  BY <1>5 DEF ClearRun, EndRun
<1>6. CASE CallbackStep
  BY <1>6 DEF CallbackStep, ReportProgress, ReportResults, CleanUp, ClearXcom
<1>7. CASE StopTasks \/ RemoveTmpData \/ UNCHANGED vars
  BY <1>7 DEF StopTasks, RemoveTmpData
<1>8. CASE \E g \in ghosts : GhostReports(g) \/ GhostEnds(g)
  BY <1>8 DEF GhostReports, GhostEnds
<1> QED
  BY <1>1, <1>2, <1>3, <1>4, <1>5, <1>6, <1>7, <1>8
  DEF Next, TaskStep, FinishTask, CancelStep

LEMMA CrossedStays == [Next]_vars /\ crossed => crossed'
BY DEF Next, TaskStep, StartDispatcher, StartTask, FinishTask, FinishDispatcher,
       FailDispatcher, FinishStep, FinishGatherer, FailTask, GiveUpTask, EndRun, CallbackStep,
       ReportProgress, ReportResults, CleanUp, ClearXcom, ClearRun, StopTasks, CancelStep,
       StopTask, RemoveTmpData, GhostReports, GhostEnds

LEMMA TasksCleared ==
    ASSUME ClearRun
    PROVE  \E S \in SUBSET Task :
              task' = [t \in Task |-> IF Before(edges, t) \cap S # {} THEN "none" ELSE task[t]]
BY DEF ClearRun

\* A task that starts behind the dispatcher finds it done, and so is its process.
LEMMA DispatcherDone ==
    ASSUME TypeInv, FromDispatcher, GhostsFailed, NEW t \in After, Triggered(t)
    PROVE  task[Dispatcher] \notin {"none", "running"} /\ DispatcherGhost \notin ghosts
<1>1. edges \in SUBSET (Task \X Task)
  BY EdgesOfTasks, RunAssumption DEF TypeInv, Control
<1>2. PICK v \in Task : <<v, t>> \in edges /\ Dispatcher \in Before(edges, v)
  BY <1>1, BeforeUpstream DEF After
<1>3. task[v] \in Done
  BY <1>2 DEF Triggered, Upstream, Done
<1>4. DispatcherGhost \in ghosts => task[Dispatcher] = "failed"
  BY DEF GhostsFailed, DispatcherGhost
<1> QED BY <1>2, <1>3, <1>4 DEF FromDispatcher, After, Done

LEMMA FreshGoesOn ==
    TypeInv /\ Fresh /\ [Next]_vars
        => (~crossed => FromDispatcher /\ GhostsFailed /\ InputsFresh)'
<1> SUFFICES ASSUME TypeInv, Fresh, [Next]_vars, ~crossed'
             PROVE  (FromDispatcher /\ GhostsFailed /\ InputsFresh)'
  OBVIOUS
<1>0. /\ task \in [Task -> TaskState]
      /\ xcom \in [Task -> 0..made]
      /\ job \in [Task -> [Task -> 0..made]]
      /\ \A g \in ghosts : g.task \in Task /\ (g.task = Dispatcher => g = DispatcherGhost)
  BY DEF TypeInv, Counters, Folders
<1>x. ~crossed
  BY CrossedStays
<1>y. ClearRun => ghosts = {}
  BY DEF ClearRun
<1>a. workflow' = workflow /\ edges' = edges
  BY DEF Next, TaskStep, StartDispatcher, StartTask, FinishTask, FinishDispatcher,
         FailDispatcher, FinishStep, FinishGatherer, FailTask, GiveUpTask, EndRun,
         CallbackStep, ReportProgress, ReportResults, CleanUp, ClearXcom, ClearRun, StopTasks,
         CancelStep, StopTask, RemoveTmpData, GhostReports, GhostEnds
<1>b. After' = After /\ \A t \in Task : Needs(t)' = Needs(t)
  BY <1>a DEF After, Needs
<1>c. \A t \in Task \ {Dispatcher} : \A s \in Needs(t) : s \in Step
  BY DEF Needs, Producers
<1>d. \A t \in After : t \in Task \ {Dispatcher}
  BY DEF After
<1>e. DispatcherGhost.task = Dispatcher
  BY DEF DispatcherGhost
<1>f. FromDispatcher /\ GhostsFailed /\ InputsFresh
  BY <1>x DEF Fresh
<1> USE <1>0, <1>a, <1>b, <1>c, <1>d, <1>f, Tasks
    DEF FromDispatcher, GhostsFailed, InputsFresh
<1>1. CASE StartDispatcher
  BY <1>1 DEF StartDispatcher, Done
<1>2. CASE FinishDispatcher \/ FailDispatcher
  BY <1>2, <1>e DEF FinishDispatcher, FailDispatcher
<1>3. ASSUME NEW t \in Task, StartTask(t)
      PROVE  (FromDispatcher /\ GhostsFailed /\ InputsFresh)'
  <2>1. t \in After => /\ task[Dispatcher] \notin {"none", "running"}
                       /\ DispatcherGhost \notin ghosts
    BY <1>3, DispatcherDone DEF StartTask
  <2>2. FromDispatcher'
    BY <1>3, <2>1 DEF StartTask, Done
  <2>3. ASSUME NEW s \in Needs(t), task'[t] = "running", Dispatcher \in Before(edges, s)
        PROVE  job'[t][s] = job'[t][Dispatcher]
    <3>1. <<s, t>> \in edges
      BY <1>3, NeedsAreUpstream, RunAssumption
      DEF StartTask, Needs, TypeInv, Control
    <3>2. s \in After /\ task[s] \in Done /\ s # t
      BY <1>3, <2>3, <3>1 DEF StartTask, Triggered, Upstream, Done, After
    <3>3. xcom[Dispatcher] # 0 /\ job'[t] = xcom' /\ xcom' = [xcom EXCEPT ![t] = 0]
      BY <1>3, <2>3 DEF StartTask
    <3>4. t # Dispatcher
      BY <1>3 DEF StartTask
    <3> QED BY <3>2, <3>3, <3>4
  <2>4. InputsFresh'
    BY <1>3, <2>3 DEF StartTask
  <2>5. GhostsFailed'
    BY <1>3 DEF StartTask
  <2> QED BY <2>2, <2>4, <2>5
<1>4. ASSUME NEW s \in Step, NEW outcome \in {"success", "skipped"}, FinishStep(s, outcome)
      PROVE  (FromDispatcher /\ GhostsFailed /\ InputsFresh)'
  BY <1>4 DEF FinishStep, Done
<1>5. CASE FinishGatherer
  BY <1>5 DEF FinishGatherer, Done
<1>6. ASSUME NEW t \in Task, FailTask(t) \/ GiveUpTask(t)
      PROVE  (FromDispatcher /\ GhostsFailed /\ InputsFresh)'
  BY <1>6 DEF FailTask, GiveUpTask, Done
<1>7. ASSUME NEW t \in Task, StopTask(t)
      PROVE  (FromDispatcher /\ GhostsFailed /\ InputsFresh)'
  <2> DEFINE g == [task |-> t, job |-> job[t]]
  <2>1. g.task = t
    OBVIOUS
  <2>2. /\ task' = [task EXCEPT ![t] = "failed"] /\ job' = [job EXCEPT ![t] = Nothing]
        /\ ghosts' = IF task[t] = "running" THEN ghosts \cup {g} ELSE ghosts
        /\ xcom' = xcom
    BY <1>7 DEF StopTask
  <2> HIDE DEF g
  <2>3. GhostsFailed'
    BY <2>1, <2>2
  <2>4. FromDispatcher'
    BY <1>e, <2>1, <2>2 DEF Done
  <2>5. InputsFresh'
    BY <2>2
  <2> QED BY <2>3, <2>4, <2>5
<1>8. CASE ClearRun
  <2>1. PICK S \in SUBSET Task :
           task' = [t \in Task |-> IF Before(edges, t) \cap S # {} THEN "none" ELSE task[t]]
    BY <1>8, TasksCleared
  <2>2. /\ UNCHANGED <<xcom, job, ghosts>> /\ ghosts = {}
        /\ \A t \in Task : task[t] \notin {"none", "running"}
    BY <1>8, <1>y DEF ClearRun, Fresh, Quiet, Finished
  <2>3. ASSUME NEW t \in After, task'[Dispatcher] \in {"none", "running"}
        PROVE  task'[t] = "none"
    <3>1. Before(edges, Dispatcher) \cap S # {}
      BY <2>1, <2>2, <2>3
    <3>2. Before(edges, Dispatcher) \subseteq Before(edges, t)
      BY BeforeTransitive DEF After
    <3> QED BY <2>1, <3>1, <3>2
  <2> QED BY <2>1, <2>2, <2>3 DEF Done
<1>9. CASE EndRun \/ CallbackStep \/ StopTasks \/ RemoveTmpData \/ UNCHANGED vars
  <2>1. UNCHANGED <<task, job, ghosts>> /\ (xcom' = xcom \/ xcom' = Nothing)
    BY <1>9, OtherSteps
  <2> QED BY <2>1 DEF Nothing
<1>10. ASSUME NEW g \in ghosts, GhostReports(g) \/ GhostEnds(g)
       PROVE  (FromDispatcher /\ GhostsFailed /\ InputsFresh)'
  <2>1. /\ ghosts' = ghosts \ {g} /\ UNCHANGED <<task, job>>
        /\ \A t \in Task \ {g.task} : xcom'[t] = xcom[t]
    BY <1>10 DEF GhostReports, GhostEnds
  <2>2. task[g.task] = "failed"
    OBVIOUS
  <2>3. g.task = Dispatcher => \A t \in After : task[t] \notin Done \cup {"running"}
    OBVIOUS
  <2> QED BY <2>1, <2>2, <2>3 DEF Done
<1> QED
  BY <1>1, <1>2, <1>3, <1>4, <1>5, <1>6, <1>7, <1>8, <1>9, <1>10
  DEF Next, TaskStep, FinishTask, CancelStep

LEMMA FreshInvariance == Spec => []Fresh
<1>1. Init => Fresh
  BY Tasks DEF Init, Fresh, Quiet, FromDispatcher, GhostsFailed, InputsFresh, After, Done
<1>2. TypeInv /\ Fresh /\ [Next]_vars => Fresh'
  BY QuietGoesOn, FreshGoesOn DEF Fresh
<1> QED BY <1>1, <1>2, TypeInvariance, PTL DEF Spec

\* A task takes reports of one execution only, in every workflow, whether the job brings
\* its folder or not, and however often the run is cleared and cancelled, also while its
\* callback or a process that was stopped is running, as long as no such process is left
\* when the run is cleared.
THEOREM InputsAreFresh == Spec => []FreshInputs
<1>1. Fresh => FreshInputs
  BY DEF Fresh, InputsFresh, FreshInputs
<1> QED BY <1>1, FreshInvariance, PTL

-----------------------------------------------------------------------------
(* The end of a run, if it is not cancelled and is cleared only when its   *)
(* callback is over (as in the run of two steps)                           *)

Orderly == MaxCancels = 0 /\ ~ClearEarly

Reported ==
    \E m \in posted : m.kind = "progress" /\ m.clears = clears /\ m.state = dagrun

\* There is one callback at most, and it is that of the run's present state; the
\* reports can be collected until it has removed them, and it has posted that state
\* as soon as it is past its first step.
Closing ==
    /\ cancel = NoCancel /\ ghosts = {}
    /\ requests # <<>> =>
          dagrun # "running" /\ requests = <<[outcome |-> dagrun, clears |-> clears]>>
    /\ callback # "clear_xcom" => CanCollect(xcom)
    /\ dagrun # "running" /\ (requests = <<>> \/ callback # "idle") => Reported

\* If the data are not to be kept, there is only the last folder of the dispatcher
\* besides those that could not be removed, and not even that when the callback is over.
Cleaning ==
    keep = "false" =>
        /\ tmp \subseteq {xcom[Dispatcher]} \cup undeleted
        /\ task[Dispatcher] \in {"none", "running"} => xcom[Dispatcher] = 0
        /\ callback = "clear_xcom" => tmp \subseteq undeleted
        /\ dagrun # "running" /\ requests = <<>> => tmp \subseteq undeleted /\ xcom = Nothing

\* If the dispatcher came to its end, mkdtemp made no folder without a name in this
\* execution, unless the job brings its own.
Named ==
    ~given => (clears \in orphans => task[Dispatcher] \notin {"none", "running", "success"})

LEMMA ClosingStarts == Init => Closing /\ Cleaning /\ Named
<1> SUFFICES ASSUME Init PROVE Closing /\ Cleaning /\ Named
  OBVIOUS
<1>1. Closing
  BY Tasks DEF Init, Closing, NoCancel, CanCollect, Nothing
<1>2. Cleaning
  BY Tasks DEF Init, Cleaning, Nothing
<1>3. Named
  BY DEF Init, Named
<1> QED BY <1>1, <1>2, <1>3

LEMMA ClosingGoesOn ==
    Orderly /\ TypeInv /\ Quiet /\ Closing /\ [Next]_vars => Closing'
<1> SUFFICES ASSUME Orderly, TypeInv, Quiet, Closing, [Next]_vars PROVE Closing'
  OBVIOUS
<1>0. /\ task \in [Task -> TaskState]
      /\ xcom \in [Task -> 0..made] /\ job \in [Task -> [Task -> 0..made]]
      /\ made \in Nat /\ clears \in Nat /\ cancels = 0
      /\ callback # "idle" => requests # <<>>
  BY DEF TypeInv, Counters, Folders, Control, Orderly
<1>a. dagrun = "running" => requests = <<>> /\ callback = "idle"
  BY <1>0 DEF Closing
<1>b. \A t \in Task : task[t] = "running" => dagrun = "running"
  BY DEF Quiet, Finished
<1> USE <1>0, Tasks DEF Closing, CanCollect
<1>1. CASE StartDispatcher
  BY <1>1 DEF StartDispatcher, Reported
<1>2. CASE FinishDispatcher \/ FailDispatcher
  BY <1>2, <1>a, <1>b DEF FinishDispatcher, FailDispatcher, MakeFolder, AbandonFolder
<1>3. ASSUME NEW t \in Task, StartTask(t) PROVE Closing'
  BY <1>3, <1>a DEF StartTask
<1>4. ASSUME NEW s \in Step, NEW outcome \in {"success", "skipped"}, FinishStep(s, outcome)
      PROVE  Closing'
  BY <1>4, <1>a, <1>b DEF FinishStep
<1>5. CASE FinishGatherer
  BY <1>5, <1>a, <1>b DEF FinishGatherer
<1>6. ASSUME NEW t \in Task, FailTask(t) \/ GiveUpTask(t) PROVE Closing'
  BY <1>6, <1>a, <1>b DEF FailTask, GiveUpTask
<1>7. CASE EndRun
  <2>1. requests' = <<[outcome |-> dagrun', clears |-> clears']>>
    BY <1>7, <1>a DEF EndRun
  <2>2. dagrun' # "running"
    BY <1>7 DEF EndRun, Outcome
  <2>3. UNCHANGED <<xcom, tmp, callback, cancel, ghosts>> /\ callback = "idle"
    BY <1>7, <1>a DEF EndRun
  <2> QED BY <2>1, <2>2, <2>3
<1>8. CASE ClearRun
  BY <1>8 DEF ClearRun, Orderly, Quiet, Finished
<1>9. CASE ReportProgress
  <2>1. callback = "idle" /\ CanCollect(xcom)
    BY <1>9 DEF ReportProgress
  <2>2. /\ posted' = posted \cup {[kind |-> "progress", state |-> dagrun, clears |-> clears]}
        /\ UNCHANGED <<dagrun, clears, requests, xcom, tmp, cancel, ghosts>>
        /\ callback' # "clear_xcom"
    BY <1>9, <2>1 DEF ReportProgress
  <2> DEFINE report == [kind |-> "progress", state |-> dagrun, clears |-> clears]
  <2>3. report \in posted' /\ report.kind = "progress" /\ report.clears = clears'
        /\ report.state = dagrun'
    BY <2>2
  <2>4. Reported'
    BY <2>3 DEF Reported
  <2> QED BY <2>1, <2>2, <2>4
<1>10. CASE ReportResults
  <2>1. /\ UNCHANGED <<dagrun, clears, requests, xcom, tmp, cancel, ghosts>>
        /\ posted \subseteq posted' /\ callback = "results" /\ callback' = "clean_up"
    BY <1>10 DEF ReportResults
  <2>2. Reported => Reported'
    BY <2>1 DEF Reported
  <2> QED BY <2>1, <2>2
<1>11. CASE CleanUp \/ ClearXcom
  <2>1. requests = <<[outcome |-> dagrun, clears |-> clears]>> /\ dagrun # "running"
        /\ Reported
    BY <1>11 DEF CleanUp, ClearXcom
  <2>2. Tail(requests) = <<>>
    BY <2>1
  <2>3. /\ UNCHANGED <<dagrun, clears, posted, cancel, ghosts>>
        /\ requests' = requests \/ requests' = <<>>
    BY <1>11, <2>2 DEF CleanUp, ClearXcom
  <2>4. callback' # "clear_xcom" => CanCollect(xcom)'
    BY <1>11 DEF CleanUp, ClearXcom, Nothing
  <2>5. Reported'
    BY <2>1, <2>3 DEF Reported
  <2> QED BY <2>1, <2>3, <2>4, <2>5
<1>12. CASE StopTasks \/ CancelStep
  BY <1>12 DEF StopTasks, CancelStep, StopTask, RemoveTmpData, NoCancel, Orderly
<1>13. CASE UNCHANGED vars
  BY <1>13 DEF Reported
<1>14. CASE \E g \in ghosts : GhostReports(g) \/ GhostEnds(g)
  BY <1>14
<1> QED
  BY <1>1, <1>2, <1>3, <1>4, <1>5, <1>6, <1>7, <1>8, <1>9, <1>10, <1>11, <1>12, <1>13,
     <1>14
  DEF Next, TaskStep, FinishTask, CallbackStep

LEMMA CleaningGoesOn ==
    Orderly /\ TypeInv /\ Quiet /\ Closing /\ Cleaning /\ [Next]_vars => Cleaning'
<1> SUFFICES ASSUME Orderly, TypeInv, Quiet, Closing, Cleaning, [Next]_vars
             PROVE  Cleaning'
  OBVIOUS
<1>0. /\ task \in [Task -> TaskState] /\ xcom \in [Task -> 0..made]
      /\ tmp \subseteq 1..made /\ made \in Nat /\ cancels = 0
      /\ callback # "idle" => requests # <<>>
  BY DEF TypeInv, Counters, Folders, Control, Orderly
<1>a. dagrun = "running" => requests = <<>> /\ callback = "idle"
  BY <1>0 DEF Closing
<1>b. \A t \in Task : task[t] = "running" => dagrun = "running"
  BY DEF Quiet, Finished
<1> USE <1>0, Tasks DEF Cleaning
<1>1. CASE StartDispatcher
  BY <1>1, <1>a DEF StartDispatcher
<1>2. CASE FinishDispatcher \/ FailDispatcher
  <2>1. /\ task[Dispatcher] = "running" /\ dagrun = "running"
        /\ task'[Dispatcher] \notin {"none", "running"}
        /\ UNCHANGED <<keep, dagrun, requests, callback>>
    BY <1>2, <1>b DEF FinishDispatcher, FailDispatcher
  <2>2. \/ UNCHANGED <<tmp, undeleted, xcom>>
        \/ /\ made' = made + 1 /\ tmp' = tmp \cup {made'} /\ undeleted' = undeleted
           /\ xcom' = [xcom EXCEPT ![Dispatcher] = made']
    BY <1>2 DEF FinishDispatcher, FailDispatcher, MakeFolder, AbandonFolder
  <2>3. callback = "idle" /\ (keep = "false" => xcom[Dispatcher] = 0 /\ tmp \subseteq undeleted)
    BY <1>a, <2>1
  <2> QED BY <2>1, <2>2, <2>3
<1>3. ASSUME NEW t \in Task, StartTask(t) PROVE Cleaning'
  BY <1>3, <1>a DEF StartTask
<1>4. ASSUME NEW s \in Step, NEW outcome \in {"success", "skipped"}, FinishStep(s, outcome)
      PROVE  Cleaning'
  BY <1>4, <1>a, <1>b DEF FinishStep
<1>5. CASE FinishGatherer
  BY <1>5, <1>a, <1>b DEF FinishGatherer
<1>6. ASSUME NEW t \in Task, FailTask(t) \/ GiveUpTask(t) PROVE Cleaning'
  BY <1>6, <1>a, <1>b DEF FailTask, GiveUpTask
<1>7. CASE EndRun
  BY <1>7, <1>a DEF EndRun, Outcome
<1>8. CASE ClearRun
  BY <1>8 DEF ClearRun, Orderly, Nothing
<1>9. CASE ReportProgress \/ ReportResults
  BY <1>9 DEF ReportProgress, ReportResults, Closing
<1>10. CASE CleanUp
  BY <1>10 DEF CleanUp, CleanUpRaises, KeepTmpData, RemoveFolder, Without
<1>11. CASE ClearXcom
  BY <1>11 DEF ClearXcom, Nothing
<1>12. CASE StopTasks \/ CancelStep
  BY <1>12 DEF StopTasks, CancelStep, StopTask, RemoveTmpData, NoCancel, Orderly, Closing
<1>13. CASE UNCHANGED vars
  BY <1>13
<1>14. CASE \E g \in ghosts : GhostReports(g) \/ GhostEnds(g)
  BY <1>14 DEF Closing
<1> QED
  BY <1>1, <1>2, <1>3, <1>4, <1>5, <1>6, <1>7, <1>8, <1>9, <1>10, <1>11, <1>12, <1>13,
     <1>14
  DEF Next, TaskStep, FinishTask, CallbackStep

LEMMA NamedGoesOn == TypeInv /\ Closing /\ Named /\ [Next]_vars => Named'
<1> SUFFICES ASSUME TypeInv, Closing, Named, [Next]_vars, ~given',
                    clears' \in orphans'
             PROVE  task'[Dispatcher] \notin {"none", "running", "success"}
  BY DEF Named
<1>1. given' = given
  BY DEF Next, TaskStep, StartDispatcher, StartTask, FinishTask, FinishDispatcher,
         FailDispatcher, FinishStep, FinishGatherer, FailTask, GiveUpTask, EndRun,
         CallbackStep, ReportProgress, ReportResults, CleanUp, ClearXcom, ClearRun, StopTasks,
         CancelStep, StopTask, RemoveTmpData, GhostReports, GhostEnds
<1>2. clears \in orphans => task[Dispatcher] \notin {"none", "running", "success"}
  BY <1>1 DEF Named
<1>3. /\ task \in [Task -> TaskState] /\ clears \in Nat /\ orphans \subseteq 0..clears
      /\ MakeFolder => orphans' = orphans
  BY <1>1 DEF TypeInv, Counters, Folders, MakeFolder
<1> USE <1>2, <1>3, Tasks
<1>4. CASE StartDispatcher
  BY <1>4 DEF StartDispatcher
<1>5. CASE FinishDispatcher \/ FailDispatcher
  BY <1>5 DEF FinishDispatcher, FailDispatcher
<1>6. ASSUME NEW t \in Task, StartTask(t) \/ FailTask(t) \/ GiveUpTask(t)
      PROVE  task'[Dispatcher] \notin {"none", "running", "success"}
  BY <1>6 DEF StartTask, FailTask, GiveUpTask
<1>7. ASSUME NEW s \in Step, NEW outcome \in {"success", "skipped"}, FinishStep(s, outcome)
      PROVE  task'[Dispatcher] \notin {"none", "running", "success"}
  BY <1>7 DEF FinishStep
<1>8. CASE FinishGatherer
  BY <1>8 DEF FinishGatherer
<1>9. CASE ClearRun
  <2>1. clears' = clears + 1 /\ orphans' = orphans
    BY <1>9 DEF ClearRun
  <2> QED BY <2>1
<1>10. CASE EndRun \/ CallbackStep \/ StopTasks \/ RemoveTmpData \/ UNCHANGED vars
  BY <1>10, OtherSteps
<1>11. CASE \/ \E t \in Task : StopTask(t)
            \/ \E g \in ghosts : GhostReports(g) \/ GhostEnds(g)
  BY <1>11 DEF Closing, StopTask, NoCancel
<1> QED
  BY <1>4, <1>5, <1>6, <1>7, <1>8, <1>9, <1>10, <1>11
  DEF Next, TaskStep, FinishTask, CancelStep

LEMMA ClosingInvariance ==
    ASSUME Orderly PROVE Spec => [](Closing /\ Cleaning /\ Named)
<1>1. TypeInv /\ Fresh /\ Closing /\ Cleaning /\ Named /\ [Next]_vars
          => Closing' /\ Cleaning' /\ Named'
  BY ClosingGoesOn, CleaningGoesOn, NamedGoesOn DEF Fresh
<1> QED BY <1>1, ClosingStarts, TypeInvariance, FreshInvariance, PTL DEF Spec

\* The final state of a run has been posted when it has settled.
THEOREM EndIsReported == ASSUME Orderly PROVE Spec => []EndReported
<1>1. Closing /\ Cleaning => EndReported
  BY DEF Closing, Reported, EndReported, Settled
<1> QED BY <1>1, ClosingInvariance, PTL

\* When a run has settled that is not to keep its data, nothing is left of them but what
\* rmtree could not remove, and folders that no report names: of a dispatcher that failed
\* after mkdtemp, or of a job with a folder of its own.
THEOREM RunsAreCleanedUp == ASSUME Orderly PROVE Spec => []CleanedUp
<1>1. Closing /\ Cleaning /\ Named => CleanedUp
  BY DEF Cleaning, Named, CleanedUp, Settled
<1> QED BY <1>1, ClosingInvariance, PTL

-----------------------------------------------------------------------------
(* A run that ends well has its results (under the same conditions)        *)

\* Edges lead from steps and the dispatcher to steps and the gatherer, and those
\* between steps from producer to consumer.
LEMMA EdgesBetweenSteps ==
    ASSUME NEW w \in Workflow, NEW u, NEW t, <<u, t>> \in Assemble(w)
    PROVE  /\ u \in Step \cup {Dispatcher} /\ t \in Step \cup {Gatherer}
           /\ u \in Step /\ t \in Step => u \in Producers(w, t)
<1> USE TasksAssumption DEF Task
<1>1. CASE <<u, t>> \in OutputEdges(w, Step)
  BY <1>1 DEF OutputEdges, TaskOf
<1>2. ASSUME NEW s \in Step, <<u, t>> \in StepEdges(w, s, Step)
      PROVE  /\ u \in Step \cup {Dispatcher} /\ t = s
             /\ u \in Step => u \in Producers(w, s)
  BY <1>2 DEF StepEdges, TaskOf, Producers
<1>3. CASE <<u, t>> \in LeafEdges(SourceEdges(w)) \/ <<u, t>> \in RootEdges(GatheredEdges(w))
  BY <1>3 DEF LeafEdges, RootEdges
<1> QED BY <1>1, <1>2, <1>3 DEF Assemble, GatheredEdges, SourceEdges

\* Of some steps of an acyclic workflow, one is read by none of the others.
LEMMA LastStep ==
    ASSUME NEW w \in Workflow, Acyclic(w),
           NEW S \in SUBSET Step, IsFiniteSet(S), S # {}
    PROVE  \E s \in S : \A t \in S : s \notin Producers(w, t)
<1> DEFINE HasLast(T) == \E s \in T : \A t \in T : s \notin Producers(w, t)
           without == {T \in FiniteSubsetsOf(S) : T # {} /\ ~HasLast(T)}
<1> SUFFICES ASSUME ~HasLast(S) PROVE FALSE
  OBVIOUS
<1>1. without \subseteq FiniteSubsetsOf(S) /\ S \in without
  BY DEF FiniteSubsetsOf
<1>2. PICK T \in without : \A U \in without : <<U, T>> \notin StrictSubsetOrdering(S)
  <2> HIDE DEF without
  <2> QED BY <1>1, FS_StrictSubsetOrderingWellFounded, WFMin
<1>3. T \in SUBSET S /\ IsFiniteSet(T) /\ T # {} /\ ~HasLast(T)
  BY DEF FiniteSubsetsOf
<1>4. PICK first \in T : Producers(w, first) \cap T = {}
  BY <1>3 DEF Acyclic
<1>5. PICK t \in T : first \in Producers(w, t)
  BY <1>3
<1> DEFINE U == T \ {first}
<1>6. U # {} /\ U \in FiniteSubsetsOf(S) /\ U # T
  BY <1>3, <1>4, <1>5, FS_RemoveElement DEF FiniteSubsetsOf
<1>7. HasLast(U)
  <2>1. <<U, T>> \in StrictSubsetOrdering(S)
    BY <1>3, <1>6 DEF StrictSubsetOrdering
  <2> HIDE DEF U, HasLast
  <2> QED BY <1>2, <1>6, <2>1
<1>8. PICK s \in U : \A v \in U : s \notin Producers(w, v)
  BY <1>7
<1>9. s \notin Producers(w, first)
  BY <1>4, <1>8
<1> QED BY <1>3, <1>8, <1>9

\* The workflows of TLC's runs: finite ones, in which no step waits for itself.
Sensible == IsFiniteSet(Step) /\ \A w \in Workflows : Acyclic(w)

\* Nothing is before the dispatcher, or behind the gatherer.
LEMMA Ends ==
    ASSUME TypeInv
    PROVE  /\ Before(edges, Dispatcher) = {Dispatcher}
           /\ ~HasDownstream(edges, Gatherer)
<1>1. workflow \in Workflow /\ edges = Assemble(workflow)
  BY RunAssumption DEF TypeInv, Control
<1>2. edges \in SUBSET (Task \X Task)
  BY <1>1, EdgesOfTasks
<1>3. ASSUME NEW u \in Before(edges, Dispatcher), u # Dispatcher PROVE FALSE
  <2>1. PICK v \in Task : <<v, Dispatcher>> \in edges
    BY <1>2, <1>3, BeforeUpstream, Tasks
  <2> QED BY <1>1, <2>1, EdgesBetweenSteps, Tasks
<1>4. ~HasDownstream(edges, Gatherer)
  BY <1>1, EdgesBetweenSteps, Tasks DEF HasDownstream
<1> QED BY <1>3, <1>4, BeforeSelf, Tasks

\* Whatever has started comes after what has been done.
UpstreamDone ==
    \A u, t \in Task :
        <<u, t>> \in edges /\ task[t] \in Done \cup {"running"} => task[u] \in Done

LEMMA UpstreamDoneGoesOn ==
    Orderly /\ TypeInv /\ Closing /\ UpstreamDone /\ [Next]_vars => UpstreamDone'
<1> SUFFICES ASSUME Orderly, TypeInv, Closing, UpstreamDone, [Next]_vars PROVE UpstreamDone'
  OBVIOUS
<1>0. /\ task \in [Task -> TaskState] 
      /\ edges \in SUBSET (Task \X Task)
  BY EdgesOfTasks, RunAssumption DEF TypeInv, Counters, Control, Orderly
<1> USE <1>0, Tasks DEF UpstreamDone, Done
<1>1. CASE StartDispatcher
  BY <1>1 DEF StartDispatcher, Triggered, Upstream
<1>2. CASE FinishDispatcher \/ FailDispatcher
  BY <1>2 DEF FinishDispatcher, FailDispatcher
<1>3. ASSUME NEW t \in Task, StartTask(t) PROVE UpstreamDone'
  BY <1>3 DEF StartTask, Triggered, Upstream
<1>4. ASSUME NEW s \in Step, NEW outcome \in {"success", "skipped"}, FinishStep(s, outcome)
      PROVE  UpstreamDone'
  BY <1>4 DEF FinishStep
<1>5. CASE FinishGatherer
  BY <1>5 DEF FinishGatherer
<1>6. ASSUME NEW t \in Task, FailTask(t) \/ GiveUpTask(t) PROVE UpstreamDone'
  BY <1>6 DEF FailTask, GiveUpTask
<1>7. CASE ClearRun
  <2>1. PICK S \in SUBSET Task :
           task' = [t \in Task |-> IF Before(edges, t) \cap S # {} THEN "none" ELSE task[t]]
    BY <1>7 DEF ClearRun
  <2>2. ASSUME NEW u \in Task, NEW t \in Task, <<u, t>> \in edges
        PROVE  Before(edges, u) \subseteq Before(edges, t)
    BY <2>2 DEF Before
  <2>3. edges' = edges
    BY <1>7 DEF ClearRun
  <2> QED BY <2>1, <2>2, <2>3
<1>8. CASE EndRun \/ CallbackStep \/ StopTasks \/ RemoveTmpData \/ UNCHANGED vars
  BY <1>8, OtherSteps
<1>9. CASE \/ \E t \in Task : StopTask(t)
            \/ \E g \in ghosts : GhostReports(g) \/ GhostEnds(g)
  BY <1>9 DEF Closing, StopTask, NoCancel
<1> QED
  BY <1>1, <1>2, <1>3, <1>4, <1>5, <1>6, <1>7, <1>8, <1>9
  DEF Next, TaskStep, FinishTask, CancelStep

\* Where XCom is cleared, a folder is named only after the dispatcher, and nothing
\* gets anywhere before it, or is running without its folder.
WithDispatcher ==
    keep = "false" =>
        /\ xcom[Dispatcher] # 0 => task[Dispatcher] = "success"
        /\ task[Dispatcher] # "success" =>
              \A t \in Task \ {Dispatcher} : task[t] \notin Done \cup {"running"}
        /\ xcom[Dispatcher] = 0 => \A t \in Task \ {Dispatcher} : task[t] # "running"

LEMMA WithDispatcherGoesOn ==
    Orderly /\ TypeInv /\ Quiet /\ Closing /\ Cleaning /\ WithDispatcher /\ [Next]_vars
        => WithDispatcher'
<1> SUFFICES ASSUME Orderly, TypeInv, Quiet, Closing, Cleaning, WithDispatcher, [Next]_vars
             PROVE  WithDispatcher'
  OBVIOUS
<1>0. /\ task \in [Task -> TaskState] /\ xcom \in [Task -> 0..made] /\ made \in Nat
      /\ callback # "idle" => requests # <<>>
  BY DEF TypeInv, Counters, Folders, Control
<1> USE <1>0, Tasks DEF WithDispatcher, Done
<1>1. CASE StartDispatcher
  BY <1>1 DEF StartDispatcher
<1>2. CASE FinishDispatcher \/ FailDispatcher
  BY <1>2 DEF FinishDispatcher, FailDispatcher, MakeFolder, Cleaning
<1>3. ASSUME NEW t \in Task, StartTask(t) PROVE WithDispatcher'
  BY <1>3 DEF StartTask
<1>4. ASSUME NEW s \in Step, NEW outcome \in {"success", "skipped"}, FinishStep(s, outcome)
      PROVE  WithDispatcher'
  BY <1>4 DEF FinishStep
<1>5. CASE FinishGatherer
  BY <1>5 DEF FinishGatherer
<1>6. ASSUME NEW t \in Task, FailTask(t) \/ GiveUpTask(t) PROVE WithDispatcher'
  BY <1>6 DEF FailTask, GiveUpTask, Cleaning
<1>7. CASE ClearRun
  <2>1. PICK S \in {Task, {t \in Task : task[t] \in {"failed", "upstream_failed"}}} :
           task' = [t \in Task |-> IF Before(edges, t) \cap S # {} THEN "none" ELSE task[t]]
    BY <1>7 DEF ClearRun
  <2>2. UNCHANGED <<xcom, keep>> /\ (keep = "false" => xcom = Nothing)
    BY <1>7 DEF ClearRun, Cleaning, Orderly
  <2>3. \A t \in Task : t \in Before(edges, t)
    BY BeforeSelf
  <2>4. CASE S = Task
    BY <2>1, <2>2, <2>3, <2>4 DEF Nothing
  <2>5. CASE S = {t \in Task : task[t] \in {"failed", "upstream_failed"}}
    <3>1. task[Dispatcher] = "success" => task'[Dispatcher] = "success"
      BY <2>1, <2>5, Ends
    <3>2. \A t \in Task : task'[t] \in {"none", task[t]}
      BY <2>1
    <3> QED BY <2>2, <3>1, <3>2 DEF Nothing
  <2> QED BY <2>1, <2>4, <2>5
<1>8. CASE EndRun \/ CallbackStep
  <2>1. UNCHANGED <<task, keep>> /\ (xcom' = xcom \/ (xcom' = Nothing /\ ClearXcom))
    BY <1>8 DEF EndRun, CallbackStep, ReportProgress, ReportResults, CleanUp, ClearXcom
  <2>2. ClearXcom => dagrun # "running"
    BY DEF ClearXcom, Closing
  <2> QED BY <2>1, <2>2 DEF Nothing, Quiet, Finished
<1>9. CASE StopTasks \/ RemoveTmpData \/ UNCHANGED vars
  BY <1>9 DEF StopTasks, RemoveTmpData
<1>10. CASE \/ \E t \in Task : StopTask(t)
            \/ \E g \in ghosts : GhostReports(g) \/ GhostEnds(g)
  BY <1>10 DEF Closing, StopTask, NoCancel
<1> QED
  BY <1>1, <1>2, <1>3, <1>4, <1>5, <1>6, <1>7, <1>8, <1>9, <1>10
  DEF Next, TaskStep, FinishTask, CancelStep

\* Some task has not been done; if all are over, one of the last ones has failed,
\* and the run with it.
LEMMA NotDoneFails ==
    ASSUME Sensible, TypeInv, UpstreamDone, task[Dispatcher] \in Done, task[Gatherer] \in Done,
           \A t \in Task : task[t] \in Finished, \E t \in Task : task[t] \notin Done
    PROVE  Outcome = "failed"
<1> DEFINE rest == {s \in Step : task[s] \notin Done}
<1>0. task \in [Task -> TaskState] /\ workflow \in Workflows /\ edges = Assemble(workflow)
  BY DEF TypeInv, Counters, Control
<1>1. rest \in SUBSET Step /\ rest # {} /\ IsFiniteSet(rest)
  BY FS_Subset DEF Sensible, Task
<1>2. workflow \in Workflow /\ Acyclic(workflow)
  BY <1>0, RunAssumption DEF Sensible
<1>3. PICK s \in rest : \A t \in rest : s \notin Producers(workflow, t)
  <2> HIDE DEF rest
  <2> QED BY <1>1, <1>2, LastStep
<1>4. ASSUME NEW d \in Task, <<s, d>> \in edges PROVE FALSE
  <2>1. task[d] \notin Done
    BY <1>3, <1>4, Tasks DEF UpstreamDone
  <2>2. d \in Step /\ s \in Producers(workflow, d)
    BY <1>0, <1>2, <1>3, <1>4, <2>1, EdgesBetweenSteps DEF Task
  <2> QED BY <1>3, <2>1, <2>2
<1>5. task[s] \in {"failed", "upstream_failed"} /\ ~HasDownstream(edges, s) /\ s \in Task
  BY <1>0, <1>3, <1>4, Tasks DEF Finished, TaskState, Done, HasDownstream
<1> QED BY <1>5 DEF Outcome

\* The gatherer that is done has its report in XCom, until the callback has cleared
\* it; if the run is then cleared without the gatherer, it cannot end well.
Gathered ==
    /\ task[Gatherer] # "skipped" /\ task[Dispatcher] # "skipped"
    /\ xcom[Gatherer] # 0 => results # 0
    /\ task[Gatherer] = "success" /\ xcom[Gatherer] = 0 =>
          /\ keep = "false" /\ xcom[Dispatcher] = 0
          /\ requests # <<>> => dagrun # "success"
          /\ dagrun = "running" => \E t \in Task : task[t] \notin Done
    /\ requests # <<>> /\ dagrun = "success" => task[Gatherer] = "success"
    /\ callback = "results" => dagrun = "success"
    /\ callback = "clear_xcom" => keep = "false"

LEMMA GatheredGoesOn ==
    Orderly /\ Sensible /\ TypeInv /\ Quiet /\ Closing /\ Cleaning /\ UpstreamDone
            /\ WithDispatcher /\ Gathered /\ [Next]_vars
        => Gathered'
<1> SUFFICES ASSUME Orderly, Sensible, TypeInv, Quiet, Closing, Cleaning, UpstreamDone,
                    WithDispatcher, Gathered, [Next]_vars
             PROVE  Gathered'
  OBVIOUS
<1>0. /\ task \in [Task -> TaskState]
      /\ xcom \in [Task -> 0..made] /\ job \in [Task -> [Task -> 0..made]]
      /\ made \in Nat /\ tmp \subseteq 1..made
      /\ callback # "idle" => requests # <<>>
      /\ \A t \in Task \ {Dispatcher} : task[t] = "running" => job[t][Dispatcher] # 0
  BY DEF TypeInv, Counters, Folders, Control
<1>a. dagrun = "running" => requests = <<>> /\ callback = "idle"
  BY <1>0 DEF Closing
<1>b. \A t \in Task : task[t] = "running" => dagrun = "running"
  BY DEF Quiet, Finished
<1>c. keep = "false" /\ xcom[Dispatcher] = 0 =>
          \A t \in Task \ {Dispatcher} : task[t] # "running"
  BY DEF WithDispatcher
<1>d. keep = "false" /\ task[Gatherer] = "success" => task[Dispatcher] = "success"
  BY Tasks DEF WithDispatcher, Done
<1> USE <1>0, Tasks DEF Gathered, Done
<1>1. CASE StartDispatcher
  BY <1>1, <1>a, <1>d DEF StartDispatcher
<1>2. CASE FinishDispatcher \/ FailDispatcher
  BY <1>2, <1>a, <1>b, <1>d DEF FinishDispatcher, FailDispatcher, MakeFolder
<1>3. ASSUME NEW t \in Task, StartTask(t) PROVE Gathered'
  BY <1>3, <1>a DEF StartTask
<1>4. ASSUME NEW s \in Step, NEW outcome \in {"success", "skipped"}, FinishStep(s, outcome)
      PROVE  Gathered'
  BY <1>4, <1>a, <1>b, <1>c DEF FinishStep
<1>5. CASE FinishGatherer
  BY <1>5, <1>a, <1>b DEF FinishGatherer
<1>6. ASSUME NEW t \in Task, FailTask(t) \/ GiveUpTask(t) PROVE Gathered'
  BY <1>6, <1>a, <1>b DEF FailTask, GiveUpTask
<1>7. CASE EndRun
  <2>1. /\ \A t \in Task : task[t] \in Finished
        /\ dagrun' = Outcome /\ dagrun = "running" /\ callback = "idle"
        /\ UNCHANGED <<task, xcom, results, callback, keep>>
    BY <1>7, <1>a DEF EndRun
  <2>2. Outcome = "success" => task[Gatherer] = "success"
    BY <2>1, Ends DEF Outcome, Finished, TaskState
  <2>3. task[Gatherer] = "success" /\ xcom[Gatherer] = 0 => Outcome = "failed"
    BY <1>d, <2>1, NotDoneFails
  <2>4. Outcome # "running"
    BY DEF Outcome
  <2> QED BY <2>1, <2>2, <2>3, <2>4
<1>8. CASE ClearRun
  <2>1. PICK S \in {Task, {t \in Task : task[t] \in {"failed", "upstream_failed"}}} :
           /\ S # {}
           /\ task' = [t \in Task |-> IF Before(edges, t) \cap S # {} THEN "none" ELSE task[t]]
    BY <1>8 DEF ClearRun
  <2>2. /\ UNCHANGED <<xcom, results, keep, callback, requests>> /\ dagrun' = "running"
        /\ requests = <<>> /\ callback = "idle" /\ dagrun # "running"
    BY <1>8 DEF ClearRun, Orderly
  <2>3. PICK t \in Task : t \in S
    BY <2>1
  <2>4. task'[t] \notin Done
    BY <2>1, <2>3, BeforeSelf
  <2>5. \A u \in Task : task'[u] \in {"none", task[u]}
    BY <2>1
  <2> QED BY <2>2, <2>4, <2>5
<1>9. CASE ReportProgress
  <2>1. requests = <<[outcome |-> dagrun, clears |-> clears]>> /\ CanCollect(xcom)
    BY <1>9 DEF ReportProgress, Closing
  <2>2. Head(requests).outcome = dagrun
    BY <2>1
  <2>3. /\ UNCHANGED <<dagVars, dagrun, task, xcom, results, requests>>
        /\ callback' = IF dagrun = "success" THEN "results" ELSE "clean_up"
    BY <1>9, <2>1, <2>2 DEF ReportProgress
  <2> QED BY <2>3
<1>10. CASE ReportResults
  BY <1>10 DEF ReportResults
<1>11. CASE CleanUp \/ ClearXcom
  <2>1. requests = <<[outcome |-> dagrun, clears |-> clears]>> /\ dagrun # "running"
    BY <1>11 DEF CleanUp, ClearXcom, Closing
  <2>2. Tail(requests) = <<>>
    BY <2>1
  <2>3. CASE CleanUp
    <3>1. ~CleanUpRaises /\ ~KeepTmpData => keep = "false"
      BY RunAssumption DEF TypeInv, Control, CleanUpRaises, KeepTmpData
    <3> QED BY <2>1, <2>2, <2>3, <3>1 DEF CleanUp
  <2>4. CASE ClearXcom
    <3>1. keep = "false"
      BY <2>4 DEF ClearXcom
    <3> QED BY <2>1, <2>2, <2>4, <3>1 DEF ClearXcom, Nothing
  <2> QED BY <1>11, <2>3, <2>4
<1>12. CASE StopTasks \/ RemoveTmpData \/ UNCHANGED vars
  BY <1>12 DEF StopTasks, RemoveTmpData
<1>13. CASE \/ \E t \in Task : StopTask(t)
            \/ \E g \in ghosts : GhostReports(g) \/ GhostEnds(g)
  BY <1>13 DEF Closing, StopTask, NoCancel
<1> QED
  BY <1>1, <1>2, <1>3, <1>4, <1>5, <1>6, <1>7, <1>8, <1>9, <1>10, <1>11, <1>12, <1>13
  DEF Next, TaskStep, FinishTask, CallbackStep, CancelStep

\* Results that were posted since the run was cleared last are those it has.
ResultsPosted ==
    \A m \in posted : m.kind = "results" =>
        /\ m.clears \in Nat /\ m.clears <= clears
        /\ m.clears = clears => dagrun # "running" /\ m.folder # 0 /\ m.folder = results

LEMMA ResultsPostedGoesOn ==
    TypeInv /\ Quiet /\ Closing /\ Gathered /\ ResultsPosted /\ [Next]_vars => ResultsPosted'
<1> SUFFICES ASSUME TypeInv, Quiet, Closing, Gathered, ResultsPosted, [Next]_vars
             PROVE  ResultsPosted'
  OBVIOUS
<1>0. clears \in Nat
  BY DEF TypeInv, Counters
<1>b. \A t \in Task : task[t] = "running" => dagrun = "running"
  BY DEF Quiet, Finished
<1> USE <1>0, Tasks DEF ResultsPosted
<1>1. CASE FinishGatherer
  BY <1>1, <1>b DEF FinishGatherer
<1>2. ASSUME NEW t \in Task, TaskStep(t), ~FinishGatherer PROVE ResultsPosted'
  <2>1. UNCHANGED <<posted, clears, dagrun, results>>
    BY <1>2 DEF TaskStep, StartDispatcher, StartTask, FinishTask, FinishDispatcher,
                FailDispatcher, FinishStep, FailTask, GiveUpTask
  <2> QED BY <2>1
<1>3. CASE EndRun
  BY <1>3 DEF EndRun
<1>4. CASE ClearRun
  BY <1>4 DEF ClearRun
<1>5. CASE ReportProgress
  <2>1. UNCHANGED <<clears, dagrun, results>>
    BY <1>5 DEF ReportProgress
  <2>2. \A m \in posted' : m \in posted \/ m.kind = "progress"
    BY <1>5 DEF ReportProgress
  <2> QED BY <2>1, <2>2
<1>6. CASE ReportResults
  <2>1. requests = <<[outcome |-> dagrun, clears |-> clears]>> /\ dagrun = "success"
        /\ requests # <<>>
    BY <1>6 DEF ReportResults, Closing, Gathered, TypeInv, Control
  <2>2. Head(requests).clears = clears
    BY <2>1
  <2>3. xcom[Gatherer] # 0 /\ results # 0
    BY <2>1 DEF Gathered
  <2> DEFINE m == [kind |-> "results", clears |-> clears, folder |-> results]
  <2>4. posted' = posted \cup {m} /\ UNCHANGED <<clears, dagrun, results>>
    BY <1>6, <2>2, <2>3 DEF ReportResults
  <2>5. m.clears = clears /\ m.folder = results
    OBVIOUS
  <2> HIDE DEF m
  <2> QED BY <2>1, <2>3, <2>4, <2>5
<1>7. CASE CleanUp \/ ClearXcom
  BY <1>7 DEF CleanUp, ClearXcom
<1>8. CASE StopTasks \/ CancelStep \/ UNCHANGED vars
  BY <1>8 DEF StopTasks, CancelStep, StopTask, RemoveTmpData
<1>9. CASE \E g \in ghosts : GhostReports(g) \/ GhostEnds(g)
  BY <1>9 DEF Closing
<1> QED
  BY <1>1, <1>2, <1>3, <1>4, <1>5, <1>6, <1>7, <1>8, <1>9 DEF Next, CallbackStep

\* What the callback of a run still to come or under way knows (under the same
\* conditions): these facts together are inductive.
Ending == UpstreamDone /\ WithDispatcher /\ Gathered /\ ResultsPosted

LEMMA EndingInvariance == ASSUME Orderly, Sensible PROVE Spec => []Ending
<1>1. Init => Ending
  <2> SUFFICES ASSUME Init PROVE Ending
    OBVIOUS
  <2>1. /\ \A t \in Task : task[t] = "none" /\ xcom[t] = 0
        /\ posted = {} /\ callback = "idle" /\ requests = <<>>
    BY DEF Init, Nothing
  <2> QED
    BY <2>1, Tasks DEF Ending, UpstreamDone, WithDispatcher, Gathered, ResultsPosted, Done
<1>2. TypeInv /\ Fresh /\ Closing /\ Cleaning /\ Ending /\ [Next]_vars => Ending'
  BY UpstreamDoneGoesOn, WithDispatcherGoesOn, GatheredGoesOn, ResultsPostedGoesOn
     DEF Fresh, Ending
<1> QED
  BY <1>1, <1>2, TypeInvariance, FreshInvariance, ClosingInvariance, PTL DEF Spec

\* The callback of a run that ended well posts the results of its last execution,
\* however often it is cleared and whatever happens to the tasks, in every finite
\* workflow in which no step waits for itself.
THEOREM SuccessIsReportedWithResults ==
    ASSUME Orderly, Sensible PROVE Spec => []SuccessReportsResults
<1>1. Ending => SuccessReportsResults
  BY DEF Ending, ResultsPosted, SuccessReportsResults
<1> QED BY <1>1, EndingInvariance, PTL

-----------------------------------------------------------------------------
(* The run implements its lifecycle (under the same conditions)            *)

LEMMA LifecycleStarts == Init => Lifecycle!Init
BY DEF Init, Lifecycle!Init, Todo, Folder

\* What a task does while the run is running is work.
LEMMA TaskWorks ==
    ASSUME TypeInv, Quiet, NEW t \in Task, TaskStep(t)
    PROVE  Lifecycle!Work
<1>0. /\ task \in [Task -> TaskState]
      /\ dagrun # "running" => task[t] # "none" /\ task[t] # "running"
  BY DEF TypeInv, Counters, Quiet, Finished
<1> USE <1>0 DEF Lifecycle!Work, Todo
<1>1. CASE StartDispatcher
  BY <1>1 DEF StartDispatcher
<1>2. CASE StartTask(t) \/ GiveUpTask(t) \/ FailTask(t)
  BY <1>2 DEF StartTask, GiveUpTask, FailTask
<1>3. CASE t = Dispatcher /\ (FinishDispatcher \/ FailDispatcher)
  BY <1>3 DEF FinishDispatcher, FailDispatcher, MakeFolder, AbandonFolder
<1>4. CASE t \in Step /\ \E outcome \in {"success", "skipped"} : FinishStep(t, outcome)
  BY <1>4 DEF FinishStep
<1>5. CASE t = Gatherer /\ FinishGatherer
  BY <1>5 DEF FinishGatherer
<1> QED BY <1>1, <1>2, <1>3, <1>4, <1>5 DEF TaskStep, FinishTask

\* A success that has not been reported has the folder of the gatherer.
LEMMA SuccessHasResults ==
    ASSUME TypeInv, Gathered, requests # <<>>, dagrun = "success"
    PROVE  results \in Folder
<1>1. task[Gatherer] = "success" /\ xcom[Gatherer] # 0
  BY DEF Gathered
<1>2. results # 0
  BY <1>1 DEF Gathered
<1>3. /\ results \in 0..made /\ made \in Nat /\ clears \in Nat /\ clears <= MaxClears
      /\ made <= clears + (IF task[Dispatcher] \in {"none", "running"} THEN 0 ELSE 1)
  BY DEF TypeInv, Counters, Folders
<1>4. made <= MaxClears + 1
  BY <1>3, Bounds
<1> QED BY <1>2, <1>3, <1>4, Bounds DEF Folder

\* The callback reports the end, then the results of a success, removes the data
\* and is over.
LEMMA CallbackFinishes ==
    ASSUME Orderly, TypeInv, Closing, Cleaning, Gathered, CallbackStep
    PROVE  Lifecycle!Next
<1>1. /\ callback # "idle" => requests # <<>>
      /\ callback \in {"idle", "results", "clean_up", "clear_xcom"}
      /\ dagrun \in {"running", "success", "failed"}
      /\ keep \in {"unset", "true", "false", "cfg_False"}
  BY RunAssumption DEF TypeInv, Control
<1>2. requests # <<>>
  BY <1>1 DEF CallbackStep, ReportProgress, ReportResults, CleanUp, ClearXcom
<1>3. dagrun # "running" /\ requests = <<[outcome |-> dagrun, clears |-> clears]>>
  BY <1>2 DEF Closing
<1>4. /\ Head(requests).clears = clears /\ Head(requests).outcome = dagrun
      /\ Tail(requests) = <<>>
  BY <1>3
<1>5. CASE ReportProgress
  <2>1. CanCollect(xcom)
    BY <1>5 DEF ReportProgress, Closing
  <2> QED
    BY <1>2, <1>3, <1>4, <1>5, <2>1
       DEF ReportProgress, Todo, Lifecycle!Next, Lifecycle!ReportEnd
<1>6. CASE ReportResults
  <2>1. dagrun = "success" /\ task[Gatherer] = "success" /\ xcom[Gatherer] # 0
    BY <1>2, <1>6 DEF ReportResults, Gathered
  <2>2. results \in Folder
    BY <1>2, <2>1, SuccessHasResults
  <2> QED
    BY <1>2, <1>3, <1>4, <1>6, <2>1, <2>2
       DEF ReportResults, Todo, Lifecycle!Next, Lifecycle!ReportResults
<1>7. CASE CleanUp /\ (CleanUpRaises \/ KeepTmpData)
  BY <1>1, <1>2, <1>3, <1>4, <1>7
     DEF CleanUp, CleanUpRaises, KeepTmpData, Todo, Lifecycle!Next, Lifecycle!Finish
<1>8. CASE CleanUp /\ ~(CleanUpRaises \/ KeepTmpData)
  <2>1. keep = "false"
    BY <1>1, <1>8 DEF CleanUpRaises, KeepTmpData
  <2>2. /\ tmp' \subseteq tmp /\ undeleted \subseteq undeleted'
        /\ undeleted' \subseteq undeleted \cup tmp /\ tmp' \subseteq undeleted'
    BY <1>8, <2>1 DEF CleanUp, Cleaning, RemoveFolder, Without
  <2> QED
    BY <1>2, <1>3, <1>4, <1>8, <2>1, <2>2 DEF CleanUp, Todo, Lifecycle!Next, Lifecycle!Remove
<1>9. CASE ClearXcom
  <2>1. keep = "false" /\ tmp \subseteq undeleted
    BY <1>9 DEF ClearXcom, Gathered, Cleaning
  <2> QED
    BY <1>2, <1>3, <1>4, <1>9, <2>1 DEF ClearXcom, Todo, Lifecycle!Next, Lifecycle!Finish
<1> QED BY <1>5, <1>6, <1>7, <1>8, <1>9 DEF CallbackStep

LEMMA LifecycleGoesOn ==
    Orderly /\ TypeInv /\ Quiet /\ Closing /\ Cleaning /\ Gathered /\ [Next]_vars
        => [Lifecycle!Next]_Lifecycle!vars
<1> SUFFICES ASSUME Orderly, TypeInv, Quiet, Closing, Cleaning, Gathered, [Next]_vars
             PROVE  [Lifecycle!Next]_Lifecycle!vars
  OBVIOUS
<1>1. ASSUME NEW t \in Task, TaskStep(t) PROVE Lifecycle!Next
  BY <1>1, TaskWorks DEF Lifecycle!Next
<1>2. CASE EndRun
  <2>1. Outcome \in {"success", "failed"}
    BY DEF Outcome
  <2>2. requests = <<>> /\ callback = "idle"
    BY <1>2 DEF EndRun, Closing, TypeInv, Control
  <2>3. requests' # <<>>
    BY <1>2, <2>2 DEF EndRun
  <2> QED
    BY <1>2, <2>1, <2>2, <2>3 DEF EndRun, Todo, Lifecycle!Next, Lifecycle!End
<1>3. CASE CallbackStep
  BY <1>3, CallbackFinishes
<1>4. CASE ClearRun
  BY <1>4 DEF ClearRun, Orderly, Todo, Lifecycle!Next, Lifecycle!ExecuteAgain
<1>5. CASE StopTasks
  BY <1>5, Bounds DEF StopTasks, Orderly, TypeInv, Counters
<1>6. CASE CancelStep
  BY <1>6 DEF CancelStep, StopTask, RemoveTmpData, Closing, NoCancel
<1>7. CASE UNCHANGED vars
  BY <1>7 DEF Lifecycle!vars, Todo
<1>8. CASE \E g \in ghosts : GhostReports(g) \/ GhostEnds(g)
  BY <1>8 DEF Closing
<1> QED BY <1>1, <1>2, <1>3, <1>4, <1>5, <1>6, <1>7, <1>8 DEF Next

\* Each execution of a run has one end, which is reported once and with the results of
\* this execution, before the data its reports lead to go, or are found impossible to
\* remove, and before it is executed again.
THEOREM LifecycleImplemented ==
    ASSUME Orderly, Sensible PROVE Spec => ImplementsLifecycle
<1>1. Fresh /\ Ending => Quiet /\ Gathered
  BY DEF Fresh, Ending
<1> QED
  BY <1>1, LifecycleStarts, LifecycleGoesOn, TypeInvariance, FreshInvariance,
     ClosingInvariance, EndingInvariance, PTL
     DEF Spec, ImplementsLifecycle, Lifecycle!Spec

=============================================================================
