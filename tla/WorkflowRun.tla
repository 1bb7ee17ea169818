---------------------------- MODULE WorkflowRun ----------------------------
(***************************************************************************)
(* One dag run of a CWLDAG, from its first task to the end of its dag      *)
(* callback: the execute methods of CWLJobDispatcher, CWLStepOperator and  *)
(* CWLJobGatherer (extensions/operators/), which hand reports to each      *)
(* other through XCom and a temporary folder; dag_on_success and           *)
(* dag_on_failure (utilities/report.py), which report and clean up; and    *)
(* the cancellation of a run through the API (components/api/backend.py).  *)
(*                                                                         *)
(* Airflow's scheduler is external: it starts a task according to its      *)
(* trigger rule, ends the run when every task has, and hands the run to    *)
(* another process for its callback.  A user may clear tasks of a run that *)
(* has ended, which makes it run again.                                    *)
(***************************************************************************)
EXTENDS WorkflowGraph, Naturals, FiniteSets, Sequences

CONSTANTS
    Workflows,      \* the workflows considered
    KeepSettings,   \* the settings of keep_tmp_data considered
    JobFolders,     \* jobs considered: with a tmp_folder (TRUE), without one
    MaxClears,      \* bound: how often the run is cleared
    MaxCancels,     \* bound: how often the run is cancelled
    ClearEarly      \* may the run be cleared before its callback is over?

ASSUME RunAssumption ==
    /\ Workflows \subseteq Workflow
    /\ KeepSettings \subseteq {"unset", "true", "false", "cfg_False"}
    /\ JobFolders \subseteq BOOLEAN
    /\ MaxClears \in Nat /\ MaxCancels \in Nat /\ ClearEarly \in BOOLEAN

VARIABLES
    workflow,       \* the workflow of the DAG
    edges,          \* the edges of the DAG
    keep,           \* the setting of keep_tmp_data
    given,          \* does the job bring its own tmp_folder?
    dagrun,         \* state of the dag run
    task,           \* state of each task
    xcom,           \* XCom of each task: the folder of its report, 0 if none
    job,            \* what each running task has collected, see Collected
    tmp,            \* the executions whose reports and data are on disk
    undeleted,      \* those that were to be removed, and rmtree failed
    made,           \* such folders made so far, numbered from 1
    orphans,        \* executions in which mkdtemp made one no report names
    results,        \* the folder whose results the workflow report has
    requests,       \* callbacks that Airflow still has to run
    callback,       \* what the running callback is about to do
    posted,         \* history: what the callbacks have posted
    clears,         \* how often the run has been cleared
    cancel,         \* what wes_cancel_run is about to do
    cancels,        \* how often it has been called
    ghosts,         \* processes of tasks that were stopped, still there
    crossed         \* history: was the run cleared while there was one?

dagVars == <<workflow, edges, keep, given>>
diskVars == <<tmp, undeleted, made, orphans>>
callbackVars == <<requests, callback, posted>>
cancelVars == <<cancel, cancels, ghosts, crossed>>
vars == <<dagVars, dagrun, task, xcom, job, diskVars, results,
          callbackVars, clears, cancelVars>>

-----------------------------------------------------------------------------

Folder == 1..(MaxClears + 1)

TaskState == {"none", "running", "success", "skipped", "failed",
              "upstream_failed"}

Finished == TaskState \ {"none", "running"}

\* Reports collected by a task: for each task, the folder of its report.
Collected == [Task -> {0} \cup Folder]
Nothing == [t \in Task |-> 0]

NoCancel == [at |-> "idle", tasks |-> {}]

TypeOK ==
    /\ workflow \in Workflows /\ edges = Assemble(workflow)
    /\ keep \in KeepSettings /\ given \in JobFolders
    /\ dagrun \in {"running", "success", "failed"}
    /\ task \in [Task -> TaskState]
    /\ xcom \in Collected
    /\ job \in [Task -> Collected]
    /\ \A t \in Task \ {Dispatcher} :
          task[t] = "running" => job[t][Dispatcher] # 0
    /\ made \in {0} \cup Folder
    /\ tmp \subseteq 1..made /\ undeleted \subseteq 1..made
    /\ orphans \subseteq 0..MaxClears
    /\ results \in 0..made
    /\ requests \in Seq([outcome : {"success", "failed"}, clears : 0..MaxClears])
    /\ callback \in {"idle", "results", "clean_up", "clear_xcom"}
    /\ clears \in 0..MaxClears
    /\ cancel \in [at : {"idle", "stop"}, tasks : SUBSET Task]
    /\ cancels \in 0..MaxCancels
    /\ ghosts \subseteq [task : Task, job : Collected]
    /\ crossed \in BOOLEAN

Init ==
    /\ workflow \in Workflows
    /\ edges = Assemble(workflow)
    /\ keep \in KeepSettings /\ given \in JobFolders
    /\ dagrun = "running"
    /\ task = [t \in Task |-> "none"]
    /\ xcom = Nothing
    /\ job = [t \in Task |-> Nothing]
    /\ tmp = {} /\ undeleted = {}
    /\ made = 0 /\ orphans = {}
    /\ results = 0
    /\ requests = <<>>
    /\ callback = "idle"
    /\ posted = {}
    /\ clears = 0
    /\ cancel = NoCancel
    /\ cancels = 0
    /\ ghosts = {}
    /\ crossed = FALSE

-----------------------------------------------------------------------------
(* XCom and the reports *)

Upstream(t) == {u \in Task : <<u, t>> \in edges}

\* collect_reports reads the report of every task that has an XCom (x);
\* load_yaml raises ValueError if one of the files is gone.  The report of
\* the gatherer is in the outputs folder, the others are in the temporary
\* folder of their execution.
CanCollect(x) == \A u \in Task \ {Gatherer} : x[u] # 0 => x[u] \in tmp

-----------------------------------------------------------------------------
(* The tasks.  A task starts (Airflow drops its XCom of an earlier try),   *)
(* reads what it needs, works, and writes its report when it is done.      *)

\* The trigger rule none_failed: no upstream task failed, all are over.
Triggered(t) ==
    \A u \in Upstream(t) : task[u] \in {"success", "skipped"}

StartDispatcher ==
    /\ dagrun = "running"
    /\ task[Dispatcher] = "none"
    /\ Triggered(Dispatcher)
    /\ task' = [task EXCEPT ![Dispatcher] = "running"]
    /\ xcom' = [xcom EXCEPT ![Dispatcher] = 0]
    /\ UNCHANGED <<dagVars, dagrun, job, diskVars, results, callbackVars,
                   clears, cancelVars>>

\* mkdtemp makes a folder of its own for each execution, also if the job
\* brings one (it is an argument of get), and no report names it then.  The
\* report with the job and the folders is dumped into the folder used.
MakeFolder ==
    /\ made' = made + 1
    /\ tmp' = tmp \cup {made'}
    /\ orphans' = IF given THEN orphans \cup {clears} ELSE orphans
    /\ UNCHANGED undeleted

\* A process that ends between mkdtemp and the end of execute.
AbandonFolder ==
    /\ orphans' = orphans \cup {clears}
    /\ UNCHANGED <<tmp, undeleted, made>>

FinishDispatcher ==
    /\ task[Dispatcher] = "running"
    /\ MakeFolder
    /\ xcom' = [xcom EXCEPT ![Dispatcher] = made']
    /\ task' = [task EXCEPT ![Dispatcher] = "success"]
    /\ UNCHANGED <<dagVars, dagrun, job, results, callbackVars, clears,
                   cancelVars>>

FailDispatcher ==
    /\ task[Dispatcher] = "running"
    /\ UNCHANGED diskVars \/ AbandonFolder
    /\ task' = [task EXCEPT ![Dispatcher] = "failed"]
    /\ UNCHANGED <<dagVars, dagrun, xcom, job, results, callbackVars, clears,
                   cancelVars>>

\* Mutant: a missing report of the dispatcher goes unnoticed.
StartUnchecked(t) ==
    /\ t # Dispatcher
    /\ dagrun = "running"
    /\ task[t] = "none"
    /\ Triggered(t)
    /\ xcom' = [xcom EXCEPT ![t] = 0]
    /\ task' = [task EXCEPT ![t] = "running"]
    /\ job' = [job EXCEPT ![t] = xcom']
    /\ UNCHANGED <<dagVars, dagrun, diskVars, results, callbackVars, clears,
                   cancelVars>>

\* A step and the gatherer collect the reports of all tasks of the DAG; the
\* folder to work in comes from the dispatcher's report (KeyError without),
\* and get_temp_folders makes the folders of the step in it.
StartTask(t) ==
    /\ t # Dispatcher
    /\ dagrun = "running"
    /\ task[t] = "none"
    /\ Triggered(t)
    /\ xcom' = [xcom EXCEPT ![t] = 0]
    /\ IF CanCollect(xcom') /\ xcom[Dispatcher] # 0
       THEN /\ task' = [task EXCEPT ![t] = "running"]
            /\ job' = [job EXCEPT ![t] = xcom']
       ELSE /\ task' = [task EXCEPT ![t] = "failed"]
            /\ UNCHANGED job
    /\ UNCHANGED <<dagVars, dagrun, diskVars, results, callbackVars, clears,
                   cancelVars>>

\* Mutant: AirflowSkipException is raised before the report is pushed.
SkipUnreported(s, outcome) ==
    /\ task[s] = "running"
    /\ job[s][Dispatcher] \in tmp
    /\ xcom' = IF outcome = "skipped" THEN xcom
               ELSE [xcom EXCEPT ![s] = job[s][Dispatcher]]
    /\ task' = [task EXCEPT ![s] = outcome]
    /\ job' = [job EXCEPT ![s] = Nothing]
    /\ UNCHANGED <<dagVars, dagrun, diskVars, results, callbackVars, clears,
                   cancelVars>>

\* The step ran, or "when" said no: then the report holds nulls, and is
\* pushed before AirflowSkipException.  Dumping needs the folder.
FinishStep(s, outcome) ==
    /\ task[s] = "running"
    /\ job[s][Dispatcher] \in tmp
    /\ xcom' = [xcom EXCEPT ![s] = job[s][Dispatcher]]
    /\ task' = [task EXCEPT ![s] = outcome]
    /\ job' = [job EXCEPT ![s] = Nothing]
    /\ UNCHANGED <<dagVars, dagrun, diskVars, results, callbackVars, clears,
                   cancelVars>>

\* Mutant: the location of the workflow report is not pushed.
GatherUnreported ==
    /\ task[Gatherer] = "running"
    /\ job[Gatherer][Dispatcher] \in tmp
    /\ \A s \in workflow.outs \cap Step : job[Gatherer][s] # 0
    /\ results' = job[Gatherer][Dispatcher]
    /\ task' = [task EXCEPT ![Gatherer] = "success"]
    /\ job' = [job EXCEPT ![Gatherer] = Nothing]
    /\ UNCHANGED <<dagVars, dagrun, xcom, diskVars, callbackVars, clears,
                   cancelVars>>

\* relocate_outputs looks up every output source in the collected reports
\* (KeyError) and copies from the temporary folder to the outputs folder.
FinishGatherer ==
    /\ task[Gatherer] = "running"
    /\ job[Gatherer][Dispatcher] \in tmp
    /\ \A s \in workflow.outs \cap Step : job[Gatherer][s] # 0
    /\ results' = job[Gatherer][Dispatcher]
    /\ xcom' = [xcom EXCEPT ![Gatherer] = results']
    /\ task' = [task EXCEPT ![Gatherer] = "success"]
    /\ job' = [job EXCEPT ![Gatherer] = Nothing]
    /\ UNCHANGED <<dagVars, dagrun, diskVars, callbackVars, clears, cancelVars>>

\* A bad input file, a step that exits with an error, no space left: the
\* exception leaves execute, nothing is pushed.
FailTask(t) ==
    /\ t # Dispatcher
    /\ task[t] = "running"
    /\ task' = [task EXCEPT ![t] = "failed"]
    /\ job' = [job EXCEPT ![t] = Nothing]
    /\ UNCHANGED <<dagVars, dagrun, xcom, diskVars, results, callbackVars,
                   clears, cancelVars>>

FinishTask(t) ==
    \/ t = Dispatcher /\ (FinishDispatcher \/ FailDispatcher)
    \/ t \in Step /\ \E outcome \in {"success", "skipped"} : FinishStep(t, outcome)
    \/ t = Gatherer /\ FinishGatherer
    \/ FailTask(t)

-----------------------------------------------------------------------------
(* Airflow *)

\* none_failed gives up a task as soon as one upstream task has failed.
GiveUpTask(t) ==
    /\ dagrun = "running"
    /\ task[t] = "none"
    /\ \E u \in Upstream(t) : task[u] \in {"failed", "upstream_failed"}
    /\ task' = [task EXCEPT ![t] = "upstream_failed"]
    /\ UNCHANGED <<dagVars, dagrun, xcom, job, diskVars, results,
                   callbackVars, clears, cancelVars>>

Outcome ==
    IF \E t \in Task : /\ ~HasDownstream(edges, t)
                       /\ task[t] \in {"failed", "upstream_failed"}
    THEN "failed" ELSE "success"

EndRun ==
    /\ dagrun = "running"
    /\ \A t \in Task : task[t] \in Finished
    /\ dagrun' = Outcome
    /\ requests' = Append(requests, [outcome |-> Outcome, clears |-> clears])
    /\ UNCHANGED <<dagVars, task, xcom, job, diskVars, results, callback,
                   posted, clears, cancelVars>>

\* A user clears everything, or what has failed, with all that is behind.
ClearRun ==
    /\ dagrun # "running"
    /\ clears < MaxClears
    /\ ClearEarly \/ (requests = <<>> /\ callback = "idle")
    /\ \E S \in {Task, {t \in Task : task[t] \in {"failed", "upstream_failed"}}} :
          /\ S # {}
          /\ task' = [t \in Task |-> IF Before(edges, t) \cap S # {}
                                     THEN "none" ELSE task[t]]
    /\ dagrun' = "running"
    /\ clears' = clears + 1
    /\ crossed' = (crossed \/ ghosts # {})
    /\ UNCHANGED <<dagVars, xcom, job, diskVars, results, callbackVars,
                   cancel, cancels, ghosts>>

-----------------------------------------------------------------------------
(* The dag callback *)

\* Mutant: only a success is reported.
ReportSuccess ==
    /\ requests # <<>>
    /\ callback = "idle"
    /\ IF Head(requests).outcome = "success"
       THEN /\ posted' = posted \cup {[kind |-> "progress", state |-> dagrun,
                                       clears |-> Head(requests).clears]}
            /\ callback' = "results"
       ELSE callback' = "clean_up" /\ UNCHANGED posted
    /\ UNCHANGED <<dagVars, dagrun, task, xcom, job, diskVars, results,
                   requests, clears, cancelVars>>

\* Mutant: a failure posts results as well.
ReportAnyResults ==
    /\ requests # <<>>
    /\ callback = "idle"
    /\ IF CanCollect(xcom)
       THEN /\ posted' = posted \cup {[kind |-> "progress", state |-> dagrun,
                                       clears |-> Head(requests).clears]}
            /\ callback' = "results"
            /\ UNCHANGED requests
       ELSE /\ requests' = Tail(requests)
            /\ UNCHANGED <<posted, callback>>
    /\ UNCHANGED <<dagVars, dagrun, task, xcom, job, diskVars, results,
                   clears, cancelVars>>

\* report_progress: the execution statistics collect all reports before
\* anything is posted, and what they raise ends the callback.
ReportProgress ==
    /\ requests # <<>>
    /\ callback = "idle"
    /\ IF CanCollect(xcom)
       THEN /\ posted' = posted \cup {[kind |-> "progress", state |-> dagrun,
                                       clears |-> Head(requests).clears]}
            /\ callback' = IF Head(requests).outcome = "success"
                           THEN "results" ELSE "clean_up"
            /\ UNCHANGED requests
       ELSE /\ requests' = Tail(requests)
            /\ UNCHANGED <<posted, callback>>
    /\ UNCHANGED <<dagVars, dagrun, task, xcom, job, diskVars, results,
                   clears, cancelVars>>

\* report_results (dag_on_success only): what the XCom of the gatherer
\* leads to, or {} if that fails.
ReportResults ==
    /\ callback = "results"
    /\ posted' = posted \cup {[kind |-> "results", clears |-> Head(requests).clears,
                               folder |-> IF xcom[Gatherer] = 0 THEN 0 ELSE results]}
    /\ callback' = "clean_up"
    /\ UNCHANGED <<dagVars, dagrun, task, xcom, job, diskVars, results,
                   requests, clears, cancelVars>>

\* Mutant: whatever is set is a string, and true.
KeepWhenSet == keep # "unset"

\* keep_tmp_data when it is used: airflow.cfg gives a string, and a string
\* that is not empty is true.
KeepTmpData == keep \in {"true", "cfg_False"}

\* If keep_tmp_data is not set, has_failed_tasks is called, and raises
\* AttributeError (get_task_instances returns a list, which has no exists).
CleanUpRaises == keep = "unset"

\* rmtree of the folder that the report of execution n names: a folder
\* brought by the job is that of all executions.  An error is logged, and
\* the reports may be among what is left or not.
Without(n) == IF given /\ n \in tmp THEN {} ELSE tmp \ {n}

RemoveFolder(n) ==
    \/ tmp' = Without(n) /\ UNCHANGED undeleted
    \/ /\ n \in tmp
       /\ tmp' \in {tmp, Without(n)}
       /\ undeleted' = undeleted \cup (tmp \ Without(n))

\* clean_up, first half: remove_dag_run_tmp_data removes the folder that a
\* report names; only the dispatcher's report has a tmp_folder.
CleanUp ==
    /\ callback = "clean_up"
    /\ IF CleanUpRaises \/ KeepTmpData
       THEN /\ callback' = "idle"
            /\ requests' = Tail(requests)
            /\ UNCHANGED <<tmp, undeleted>>
       ELSE /\ callback' = "clear_xcom"
            /\ RemoveFolder(xcom[Dispatcher])
            /\ UNCHANGED requests
    /\ UNCHANGED <<dagVars, dagrun, task, xcom, job, made, orphans, results,
                   posted, clears, cancelVars>>

\* clean_up, second half: clear_xcom_data of every task.
ClearXcom ==
    /\ callback = "clear_xcom"
    /\ xcom' = Nothing
    /\ callback' = "idle"
    /\ requests' = Tail(requests)
    /\ UNCHANGED <<dagVars, dagrun, task, job, diskVars, results, posted,
                   clears, cancelVars>>

CallbackStep == ReportProgress \/ ReportResults \/ CleanUp \/ ClearXcom

-----------------------------------------------------------------------------
(* wes_cancel_run *)

\* stop_tasks goes through the tasks as they were when it was called.
StopTasks ==
    /\ cancel.at = "idle" /\ cancels < MaxCancels
    /\ cancel' = [at |-> "stop", tasks |-> {t \in Task : task[t] = "running"}]
    /\ cancels' = cancels + 1
    /\ UNCHANGED <<dagVars, dagrun, task, xcom, job, diskVars, results,
                   callbackVars, clears, ghosts, crossed>>

\* It sets one that was running to failed, whatever has become of it since.
\* Its process, if there is one, is left to Airflow, which ends it sooner or
\* later; stop_tasks waits for it, if it finds it, but not for ever.
StopTask(t) ==
    /\ cancel.at = "stop"
    /\ t \in cancel.tasks
    /\ task' = [task EXCEPT ![t] = "failed"]
    /\ job' = [job EXCEPT ![t] = Nothing]
    /\ ghosts' = IF task[t] = "running"
                 THEN ghosts \cup {[task |-> t, job |-> job[t]]} ELSE ghosts
    /\ cancel' = [cancel EXCEPT !.tasks = @ \ {t}]
    /\ UNCHANGED <<dagVars, dagrun, xcom, diskVars, results, callbackVars,
                   clears, cancels, crossed>>

\* Until then it goes on, and may still push its report.
GhostReports(g) ==
    /\ ghosts' = ghosts \ {g}
    /\ \/ /\ g.task = Dispatcher
          /\ MakeFolder
          /\ xcom' = [xcom EXCEPT ![Dispatcher] = made']
          /\ UNCHANGED results
       \/ /\ g.task # Dispatcher
          /\ g.job[Dispatcher] \in tmp
          /\ xcom' = [xcom EXCEPT ![g.task] = g.job[Dispatcher]]
          /\ IF g.task = Gatherer
             THEN /\ \A s \in workflow.outs \cap Step : g.job[s] # 0
                  /\ results' = g.job[Dispatcher]
             ELSE UNCHANGED results
          /\ UNCHANGED diskVars
    /\ UNCHANGED <<dagVars, dagrun, task, job, callbackVars, clears, cancel,
                   cancels, crossed>>

GhostEnds(g) ==
    /\ ghosts' = ghosts \ {g}
    /\ \/ UNCHANGED diskVars
       \/ g.task = Dispatcher /\ AbandonFolder
    /\ UNCHANGED <<dagVars, dagrun, task, xcom, job, results, callbackVars,
                   clears, cancel, cancels, crossed>>

\* remove_tmp_data: xcom_pull without a task id gives the XCom of the run
\* that was pushed last, and only the dispatcher's leads to the folder.
\* XCom stays as it is.  (If a process has reported into a run that was
\* cleared since, the folders do not tell who pushed last.)
PushedLast == \A t \in Task \ {Dispatcher} : xcom[t] # xcom[Dispatcher]

\* Mutant: the processes are waited for without a timeout.
RemoveAfterProcesses ==
    /\ cancel.at = "stop"
    /\ cancel.tasks = {}
    /\ ghosts = {}
    /\ IF PushedLast THEN RemoveFolder(xcom[Dispatcher])
                     ELSE UNCHANGED <<tmp, undeleted>>
    /\ cancel' = NoCancel
    /\ UNCHANGED <<dagVars, dagrun, task, xcom, job, made, orphans, results,
                   callbackVars, clears, cancels, ghosts, crossed>>

RemoveTmpData ==
    /\ cancel.at = "stop"
    /\ cancel.tasks = {}
    /\ \/ (PushedLast \/ crossed) /\ RemoveFolder(xcom[Dispatcher])
       \/ (~PushedLast \/ crossed) /\ UNCHANGED <<tmp, undeleted>>
    /\ cancel' = NoCancel
    /\ UNCHANGED <<dagVars, dagrun, task, xcom, job, made, orphans, results,
                   callbackVars, clears, cancels, ghosts, crossed>>

CancelStep == (\E t \in Task : StopTask(t)) \/ RemoveTmpData

-----------------------------------------------------------------------------

TaskStep(t) ==
    \/ t = Dispatcher /\ StartDispatcher
    \/ StartTask(t)
    \/ FinishTask(t)
    \/ GiveUpTask(t)

\* The run, its callbacks and its cancellation are over.
Settled == dagrun # "running" /\ requests = <<>> /\ cancel = NoCancel

Next ==
    \/ \E t \in Task : TaskStep(t)
    \/ EndRun
    \/ CallbackStep
    \/ ClearRun
    \/ StopTasks \/ CancelStep
    \/ \E g \in ghosts : GhostReports(g) \/ GhostEnds(g)

Spec == Init /\ [][Next]_vars

\* The scheduler examines every run and task again and again, steps come to
\* an end, Airflow runs the callbacks, and a request to the API is served.
FairSpec ==
    /\ Spec
    /\ \A t \in Task : WF_vars(TaskStep(t))
    /\ WF_vars(EndRun) /\ WF_vars(CallbackStep) /\ WF_vars(CancelStep)

-----------------------------------------------------------------------------
(* Properties *)

\* A running task has the reports of all the steps whose outputs it needs,
\* made from the same job and in the same folder as its own will be, in
\* every workflow and after any clearing: reports of an earlier execution,
\* which XCom keeps, are never taken for fresh ones, nor those of processes
\* that outlive their cancellation, unless one outlives even a clearing.  (A
\* step that does not run after the dispatcher is cleared apart from it, and
\* is not covered.)
Needs(t) == IF t = Gatherer THEN workflow.outs \cap Step
                            ELSE Producers(workflow, t)

FreshInputs ==
    ~crossed =>
        \A t \in Task \ {Dispatcher} : task[t] = "running" =>
            \A s \in Needs(t) :
                Dispatcher \in Before(edges, s) => job[t][s] = job[t][Dispatcher]

\* dag_on_success posts the results of the last execution, not {}: they are
\* read before clean_up clears XCom.
SuccessReportsResults ==
    \A m \in posted : m.kind = "results" /\ m.clears = clears
                          => m.folder # 0 /\ m.folder = results

\* When a run has settled, its final state has been posted, unless it was
\* cancelled: wes_cancel_run removes reports that the callback collects.
EndReported ==
    Settled /\ cancels = 0 => \E m \in posted : /\ m.kind = "progress"
                                 /\ m.clears = clears /\ m.state = dagrun

\* When a run that is not to keep its data has settled, whether it failed or
\* not, nothing is left in XCom, and on disk only what rmtree could not
\* remove and folders that no report names: the last execution has left one
\* of those only if its dispatcher failed, or the job brought its own.  (If
\* keep_tmp_data is not set, clean_up raises, and everything stays; after a
\* cancellation nobody removes what a process wrote that outlived it.)
CleanedUp ==
    Settled /\ keep = "false" /\ cancels = 0 =>
        /\ xcom = Nothing
        /\ tmp \subseteq undeleted
        /\ clears \in orphans => given \/ task[Dispatcher] # "success"

\* What the present execution still has to do, as RunLifecycle sees it.
Todo ==
    CASE dagrun = "running" -> "work"
      [] dagrun # "running" /\ requests = <<>> -> "nothing"
      [] dagrun # "running" /\ requests # <<>> /\ callback = "idle" -> "report"
      [] dagrun # "running" /\ requests # <<>> /\ callback = "results" -> "results"
      [] OTHER -> "clean_up"

Lifecycle == INSTANCE RunLifecycle
               WITH Result <- Folder, state <- dagrun, todo <- Todo,
                    execution <- clears, keeps <- (keep # "false"),
                    data <- tmp, leftover <- undeleted, result <- results, reports <- posted

\* The run, its tasks and callbacks implement the lifecycle, if it is not cancelled
\* and is cleared when its callback is over: each execution is reported with its
\* own end once, a success then with its results, and only then are the data that
\* its reports lead to removed, or found impossible to remove.
ImplementsLifecycle == Lifecycle!Spec

\* Every run comes to an end and is reported and cleaned up.
RunSettles == dagrun = "running" ~> Settled

=============================================================================
