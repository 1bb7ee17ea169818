----------------------------- MODULE DagTrigger -----------------------------
(***************************************************************************)
(* How a workflow becomes a dag run (components/api/backend.py): requests  *)
(* to API servers export a workflow as a DAG file, trigger a run of it, do *)
(* both after removing the earlier run (clean_up_dag_run,                  *)
(* utilities/cwl.py), or go through WES.  Meanwhile Airflow's scheduler    *)
(* parses DAG files and starts tasks, and workers run them.                *)
(*                                                                         *)
(* All requests are for one dag_id and one run_id: other ids share nothing *)
(* but the server.  A server handles one request at a time (tornado runs   *)
(* the WSGI application in its loop), but there may be several servers.    *)
(***************************************************************************)
EXTENDS Naturals

CONSTANTS
    Server,         \* API servers
    Api,            \* the kinds of requests considered
    Content,        \* the workflows considered
    Task,           \* the tasks of a run
    First,          \* the one that makes the temporary folder (dispatcher)
    MaxRequests,    \* bound: requests of all kinds
    SpawnErrors     \* can python3 fail to be started?

ASSUME TriggerAssumption ==
    /\ Api \subseteq {"dags", "dag_runs", "dags/dag_runs", "wes"}
    /\ Content \subseteq {"fine", "unloadable", "broken"}
    /\ First \in Task
    /\ MaxRequests \in Nat /\ SpawnErrors \in BOOLEAN

VARIABLES
    cwl,            \* the .cwl file in DAGS_FOLDER: its workflow, or "none"
    py,             \* the DAG file, or "none"
    parsed,         \* is the DAG in the table DagModel?
    validated,      \* validated_dags of each server
    handler,        \* the request that each server handles, or its last one
    requests,       \* requests so far
    dagrun,         \* the dag run: the number of the request that made it, or 0
    ti,             \* its task instances
    procs,          \* the processes of tasks, <<run, task>>
    xcom,           \* XComs of the first task: the runs that have one
    tmp             \* temporary folders: the runs that have one

fileVars == <<cwl, py>>
airflowVars == <<dagrun, ti, procs, xcom, tmp>>
vars == <<fileVars, parsed, validated, handler, requests, airflowVars>>

-----------------------------------------------------------------------------

Number == 1..MaxRequests

\* A DAG file holds the workflow, or names the .cwl file ("attached"), or is
\* made from the template that wes_run_workflow uses ("wes"), which imports
\* CWLDAG from cwl_airflow, where it is no more.
DagFile == Content \cup {"attached", "wes", "none"}

\* python3 loads the DAG file.
Loads == py = "fine" \/ (py = "attached" /\ cwl = "fine")

\* What md5 sums tell apart: the text of a DAG file; without a file the sum
\* is that of its path.
Sum == DagFile

Status == {"unknown", "checking", "success", "error"}

TaskState == {"absent", "none", "running", "success", "failed"}

Handler == [pc : {"idle", "export", "convert", "write", "find", "stop",
                  "wait", "tmp", "rows", "run", "trigger", "validate",
                  "check", "poll", "query", "insert"},
            api : Api \cup {"no api"}, attached : BOOLEAN,
            content : Content \cup {"none"}, number : 0..MaxRequests,
            run : 0..MaxRequests, todo : SUBSET Task, sum : Sum,
            answer : {"none", "ok", "exists", "failed"}]

Ready == [pc |-> "idle", api |-> "no api", attached |-> FALSE,
          content |-> "none", number |-> 0, run |-> 0, todo |-> {}, sum |-> "none",
          answer |-> "none"]

TypeOK ==
    /\ cwl \in Content \cup {"none"}
    /\ py \in DagFile
    /\ parsed \in BOOLEAN
    /\ validated \in [Server -> [Sum -> Status]]
    /\ handler \in [Server -> Handler]
    /\ requests \in 0..MaxRequests
    /\ dagrun \in 0..requests
    /\ ti \in [Task -> TaskState]
    /\ dagrun = 0 => \A t \in Task : ti[t] = "absent"
    /\ procs \subseteq Number \X Task
    /\ xcom \subseteq Number /\ tmp \subseteq Number

NoTasks == [t \in Task |-> "absent"]

Init ==
    /\ cwl = "none" /\ py = "none"
    /\ parsed = FALSE
    /\ validated = [s \in Server |-> [m \in Sum |-> "unknown"]]
    /\ handler = [s \in Server |-> Ready]
    /\ requests = 0
    /\ dagrun = 0
    /\ ti = NoTasks
    /\ procs = {}
    /\ xcom = {}
    /\ tmp = {}

At(s, pc) == handler[s].pc = pc
Goto(s, pc) == handler' = [handler EXCEPT ![s].pc = pc]

Answer(s, a) ==
    handler' = [handler EXCEPT ![s].pc = "idle", ![s].answer = a, ![s].todo = {}]

-----------------------------------------------------------------------------
(* Requests *)

FirstStep == [api \in Api |-> CASE api = "dag_runs" -> "trigger"
                                [] api = "wes" -> "write"
                                [] OTHER -> "export"]

Receive(s, api, attached, content) ==
    /\ At(s, "idle")
    /\ requests < MaxRequests
    /\ attached => api = "dags"
    /\ api = "wes" => requests = 0      \* its dag_id is drawn at random
    /\ requests' = requests + 1
    /\ handler' = [handler EXCEPT ![s] =
                      [Ready EXCEPT !.pc = FirstStep[api], !.api = api,
                                    !.content = IF api \in {"dag_runs", "wes"} THEN "none"
                                                ELSE content,
                                    !.attached = attached, !.number = requests']]
    /\ UNCHANGED <<fileVars, parsed, validated, airflowVars>>

\* post_dags_dag_runs goes on whatever post_dags answers.
ExportOver(s, a) ==
    IF handler[s].api = "dags" THEN Answer(s, a) ELSE Goto(s, "find")

\* Mutant: only the workflow file is looked for.
ExportUnchecked(s) ==
    /\ At(s, "export")
    /\ IF handler[s].attached /\ cwl # "none"
       THEN ExportOver(s, "exists") /\ UNCHANGED cwl
       ELSE /\ cwl' = IF handler[s].attached THEN handler[s].content ELSE cwl
            /\ Goto(s, "convert")
    /\ UNCHANGED <<py, parsed, validated, requests, airflowVars>>

\* export_dag: an exported DAG is not replaced, and neither is a workflow
\* file (save_attachment).  An attachment is saved before it is converted.
ExportDag(s) ==
    /\ At(s, "export")
    /\ IF py # "none" \/ (handler[s].attached /\ cwl # "none")
       THEN ExportOver(s, "exists") /\ UNCHANGED cwl
       ELSE /\ cwl' = IF handler[s].attached THEN handler[s].content ELSE cwl
            /\ Goto(s, "convert")
    /\ UNCHANGED <<py, parsed, validated, requests, airflowVars>>

ConvertWorkflow(s) ==
    /\ At(s, "convert")
    /\ IF handler[s].content = "broken" THEN ExportOver(s, "failed")
                                        ELSE Goto(s, "write")
    /\ UNCHANGED <<fileVars, parsed, validated, requests, airflowVars>>

WriteDag(s) ==
    /\ At(s, "write")
    /\ py' = CASE handler[s].api = "wes" -> "wes"
                [] handler[s].attached -> "attached"
                [] OTHER -> handler[s].content
    /\ IF handler[s].api = "wes" THEN Goto(s, "trigger") ELSE ExportOver(s, "ok")
    /\ UNCHANGED <<cwl, parsed, validated, requests, airflowVars>>

-----------------------------------------------------------------------------
(* clean_up_dag_run *)

\* stop_dag_run_tasks goes through the tasks as they are now.
FindDagRun(s) ==
    /\ At(s, "find")
    /\ handler' = [handler EXCEPT
                      ![s].pc = IF dagrun = 0 THEN "trigger" ELSE "stop",
                      ![s].run = dagrun,
                      ![s].todo = {t \in Task : ti[t] = "running"}]
    /\ UNCHANGED <<fileVars, parsed, validated, requests, airflowVars>>

\* The rows of tasks belong to the execution date of a run: they are those
\* of the run that was found, unless another server has replaced it.
Found(s) == dagrun = handler[s].run

\* set_state(FAILED), then process.wait.
StopTask(s, t) ==
    /\ At(s, "stop")
    /\ t \in handler[s].todo
    /\ ti' = IF Found(s) /\ ti[t] # "absent" THEN [ti EXCEPT ![t] = "failed"]
                                            ELSE ti
    /\ handler' = [handler EXCEPT ![s].pc = "wait", ![s].todo = @ \ {t}]
    /\ UNCHANGED <<fileVars, parsed, validated, requests, dagrun, procs, xcom, tmp>>

\* The process has ended, or kill_timeout has passed (giving up).
WaitOver(s) ==
    /\ At(s, "wait")
    /\ Goto(s, "stop")
    /\ UNCHANGED <<fileVars, parsed, validated, requests, airflowVars>>

StopOver(s) ==
    /\ At(s, "stop")
    /\ handler[s].todo = {}
    /\ Goto(s, "tmp")
    /\ UNCHANGED <<fileVars, parsed, validated, requests, airflowVars>>

\* remove_dag_run_tmp_data finds the folder through XCom.
RemoveTmpData(s) ==
    /\ At(s, "tmp")
    /\ tmp' = tmp \ (xcom \cap {handler[s].run})
    /\ handler' = [handler EXCEPT ![s].pc = "rows", ![s].todo = Task]
    /\ UNCHANGED <<fileVars, parsed, validated, requests, dagrun, ti, procs, xcom>>

\* clean_dag_run_db: XCom and row of one task after the other, then the run,
\* by its ids.
CleanTask(s, t) ==
    /\ At(s, "rows")
    /\ t \in handler[s].todo
    /\ ti' = IF Found(s) THEN [ti EXCEPT ![t] = "absent"] ELSE ti
    /\ xcom' = IF t = First THEN xcom \ {handler[s].run} ELSE xcom
    /\ handler' = [handler EXCEPT ![s].todo = @ \ {t}]
    /\ UNCHANGED <<fileVars, parsed, validated, requests, dagrun, procs, tmp>>

\* Mutants: the run is deleted before the rows of its tasks; it is kept.
CleanRunFirst(s) ==
    /\ At(s, "rows")
    /\ dagrun' = 0
    /\ Goto(s, "trigger")
    /\ UNCHANGED <<fileVars, parsed, validated, requests, ti, procs, xcom, tmp>>

KeepRun(s) ==
    /\ At(s, "rows")
    /\ handler[s].todo = {}
    /\ Goto(s, "trigger")
    /\ UNCHANGED <<fileVars, parsed, validated, requests, airflowVars>>

CleanDagRun(s) ==
    /\ At(s, "rows")
    /\ handler[s].todo = {}
    /\ dagrun' = 0
    /\ ti' = NoTasks
    /\ Goto(s, "trigger")
    /\ UNCHANGED <<fileVars, parsed, validated, requests, procs, xcom, tmp>>

-----------------------------------------------------------------------------
(* trigger_dag *)

\* wes_run_workflow returns the run_id, whatever post_dag_runs returned.
Triggered(s, a) == Answer(s, IF handler[s].api = "wes" THEN "ok" ELSE a)

TriggerDag(s) ==
    /\ At(s, "trigger")
    /\ Goto(s, IF parsed THEN "query" ELSE "validate")
    /\ UNCHANGED <<fileVars, parsed, validated, requests, airflowVars>>

\* wait_until_dag_validated: one check for each md5 sum.
Validate(s) ==
    /\ At(s, "validate")
    /\ IF validated[s][py] = "unknown"
       THEN /\ validated' = [validated EXCEPT ![s][py] = "checking"]
            /\ handler' = [handler EXCEPT ![s].pc = "check", ![s].sum = py]
       ELSE /\ handler' = [handler EXCEPT ![s].pc = "poll", ![s].sum = py]
            /\ UNCHANGED validated
    /\ UNCHANGED <<fileVars, parsed, requests, airflowVars>>

Check(s) ==
    /\ At(s, "check")
    /\ validated' = [validated EXCEPT ![s][handler[s].sum] =
                        IF Loads THEN "success" ELSE "error"]
    /\ Goto(s, "poll")
    /\ UNCHANGED <<fileVars, parsed, requests, airflowVars>>

\* check_call raises an OSError: it is not caught before post_dag_runs.
CheckNotStarted(s) ==
    /\ SpawnErrors
    /\ At(s, "check")
    /\ Triggered(s, "failed")
    /\ UNCHANGED <<fileVars, parsed, validated, requests, airflowVars>>

\* Mutants: the loop ends with either status; it waits for a success.
PollEither(s) ==
    /\ At(s, "poll")
    /\ validated[s][handler[s].sum] \in {"success", "error"}
    /\ Goto(s, "query")
    /\ UNCHANGED <<fileVars, parsed, validated, requests, airflowVars>>

PollSuccess(s) ==
    /\ At(s, "poll")
    /\ validated[s][handler[s].sum] = "success"
    /\ Goto(s, "query")
    /\ UNCHANGED <<fileVars, parsed, validated, requests, airflowVars>>

\* The loop sleeps until the status is final.
Poll(s) ==
    /\ At(s, "poll")
    /\ validated[s][handler[s].sum] \in {"success", "error"}
    /\ IF validated[s][handler[s].sum] = "success" THEN Goto(s, "query")
                                                   ELSE Triggered(s, "failed")
    /\ UNCHANGED <<fileVars, parsed, validated, requests, airflowVars>>

\* create_dag_run: look for a run with the same ids, then insert one; the
\* table refuses a second one.
QueryDagRun(s) ==
    /\ At(s, "query")
    /\ IF dagrun # 0 THEN Triggered(s, "exists") ELSE Goto(s, "insert")
    /\ UNCHANGED <<fileVars, parsed, validated, requests, airflowVars>>

InsertDagRun(s) ==
    /\ At(s, "insert")
    /\ IF dagrun # 0
       THEN Triggered(s, "failed") /\ UNCHANGED <<dagrun, ti>>
       ELSE /\ dagrun' = handler[s].number
            /\ ti' = [t \in Task |-> "none"]
            /\ Triggered(s, "ok")
    /\ UNCHANGED <<fileVars, parsed, validated, requests, procs, xcom, tmp>>

-----------------------------------------------------------------------------
(* Airflow *)

\* The scheduler loads a DAG file from time to time, and keeps its row.
ParseDag ==
    /\ Loads
    /\ ~parsed
    /\ parsed' = TRUE
    /\ UNCHANGED <<fileVars, validated, handler, requests, airflowVars>>

StartTask(t) ==
    /\ parsed
    /\ ti[t] = "none"
    /\ t # First => ti[First] = "success"
    /\ ti' = [ti EXCEPT ![t] = "running"]
    /\ procs' = procs \cup {<<dagrun, t>>}
    /\ UNCHANGED <<fileVars, parsed, validated, handler, requests, dagrun,
                   xcom, tmp>>

\* A task ends by itself: well, as long as the folder of its run is there,
\* or with an error.
FinishTask(n, t) ==
    /\ <<n, t>> \in procs
    /\ dagrun = n /\ ti[t] = "running"
    /\ procs' = procs \ {<<n, t>>}
    /\ \/ /\ t = First \/ n \in tmp
          /\ tmp' = tmp \cup {n}
          /\ xcom' = IF t = First THEN xcom \cup {n} ELSE xcom
          /\ ti' = [ti EXCEPT ![t] = "success"]
       \/ /\ ti' = [ti EXCEPT ![t] = "failed"]
          /\ UNCHANGED <<xcom, tmp>>
    /\ UNCHANGED <<fileVars, parsed, validated, handler, requests, dagrun>>

\* Airflow ends a process whose task is not running any more; until then it
\* may have made the folder and pushed its report.
KillProcess(n, t) ==
    /\ <<n, t>> \in procs
    /\ ~(dagrun = n /\ ti[t] = "running")
    /\ procs' = procs \ {<<n, t>>}
    /\ \/ UNCHANGED <<tmp, xcom>>
       \/ t = First /\ tmp' = tmp \cup {n} /\ xcom' \in {xcom, xcom \cup {n}}
    /\ UNCHANGED <<fileVars, parsed, validated, handler, requests, dagrun, ti>>

-----------------------------------------------------------------------------

ServerStep(s) ==
    \/ ExportDag(s) \/ ConvertWorkflow(s) \/ WriteDag(s)
    \/ FindDagRun(s) \/ WaitOver(s) \/ StopOver(s)
    \/ RemoveTmpData(s) \/ CleanDagRun(s)
    \/ \E t \in Task : StopTask(s, t) \/ CleanTask(s, t)
    \/ TriggerDag(s) \/ Validate(s) \/ Check(s) \/ CheckNotStarted(s)
    \/ Poll(s) \/ QueryDagRun(s) \/ InsertDagRun(s)

Next ==
    \/ \E s \in Server : ServerStep(s)
    \/ \E s \in Server, api \in Api, attached \in BOOLEAN, content \in Content :
          Receive(s, api, attached, content)
    \/ ParseDag
    \/ \E t \in Task : StartTask(t)
    \/ \E n \in Number, t \in Task : FinishTask(n, t) \/ KillProcess(n, t)

Spec == Init /\ [][Next]_vars

\* A server goes on with its request.
FairSpec == Spec /\ \A s \in Server : WF_vars(ServerStep(s))

-----------------------------------------------------------------------------
(* Properties *)

\* There is a run only of a DAG that python3 could load: it is in DagModel,
\* or a check of this very content succeeded, in this request or earlier.
RunsOfLoadedDags == dagrun # 0 => Loads

\* What was exported is not replaced by a later request, whatever mix of
\* attached and embedded workflows is sent, good or bad.
ExportedStays == [][py # "none" => UNCHANGED fileVars]_vars

\* POST /dags/dag_runs never fails because of the earlier run with the same
\* ids ("we can't trigger the same DAG with the same run_id"): what it meets
\* when it triggers its own run is not the one that clean_up_dag_run found,
\* whatever the tasks of that one and the other servers are doing.
EarlierRunReplaced ==
    [][\A s \in Server :
          handler[s].api = "dags/dag_runs" /\ handler[s].pc \in {"query", "insert"}
                  /\ handler'[s].answer \in {"exists", "failed"}
              => dagrun # handler[s].run]_vars

\* The server waits for a check that no one makes any more: it was entered
\* as "checking" and could not be started.
Stuck(s) == At(s, "poll") /\ validated[s][handler[s].sum] = "checking"

\* Each trigger is answered ("waits untill it's validated and only after
\* that creates new DagRun", trigger_dag), whatever the check and the other
\* servers do, or its server is stuck.
RequestAnswered ==
    \A s \in Server : handler[s].pc = "trigger" ~> At(s, "idle") \/ Stuck(s)

=============================================================================
