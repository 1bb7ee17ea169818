----------------------------- MODULE Simulation -----------------------------
(***************************************************************************)
(* The simulation mode of the API server (utilities/simulation.py): a      *)
(* request that would trigger a dag run starts a thread instead, which     *)
(* sends the reports of a recorded suite one after another.  The suite is  *)
(* loaded once (CWLApiBackend.__init__); every thread walks over the same  *)
(* objects, and completes those that have no ids with the ids of its       *)
(* request, in place.                                                      *)
(***************************************************************************)
EXTENDS Naturals, Sequences

CONSTANTS
    Request,        \* requests, that is pairs of dag_id and run_id
    SuiteLength,    \* reports of the suite, all recorded without ids
    Nobody          \* the id that a report has before it gets one

ASSUME SimulationAssumption ==
    SuiteLength \in Nat /\ Nobody \notin Request

VARIABLES
    dag_id,         \* of each report of the suite: the request it is from
    run_id,         \* the same for the run_id
    thread,         \* the thread of each request: what it does, which report
    posted          \* history: what each thread has posted, in order

vars == <<dag_id, run_id, thread, posted>>

-----------------------------------------------------------------------------

Index == 1..SuiteLength

Ids == [Index -> Request \cup {Nobody}]

Message == [report : Index, dag_id : Request \cup {Nobody},
            run_id : Request \cup {Nobody}]

Phase == {"none", "dag?", "dag", "run?", "run", "post", "sleep", "over"}

TypeOK ==
    /\ dag_id \in Ids /\ run_id \in Ids
    /\ thread \in [Request -> [at : Phase, report : 1..(SuiteLength + 1)]]
    /\ \A r \in Request :
          thread[r].report > SuiteLength => thread[r].at \in {"none", "over"}
    /\ posted \in [Request -> Seq(Message)]

Init ==
    /\ dag_id = [i \in Index |-> Nobody]
    /\ run_id = [i \in Index |-> Nobody]
    /\ thread = [r \in Request |-> [at |-> "none", report |-> 1]]
    /\ posted = [r \in Request |-> <<>>]

Current(r) == thread[r].report

Transition(r, from, to) ==
    /\ thread[r].at = from
    /\ thread' = [thread EXCEPT ![r].at = to]

\* run_workflow_execution_simulation starts the thread and answers.
StartThread(r) ==
    /\ Transition(r, "none", IF SuiteLength = 0 THEN "over" ELSE "dag?")
    /\ UNCHANGED <<dag_id, run_id, posted>>

\* if "dag_id" not in the payload ...
CheckDagId(r) ==
    /\ Transition(r, "dag?", IF dag_id[Current(r)] = Nobody THEN "dag" ELSE "run?")
    /\ UNCHANGED <<dag_id, run_id, posted>>

\* ... set it.  Other threads run between the two.
SetDagId(r) ==
    /\ Transition(r, "dag", "run?")
    /\ dag_id' = [dag_id EXCEPT ![Current(r)] = r]
    /\ UNCHANGED <<run_id, posted>>

\* Mutant: only dag_id is completed.
SkipRunId(r) ==
    /\ Transition(r, "run?", "post")
    /\ UNCHANGED <<dag_id, run_id, posted>>

CheckRunId(r) ==
    /\ Transition(r, "run?", IF run_id[Current(r)] = Nobody THEN "run" ELSE "post")
    /\ UNCHANGED <<dag_id, run_id, posted>>

SetRunId(r) ==
    /\ Transition(r, "run", "post")
    /\ run_id' = [run_id EXCEPT ![Current(r)] = r]
    /\ UNCHANGED <<dag_id, posted>>

\* post_progress, post_results or post_status serialise the shared object.
PostReport(r) ==
    /\ Transition(r, "post", "sleep")
    /\ posted' = [posted EXCEPT ![r] = Append(@,
                     [report |-> Current(r), dag_id |-> dag_id[Current(r)],
                      run_id |-> run_id[Current(r)]])]
    /\ UNCHANGED <<dag_id, run_id>>

\* Mutants: the last report is left out; there is one more than recorded.
LeaveOutLast(r) ==
    /\ thread[r].at = "sleep"
    /\ thread' = [thread EXCEPT ![r] =
                     [at |-> IF @.report + 1 >= SuiteLength THEN "over" ELSE "dag?",
                      report |-> @.report + 1]]
    /\ UNCHANGED <<dag_id, run_id, posted>>

OneTooMany(r) ==
    /\ thread[r].at = "sleep"
    /\ thread' = [thread EXCEPT ![r] =
                     [at |-> IF @.report > SuiteLength THEN "over" ELSE "dag?",
                      report |-> @.report + 1]]
    /\ UNCHANGED <<dag_id, run_id, posted>>

\* sleep(delay), then the next report of the suite.
NextReport(r) ==
    /\ thread[r].at = "sleep"
    /\ thread' = [thread EXCEPT ![r] =
                     [at |-> IF @.report = SuiteLength THEN "over" ELSE "dag?",
                      report |-> @.report + 1]]
    /\ UNCHANGED <<dag_id, run_id, posted>>

ThreadStep(r) ==
    \/ CheckDagId(r) \/ SetDagId(r) \/ CheckRunId(r) \/ SetRunId(r)
    \/ PostReport(r) \/ NextReport(r)

Next == \E r \in Request : StartThread(r) \/ ThreadStep(r)

Spec == Init /\ [][Next]_vars

\* A thread runs as long as the server does; each post ends within 30 s.
FairSpec == Spec /\ \A r \in Request : WF_vars(ThreadStep(r))

-----------------------------------------------------------------------------
(* Properties *)

\* No report is sent without ids, however the threads interleave (a backup
\* of a report needs them for its key).  They need not be the ids of the
\* request, nor both of the same one: the suite is completed once.
ReportsHaveIds ==
    \A r \in Request : \A n \in DOMAIN posted[r] :
        posted[r][n].dag_id # Nobody /\ posted[r][n].run_id # Nobody

\* Each request that gets the first report gets the whole suite in the end.
WholeSuiteSent ==
    \A r \in Request :
        thread[r].at = "dag?" ~> Len(posted[r]) = SuiteLength

=============================================================================
