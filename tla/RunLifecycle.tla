---------------------------- MODULE RunLifecycle ----------------------------
(***************************************************************************)
(* What a run promises to whoever gets its reports and to the disk, without*)
(* its tasks, XCom and callbacks (docstrings of dag_on_success and         *)
(* dag_on_failure in utilities/report.py): each execution of the run comes *)
(* to one end, which is reported once, with the results after it if it is  *)
(* a success; only then are its data removed, and only after that is it    *)
(* executed again.                                                         *)
(***************************************************************************)
EXTENDS Naturals

CONSTANT Result     \* what a workflow can result in

VARIABLES
    state,          \* "running", or how the execution ended
    todo,           \* what is still to be done for it
    execution,      \* its number
    keeps,          \* are its data to be kept?
    data,           \* the data its reports lead to
    leftover,       \* those whose removal has failed
    result,         \* what it results in
    reports         \* what has been reported of this and earlier executions

vars == <<state, todo, execution, keeps, data, leftover, result, reports>>

Init ==
    /\ state = "running" /\ todo = "work" /\ execution = 0
    /\ keeps \in BOOLEAN /\ data = {} /\ leftover = {}
    /\ result \notin Result
    /\ reports = {}

\* Data and results are made while the run is running.
Work ==
    /\ todo = "work"
    /\ data \subseteq data'
    /\ UNCHANGED <<state, todo, execution, keeps, leftover, reports>>

End(outcome) ==
    /\ todo = "work"
    /\ state' = outcome
    /\ todo' = "report"
    /\ UNCHANGED <<execution, keeps, data, leftover, result, reports>>

ReportEnd ==
    /\ todo = "report"
    /\ reports' = reports \cup {[kind |-> "progress", state |-> state,
                                 clears |-> execution]}
    /\ todo' = IF state = "success" THEN "results" ELSE "clean_up"
    /\ UNCHANGED <<state, execution, keeps, data, leftover, result>>

\* A success has a result.
ReportResults ==
    /\ todo = "results"
    /\ result \in Result
    /\ reports' = reports \cup {[kind |-> "results", clears |-> execution,
                                 folder |-> result]}
    /\ todo' = "clean_up"
    /\ UNCHANGED <<state, execution, keeps, data, leftover, result>>

\* Removal is tried for all data; what stays is known to.
Remove ==
    /\ todo = "clean_up" /\ ~keeps
    /\ data' \subseteq data
    /\ leftover \subseteq leftover' /\ leftover' \subseteq leftover \cup data
    /\ data' \subseteq leftover'
    /\ UNCHANGED <<state, todo, execution, keeps, result, reports>>

Finish ==
    /\ todo = "clean_up"
    /\ keeps \/ data \subseteq leftover
    /\ todo' = "nothing"
    /\ UNCHANGED <<state, execution, keeps, data, leftover, result, reports>>

ExecuteAgain ==
    /\ todo = "nothing"
    /\ state' = "running" /\ todo' = "work"
    /\ execution' = execution + 1
    /\ UNCHANGED <<keeps, data, leftover, result, reports>>

Next ==
    \/ Work
    \/ \E outcome \in {"success", "failed"} : End(outcome)
    \/ ReportEnd \/ ReportResults
    \/ Remove \/ Finish
    \/ ExecuteAgain

Spec == Init /\ [][Next]_vars

=============================================================================
