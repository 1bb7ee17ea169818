----------------------------- MODULE Conformance -----------------------------
(***************************************************************************)
(* cwl-airflow test (components/test/conformance.py): --range selects the  *)
(* tests of the suite (assert_and_fix_args_for_test), the main thread      *)
(* triggers a run for each test, the listener thread receives the reports  *)
(* of the runs and puts results and errors into a bounded queue, and the   *)
(* checker thread takes them out until every test is finished.  Then the   *)
(* exit code tells whether all tests passed.                               *)
(*                                                                         *)
(* What arrives comes from the delivery of reports (ReportDelivery): it    *)
(* may come more than once, after a late arrival or a replay.              *)
(***************************************************************************)
EXTENDS Integers, FiniteSets, Sequences

CONSTANTS
    SuiteLength,    \* how many tests the suite has
    MaxIntervals,   \* bound: how many intervals --range has
    MaxRepeats      \* bound: reports that arrive once more than they were sent

ASSUME SuiteAssumption ==
    SuiteLength \in Nat \ {0} /\ MaxIntervals \in Nat /\ MaxRepeats \in Nat

Test == 1..SuiteLength

VARIABLES
    selected,       \* the tests that are run
    asked,          \* history: those that --range means, {} if it has a 0
    good,           \* the tests whose run will give what is expected of it
    main,           \* the main thread
    todo,           \* tests that trigger_dags has still to look at
    error,          \* tests with an "error" in suite_data
    finished,       \* tests that are "finished" in suite_data
    culprit,        \* history: the test whose check raised, {} if none
    run,            \* the run of each test
    listener,       \* the item that the listener is putting, {} if none
    results_queue,  \* items that wait for the checker
    checker,        \* the checker thread
    repeats,        \* repeated arrivals so far
    exit            \* the exit code

suite == <<selected, asked, good, error, finished, culprit>>
vars == <<suite, main, todo, run, listener, results_queue, checker, repeats, exit>>

-----------------------------------------------------------------------------
(* --range: intervals that "," separates, as the numbers that "-" separates; *)
(* <<>> is one that int() refuses.                                           *)

NoRange == <<>>

Interval ==
    LET Number == 0..(SuiteLength + 1)
    IN  {<<>>} \cup {<<i>> : i \in Number} \cup {<<i, j>> : i, j \in Number}

Ranges == {NoRange} \cup UNION {[1..n -> Interval] : n \in 1..MaxIntervals}

\* An interval of indices, which are counted from 0, passes the safety checks.
Safe(interval) ==
    \/ Len(interval) = 1 /\ interval[1] - 1 < SuiteLength
    \/ /\ Len(interval) = 2
       /\ interval[1] - 1 < interval[2] - 1
       /\ interval[1] - 1 < SuiteLength /\ interval[2] - 1 < SuiteLength

\* Mutant: the second index is left out.
HalfOpen(interval) ==
    IF Len(interval) = 1 THEN {interval[1] - 1} ELSE (interval[1] - 1)..(interval[2] - 2)

\* range(first, second + 1): "need closed interval".
Closed(interval) ==
    IF Len(interval) = 1 THEN {interval[1] - 1} ELSE (interval[1] - 1)..(interval[2] - 1)

\* One interval that does not pass, or no --range, selects the whole suite.
Indices(range) ==
    IF range # NoRange /\ \A k \in DOMAIN range : Safe(range[k])
    THEN UNION {Closed(range[k]) : k \in DOMAIN range} ELSE 0..(SuiteLength - 1)

\* The test that suite_data[i] is; -1, which a 0 becomes, is the last one.
Position(i) == IF i = -1 THEN SuiteLength ELSE i + 1

\* What --range should mean: the tests with these numbers, if all are numbers of
\* tests and in order, else the whole suite.
Proper(interval) ==
    \/ Len(interval) = 1 /\ interval[1] \in Test
    \/ Len(interval) = 2 /\ {interval[1], interval[2]} \subseteq Test
          /\ interval[1] < interval[2]

Meant(range) ==
    IF range # NoRange /\ \A k \in DOMAIN range : Proper(range[k])
    THEN {t \in Test : \E k \in DOMAIN range :
             range[k] = <<t>> \/ (Len(range[k]) = 2 /\ t \in range[k][1]..range[k][2])}
    ELSE Test

HasZero(range) == \E k \in DOMAIN range : \E n \in DOMAIN range[k] : range[k][n] = 0

-----------------------------------------------------------------------------

\* The tests, threads, queue and counters stay within their types; the queue
\* never has more items than there are selected tests.
TypeOK ==
    /\ selected \subseteq Test /\ asked \subseteq Test
    /\ good \subseteq selected
    /\ main \in {"trigger", "join", "over"}
    /\ todo \subseteq selected
    /\ error \subseteq finished /\ finished \subseteq selected
    /\ culprit \subseteq finished
    /\ run \in [Test -> {"none", "running", "ended", "reported"}]
    /\ {t \in Test : run[t] # "none"} \subseteq selected
    /\ listener \in {{}} \cup {{t} : t \in selected}
    /\ results_queue \in Seq(selected)
    /\ Len(results_queue) <= Cardinality(selected)
    /\ checker \in {"off", "running", "over", "dead"}
    /\ repeats \in 0..MaxRepeats
    /\ exit \in {"none", "0", "1", "raised"}

\* After load_test_suite and create_dags: a test that could not be loaded is
\* finished, with an error.  A test that is loaded twice, as its index and as -1,
\* has a job that is no path any more (TypeError).
Init ==
    /\ \E range \in Ranges :
        /\ selected = {Position(i) : i \in Indices(range)}
        /\ asked = IF HasZero(range) THEN {} ELSE Meant(range)
        /\ IF {-1, SuiteLength - 1} \subseteq Indices(range)
           THEN main = "over" /\ exit = "raised" ELSE main = "trigger" /\ exit = "none"
    /\ good \in SUBSET selected
    /\ error \in SUBSET (selected \ good)
    /\ finished = error
    /\ culprit = {}
    /\ todo = selected
    /\ run = [t \in Test |-> "none"]
    /\ listener = {}
    /\ results_queue = <<>>
    /\ checker = "off"
    /\ repeats = 0

-----------------------------------------------------------------------------
(* The main thread *)

SkipTest(t) ==
    /\ main = "trigger" /\ t \in todo
    /\ t \in error
    /\ todo' = todo \ {t}
    /\ UNCHANGED <<suite, main, run, listener, results_queue, checker, repeats, exit>>

TriggerDag(t) ==
    /\ main = "trigger" /\ t \in todo
    /\ t \notin error
    /\ todo' = todo \ {t}
    /\ run' = [run EXCEPT ![t] = "running"]
    /\ UNCHANGED <<suite, main, listener, results_queue, checker, repeats, exit>>

\* The API refused, or, with --combine, the workflow could not be loaded.
TriggerFailed(t) ==
    /\ main = "trigger" /\ t \in todo
    /\ t \notin error
    /\ todo' = todo \ {t}
    /\ error' = error \cup {t}
    /\ finished' = finished \cup {t}
    /\ UNCHANGED <<selected, asked, good, culprit, main, run, listener, results_queue, checker, repeats, exit>>

\* requests.post raises (no connection), which ends the main thread and, as the
\* listener is a daemon, the command.  The same may happen before, in create_dags.
TriggerRaises(t) ==
    /\ main = "trigger" /\ t \in todo
    /\ t \notin error
    /\ main' = "over"
    /\ exit' = "raised"
    /\ UNCHANGED <<suite, todo, run, listener, results_queue, checker, repeats>>

StartChecker ==
    /\ main = "trigger" /\ todo = {}
    /\ main' = "join"
    /\ checker' = "running"
    /\ UNCHANGED <<suite, todo, run, listener, results_queue, repeats, exit>>

\* checker.join returns when the thread has ended, in whatever way.
PrintReport ==
    /\ main = "join" /\ checker \in {"over", "dead"}
    /\ main' = "over"
    /\ exit' = IF error # {} THEN "1" ELSE "0"
    /\ UNCHANGED <<suite, todo, run, listener, results_queue, checker, repeats>>

-----------------------------------------------------------------------------
(* Runs, and the listener *)

RunEnds(t) ==
    /\ run[t] = "running"
    /\ run' = [run EXCEPT ![t] = "ended"]
    /\ UNCHANGED <<suite, main, todo, listener, results_queue, checker, repeats, exit>>

\* do_POST: results of a run, or its error.  Requests are served one by one.
DoPost(t) ==
    /\ listener = {}
    /\ main # "over"
    /\ \/ run[t] = "ended" /\ UNCHANGED repeats
       \/ run[t] = "reported" /\ repeats < MaxRepeats /\ repeats' = repeats + 1
    /\ run' = [run EXCEPT ![t] = "reported"]
    /\ listener' = {t}
    /\ UNCHANGED <<suite, main, todo, results_queue, checker, exit>>

\* Mutant: the queue has no bound.
PutAlways ==
    /\ main # "over"
    /\ \E t \in listener : results_queue' = Append(results_queue, t)
    /\ listener' = {}
    /\ UNCHANGED <<suite, main, todo, run, checker, repeats, exit>>

\* results_queue.put blocks while the queue is full.
PutResult ==
    /\ main # "over"
    /\ Len(results_queue) < Cardinality(selected)
    /\ \E t \in listener : results_queue' = Append(results_queue, t)
    /\ listener' = {}
    /\ UNCHANGED <<suite, main, todo, run, checker, repeats, exit>>

-----------------------------------------------------------------------------
(* The checker *)

get_unfinished_runs == selected \ finished

\* Mutant: the first result of a test that fails ends the check of all.
CheckUntilError ==
    /\ checker = "running"
    /\ get_unfinished_runs # {}
    /\ results_queue # <<>>
    /\ results_queue' = Tail(results_queue)
    /\ finished' = finished \cup {Head(results_queue)}
    /\ IF Head(results_queue) \in good
       THEN UNCHANGED <<checker, error>>
       ELSE checker' = "over" /\ UNCHANGED error
    /\ UNCHANGED <<selected, asked, good, culprit, main, todo, run, listener, repeats, exit>>

\* A result of a test that is finished already, or of no test, is a
\* KeyError, which ends the thread.
CheckResult ==
    /\ checker = "running"
    /\ get_unfinished_runs # {}
    /\ results_queue # <<>>
    /\ results_queue' = Tail(results_queue)
    /\ LET t == Head(results_queue) IN
          IF t \notin get_unfinished_runs
          THEN checker' = "dead" /\ UNCHANGED <<error, finished>>
          ELSE /\ finished' = finished \cup {t}
               /\ error' = IF t \in good THEN error ELSE error \cup {t}
               /\ UNCHANGED checker
    /\ UNCHANGED <<selected, asked, good, culprit, main, todo, run, listener, repeats, exit>>

\* compare raises something else than CompareFail and KeyError, and no error is
\* set, or rmtree raises after an error was set or not; either way the test is
\* finished and the thread ends.
CheckRaises ==
    /\ checker = "running"
    /\ results_queue # <<>>
    /\ Head(results_queue) \in get_unfinished_runs
    /\ results_queue' = Tail(results_queue)
    /\ culprit' = {Head(results_queue)}
    /\ finished' = finished \cup culprit'
    /\ error' \in {error, error \cup (culprit' \ good)}
    /\ checker' = "dead"
    /\ UNCHANGED <<selected, asked, good, main, todo, run, listener, repeats, exit>>

\* Mutant: a test that was not triggered counts as unfinished.
WaitForReports ==
    /\ checker = "running"
    /\ \A t \in selected : run[t] = "reported"
    /\ checker' = "over"
    /\ UNCHANGED <<suite, main, todo, run, listener, results_queue, repeats, exit>>

CheckOver ==
    /\ checker = "running"
    /\ get_unfinished_runs = {}
    /\ checker' = "over"
    /\ UNCHANGED <<suite, main, todo, run, listener, results_queue, repeats, exit>>

-----------------------------------------------------------------------------

MainStep ==
    \/ \E t \in Test : SkipTest(t) \/ TriggerDag(t) \/ TriggerFailed(t) \/ TriggerRaises(t)
    \/ StartChecker \/ PrintReport

Next ==
    \/ MainStep
    \/ \E t \in Test : RunEnds(t) \/ DoPost(t)
    \/ PutResult
    \/ CheckResult \/ CheckRaises \/ CheckOver

Spec == Init /\ [][Next]_vars

\* Threads go on, runs come to an end, and their reports arrive (see
\* KeptReportDelivered of ReportDelivery).
FairSpec ==
    /\ Spec
    /\ WF_vars(MainStep) /\ WF_vars(PutResult) /\ WF_vars(CheckResult \/ CheckRaises \/ CheckOver)
    /\ \A t \in Test : WF_vars(RunEnds(t)) /\ SF_vars(DoPost(t))

-----------------------------------------------------------------------------
(* Properties *)

\* In whatever order the threads run and results arrive, the exit code is 1 only
\* if a test was not triggered or gave something else than expected, and 0 only
\* if no finished test did, but for one whose check raised; and it is 0 with the
\* checker having come to its end only if every test was triggered, finished and
\* gave what was expected.  When the checker died of a repeated result or of a
\* check that raised, tests that are not finished count as passed, against the
\* comment of print_report ("no need to check if "finished", because all items
\* shoud be finished at this step").
ExitCodeRight ==
    /\ exit = "1" => \E t \in finished : t \notin good \/ run[t] = "none"
    /\ exit = "0" => \A t \in finished \ culprit : t \in good /\ run[t] = "reported"
    /\ exit = "0" /\ checker = "over" => finished \ culprit = selected

\* The tests that are run are those that --range means, or all if it means none,
\* for indices that are counted from 0 and looked up after they were checked; but
\* for a 0, which passes the checks and becomes the index of the last test.
RangeRight == asked # {} => selected = asked

\* The command comes to an end, even if results arrive twice, the API
\* cannot be reached, or the checker dies with the queue full.
SuiteEnds == <>(exit # "none")

=============================================================================
