-------------------------- MODULE ConformanceProofs --------------------------
(***************************************************************************)
(* Proofs about Conformance, for suites of any length, any --range, any    *)
(* number of repeated results and every order of the threads.              *)
(***************************************************************************)
EXTENDS Conformance, FiniteSetTheorems, TLAPS

USE DEF vars, suite

-----------------------------------------------------------------------------
(* --range *)

\* An interval of --range is refused by int(), or has one number or two.
LEMMA IntervalForms ==
    ASSUME NEW interval \in Interval
    PROVE  \/ interval = <<>>
           \/ \E i \in 0..(SuiteLength + 1) : interval = <<i>>
           \/ \E i, j \in 0..(SuiteLength + 1) : interval = <<i, j>>
BY DEF Interval

\* But for a 0, the safety checks are right, and the indices lead to the numbers.
LEMMA IntervalRight ==
    ASSUME NEW interval \in Interval, \A n \in DOMAIN interval : interval[n] # 0
    PROVE  /\ Safe(interval) <=> Proper(interval)
           /\ Safe(interval) =>
                 /\ Closed(interval) \subseteq 0..(SuiteLength - 1)
                 /\ \A t \in Test : t - 1 \in Closed(interval) <=>
                       \/ interval = <<t>>
                       \/ Len(interval) = 2 /\ t \in interval[1]..interval[2]
BY SuiteAssumption, IntervalForms DEF Safe, Proper, Closed, Test

\* The tests at the selected indices are those that --range means, but for a 0.
LEMMA IndicesRight ==
    ASSUME NEW range \in Ranges, ~HasZero(range)
    PROVE  {Position(i) : i \in Indices(range)} = Meant(range)
<1>1. /\ Indices(range) \subseteq 0..(SuiteLength - 1)
      /\ \A t \in Test : t - 1 \in Indices(range) <=> t \in Meant(range)
  <2>1. CASE range = NoRange
    <3>1. Indices(range) = 0..(SuiteLength - 1) /\ Meant(range) = Test
      BY <2>1 DEF Indices, Meant
    <3> QED BY <3>1, SuiteAssumption DEF Test
  <2>2. CASE range # NoRange
    <3>1. \A k \in DOMAIN range : range[k] \in Interval
      BY <2>2 DEF Ranges
    <3>2. ASSUME NEW k \in DOMAIN range
          PROVE  /\ Safe(range[k]) <=> Proper(range[k])
                 /\ Safe(range[k]) =>
                       /\ Closed(range[k]) \subseteq 0..(SuiteLength - 1)
                       /\ \A t \in Test : t - 1 \in Closed(range[k]) <=>
                             \/ range[k] = <<t>>
                             \/ Len(range[k]) = 2 /\ t \in range[k][1]..range[k][2]
      BY <3>1, IntervalRight DEF HasZero
    <3>3. CASE \A k \in DOMAIN range : Safe(range[k])
      BY <2>2, <3>2, <3>3 DEF Indices, Meant
    <3>4. CASE \E k \in DOMAIN range : ~Safe(range[k])
      <4>1. Indices(range) = 0..(SuiteLength - 1) /\ Meant(range) = Test
        BY <3>2, <3>4 DEF Indices, Meant
      <4> QED BY <4>1, SuiteAssumption DEF Test
    <3> QED BY <3>3, <3>4
  <2> QED BY <2>1, <2>2
<1>2. Meant(range) \subseteq Test
  BY DEF Meant
<1>3. \A t \in Test : t = Position(t - 1)
  BY SuiteAssumption DEF Test, Position
<1>4. \A i \in 0..(SuiteLength - 1) : Position(i) \in Test /\ i = Position(i) - 1
  BY SuiteAssumption DEF Test, Position
<1> QED
  BY <1>1, <1>2, <1>3, <1>4

\* The indices of an interval that passes the checks are those of tests, or -1.
LEMMA PositionsOfTests ==
    ASSUME NEW range \in Ranges
    PROVE  {Position(i) : i \in Indices(range)} \subseteq Test
<1>1. Indices(range) \subseteq (-1)..(SuiteLength - 1)
  <2>1. CASE range # NoRange /\ \A k \in DOMAIN range : Safe(range[k])
    <3>1. ASSUME NEW k \in DOMAIN range
          PROVE  Closed(range[k]) \subseteq (-1)..(SuiteLength - 1)
      <4>1. range[k] \in Interval /\ Safe(range[k])
        BY <2>1, <3>1 DEF Ranges
      <4>2. CASE \E i \in 0..(SuiteLength + 1) : range[k] = <<i>>
        <5>1. PICK i \in 0..(SuiteLength + 1) : range[k] = <<i>>
          BY <4>2
        <5>2. i - 1 < SuiteLength /\ Closed(range[k]) = {i - 1}
          BY <4>1, <5>1 DEF Safe, Closed
        <5> QED BY <5>2, SuiteAssumption
      <4>3. CASE \E i, j \in 0..(SuiteLength + 1) : range[k] = <<i, j>>
        <5>1. PICK i \in 0..(SuiteLength + 1), j \in 0..(SuiteLength + 1) :
                 range[k] = <<i, j>>
          BY <4>3
        <5>2. j - 1 < SuiteLength /\ Closed(range[k]) = (i - 1)..(j - 1)
          BY <4>1, <5>1 DEF Safe, Closed
        <5> QED BY <5>2, SuiteAssumption
      <4> QED BY <4>1, <4>2, <4>3, IntervalForms DEF Safe
    <3> QED BY <2>1, <3>1 DEF Indices
  <2>2. CASE ~(range # NoRange /\ \A k \in DOMAIN range : Safe(range[k]))
    BY <2>2, SuiteAssumption DEF Indices
  <2> QED BY <2>1, <2>2
<1>2. \A i \in (-1)..(SuiteLength - 1) : Position(i) \in Test
  BY SuiteAssumption DEF Position, Test
<1> QED BY <1>1, <1>2

\* The tests that are run are those that --range means, but for a 0.
THEOREM RangeIsRight == Spec => []RangeRight
<1>1. Init => RangeRight
  <2> SUFFICES ASSUME Init, asked # {} PROVE selected = asked
    BY DEF RangeRight
  <2>1. PICK range \in Ranges :
           /\ selected = {Position(i) : i \in Indices(range)}
           /\ asked = IF HasZero(range) THEN {} ELSE Meant(range)
    BY DEF Init
  <2>2. ~HasZero(range)
    BY <2>1
  <2> QED BY <2>1, <2>2, IndicesRight
<1>2. RangeRight /\ [Next]_vars => RangeRight'
  <2>1. [Next]_vars => UNCHANGED <<selected, asked>>
    BY DEF Next, MainStep, SkipTest, TriggerDag, TriggerFailed, TriggerRaises, StartChecker,
           PrintReport, RunEnds, DoPost, PutResult, CheckResult, CheckRaises, CheckOver
  <2> QED BY <2>1 DEF RangeRight
<1> QED BY <1>1, <1>2, PTL DEF Spec

-----------------------------------------------------------------------------
(* Types *)

LEMMA QueueBound ==
    ASSUME NEW S \in SUBSET Test PROVE Cardinality(S) \in Nat
<1>1. IsFiniteSet(Test)
  BY FS_Interval, SuiteAssumption DEF Test
<1> QED BY <1>1, FS_Subset, FS_CardinalityType

\* Everything is within its type at first.
LEMMA TypeAtFirst ==
    ASSUME Init PROVE TypeOK
<1>1. selected \subseteq Test
  <2>1. PICK range \in Ranges : selected = {Position(i) : i \in Indices(range)}
    BY DEF Init
  <2> QED BY <2>1, PositionsOfTests
<1>2. asked \subseteq Test
  BY DEF Init, Meant
<1>3. Cardinality(selected) \in Nat
  BY <1>1, QueueBound
<1>4. repeats \in 0..MaxRepeats
  BY SuiteAssumption DEF Init
<1>5. /\ results_queue \in Seq(selected) /\ Len(results_queue) <= Cardinality(selected)
  BY <1>3 DEF Init
<1>6. main \in {"trigger", "over"} /\ exit \in {"none", "raised"}
  BY DEF Init
<1> QED BY <1>1, <1>2, <1>4, <1>5, <1>6 DEF Init, TypeOK

\* Everything stays within its type, and the queue within its size.
THEOREM TypeCorrect == Spec => []TypeOK
<1>1. Init => TypeOK
  BY TypeAtFirst
<1>2. TypeOK /\ [Next]_vars => TypeOK'
  <2> SUFFICES ASSUME TypeOK, [Next]_vars PROVE TypeOK'
    OBVIOUS
  <2>0. Cardinality(selected) \in Nat
    BY QueueBound DEF TypeOK
  <2>1. ASSUME NEW t \in Test, SkipTest(t) \/ TriggerDag(t) \/ TriggerFailed(t) \/ TriggerRaises(t)
        PROVE  TypeOK'
    BY <2>1 DEF SkipTest, TriggerDag, TriggerFailed, TriggerRaises, TypeOK
  <2>2. CASE StartChecker \/ PrintReport
    BY <2>2 DEF StartChecker, PrintReport, TypeOK
  <2>3. ASSUME NEW t \in Test, RunEnds(t) PROVE TypeOK'
    BY <2>3 DEF RunEnds, TypeOK
  <2>4. ASSUME NEW t \in Test, DoPost(t) PROVE TypeOK'
    <3>1. repeats' \in 0..MaxRepeats
      BY <2>4, SuiteAssumption DEF DoPost, TypeOK
    <3>2. t \in selected
      BY <2>4 DEF DoPost, TypeOK
    <3> QED BY <2>4, <3>1, <3>2 DEF DoPost, TypeOK
  <2>5. CASE PutResult
    BY <2>0, <2>5 DEF PutResult, TypeOK
  <2>6. CASE CheckResult
    <3>1. results_queue' \in Seq(selected) /\ Len(results_queue') <= Cardinality(selected)
      BY <2>0, <2>6 DEF CheckResult, TypeOK
    <3>2. Head(results_queue) \in selected
      BY <2>6 DEF CheckResult, TypeOK
    <3> QED BY <2>6, <3>1, <3>2 DEF CheckResult, get_unfinished_runs, TypeOK
  <2>7. CASE CheckOver
    BY <2>7 DEF CheckOver, TypeOK
  <2>8. CASE CheckRaises
    <3>1. results_queue' \in Seq(selected) /\ Len(results_queue') <= Cardinality(selected)
      BY <2>0, <2>8 DEF CheckRaises, TypeOK
    <3>2. Head(results_queue) \in selected
      BY <2>8 DEF CheckRaises, get_unfinished_runs
    <3> QED BY <2>8, <3>1, <3>2 DEF CheckRaises, TypeOK
  <2>9. CASE UNCHANGED vars
    BY <2>9 DEF TypeOK
  <2> QED BY <2>1, <2>2, <2>3, <2>4, <2>5, <2>6, <2>7, <2>8, <2>9 DEF Next, MainStep
<1> QED BY <1>1, <1>2, PTL DEF Spec

-----------------------------------------------------------------------------
(* The exit code *)

\* What waits for the checker is of tests whose run has reported.
Reported ==
    /\ \A t \in listener : run[t] = "reported"
    /\ \A k \in 1..Len(results_queue) : run[results_queue[k]] = "reported"

\* A test that trigger_dags has still to look at has no run; the checker is started
\* when all have been looked at, and nothing changes after the exit code.
Order ==
    /\ main = "trigger" => checker = "off" /\ exit = "none" /\ \A t \in todo : run[t] = "none"
    /\ main = "join" => exit = "none"
    /\ exit \in {"0", "1"} => main = "over" /\ checker \in {"over", "dead"}

\* The checker is over only when no test is unfinished and no check has raised; a
\* test that is finished without an error has reported what was expected, but for
\* one whose check raised, and a test with an error was not triggered or has not.
Verdicts ==
    /\ checker = "over" => finished = selected
    /\ checker # "dead" => culprit = {}
    /\ \A t \in finished : t \in error \/ t \in culprit \/ (t \in good /\ run[t] = "reported")
    /\ \A t \in error : t \notin good \/ run[t] = "none"
    /\ exit = "0" => error = {}
    /\ exit = "1" => error # {}

\* The exit code is 1 only if a test was not triggered or failed, and 0 only if
\* no finished test was or did, but for one whose check raised; with a checker
\* that came to its end, 0 is for the whole selection.
THEOREM ExitCodeIsRight == Spec => []ExitCodeRight
<1> DEFINE Judged == Reported /\ Order /\ Verdicts
<1>1. Init => Judged
  <2> SUFFICES ASSUME Init PROVE Judged
    OBVIOUS
  <2>1. Reported
    BY DEF Init, Reported
  <2>2. \A t \in todo : run[t] = "none"
    BY TypeAtFirst DEF Init, TypeOK
  <2>3. Order
    BY <2>2 DEF Init, Order
  <2>4. \A t \in error : t \notin good
    BY DEF Init
  <2>5. Verdicts
    BY <2>4 DEF Init, Verdicts
  <2> QED BY <2>1, <2>3, <2>5
<1>2. TypeOK /\ Judged /\ [Next]_vars => Judged'
  <2> SUFFICES ASSUME TypeOK, Judged, [Next]_vars PROVE Judged'
    OBVIOUS
  <2>0. /\ listener \subseteq Test /\ results_queue \in Seq(Test)
        /\ error \subseteq finished /\ finished \subseteq Test /\ todo \subseteq Test
        /\ run \in [Test -> {"none", "running", "ended", "reported"}]
    BY DEF TypeOK
  <2>1. ASSUME NEW t \in Test, SkipTest(t) \/ TriggerDag(t) \/ TriggerFailed(t) \/ TriggerRaises(t)
        PROVE  Judged'
    <3>1. Reported'
      BY <2>0, <2>1 DEF SkipTest, TriggerDag, TriggerFailed, TriggerRaises, Reported, Order
    <3>2. Order' /\ Verdicts'
      BY <2>0, <2>1 DEF SkipTest, TriggerDag, TriggerFailed, TriggerRaises, Order, Verdicts
    <3> QED BY <3>1, <3>2
  <2>2. CASE StartChecker \/ PrintReport
    BY <2>2 DEF StartChecker, PrintReport, Reported, Order, Verdicts, TypeOK
  <2>3. ASSUME NEW t \in Test, RunEnds(t) \/ DoPost(t)
        PROVE  Judged'
    <3>1. Reported'
      BY <2>0, <2>3 DEF RunEnds, DoPost, Reported
    <3>2. Order' /\ Verdicts'
      BY <2>0, <2>3 DEF RunEnds, DoPost, Order, Verdicts
    <3> QED BY <3>1, <3>2
  <2>4. CASE PutResult
    <3>1. PICK t \in listener : results_queue' = Append(results_queue, t)
      BY <2>4 DEF PutResult
    <3>2. Reported'
      BY <2>0, <2>4, <3>1 DEF PutResult, Reported
    <3>3. Order' /\ Verdicts'
      BY <2>4 DEF PutResult, Order, Verdicts
    <3> QED BY <3>2, <3>3
  <2>5. CASE CheckResult \/ CheckRaises
    <3>1. results_queue # <<>> /\ results_queue' = Tail(results_queue) /\ UNCHANGED <<run, listener>>
      BY <2>5 DEF CheckResult, CheckRaises
    <3>2. Reported' /\ run[Head(results_queue)] = "reported"
      BY <2>0, <3>1 DEF Reported
    <3>3. Order'
      BY <2>5 DEF CheckResult, CheckRaises, Order
    <3>4. CASE CheckResult
      BY <3>2, <3>4 DEF CheckResult, get_unfinished_runs, Order, Verdicts
    <3>5. CASE CheckRaises
      BY <3>2, <3>5 DEF CheckRaises, Order, Verdicts
    <3> QED BY <2>5, <3>2, <3>3, <3>4, <3>5
  <2>6. CASE CheckOver
    BY <2>6 DEF CheckOver, get_unfinished_runs, Reported, Order, Verdicts, TypeOK
  <2>7. CASE UNCHANGED vars
    BY <2>7 DEF Reported, Order, Verdicts
  <2> QED BY <2>1, <2>2, <2>3, <2>4, <2>5, <2>6, <2>7 DEF Next, MainStep
<1>3. TypeOK /\ Judged => ExitCodeRight
  BY DEF TypeOK, Reported, Order, Verdicts, ExitCodeRight
<1> QED BY <1>1, <1>2, <1>3, TypeCorrect, PTL DEF Spec

=============================================================================
