-------------------------- MODULE SimulationProofs --------------------------
(***************************************************************************)
(* Proofs about Simulation, for every set of requests and every suite.     *)
(***************************************************************************)
EXTENDS Simulation, TLAPS

\* A thread starts with the first report; one that it has looked at has the
\* ids that it looked for, and ids are never taken back.
IdsCompleted ==
    \A r \in Request :
        /\ thread[r].at = "none" => thread[r].report = 1
        /\ thread[r].at \in {"run?", "run", "post", "sleep"}
               => dag_id[Current(r)] # Nobody
        /\ thread[r].at \in {"post", "sleep"} => run_id[Current(r)] # Nobody

SimulationInv == TypeOK /\ IdsCompleted /\ ReportsHaveIds

-----------------------------------------------------------------------------

ThreadState == [at : Phase, report : 1..(SuiteLength + 1)]

\* A thread that has not come to the end is at a report of the suite.
LEMMA CurrentInSuite ==
    ASSUME TypeOK, NEW r \in Request, thread[r].at \notin {"none", "over"}
    PROVE  Current(r) \in Index
BY SimulationAssumption DEF TypeOK, Current, Index

\* A thread that goes on with its report.
LEMMA TransitionType ==
    ASSUME TypeOK, NEW r \in Request, NEW from \in Phase \ {"none", "over"},
           NEW to \in Phase \ {"none", "over"}, Transition(r, from, to)
    PROVE  /\ thread' \in [Request -> ThreadState]
           /\ thread'[r].at = to /\ thread'[r].report = thread[r].report
           /\ thread[r].at = from
           /\ \A q \in Request \ {r} : thread'[q] = thread[q]
           /\ \A q \in Request :
                 thread'[q].report > SuiteLength => thread'[q].at \in {"none", "over"}
           /\ Current(r) \in Index
<1>1. thread[r].at = from /\ Current(r) \in Index
  BY CurrentInSuite DEF Transition
<1>2. /\ thread' \in [Request -> ThreadState]
      /\ thread'[r].at = to /\ thread'[r].report = thread[r].report
      /\ \A q \in Request \ {r} : thread'[q] = thread[q]
  BY DEF TypeOK, Transition, ThreadState
<1>3. thread'[r].report <= SuiteLength
  BY <1>1, <1>2, SimulationAssumption DEF Current, Index
<1>4. ~(thread'[r].report > SuiteLength)
  BY <1>2, <1>3, SimulationAssumption DEF ThreadState
<1>5. \A q \in Request :
          thread'[q].report > SuiteLength => thread'[q].at \in {"none", "over"}
  BY <1>2, <1>4 DEF TypeOK
<1> QED
  BY <1>1, <1>2, <1>5

LEMMA SimulationStarts == Init => SimulationInv
<1> SUFFICES ASSUME Init PROVE SimulationInv
  OBVIOUS
<1>1. TypeOK
  BY SimulationAssumption DEF Init, TypeOK, Ids, Index, Phase
<1>2. IdsCompleted /\ ReportsHaveIds
  BY DEF Init, IdsCompleted, ReportsHaveIds
<1> QED
  BY <1>1, <1>2 DEF SimulationInv

\* Steps that leave the suite and what was posted alone.
LEMMA CheckHolds ==
    ASSUME SimulationInv, NEW r \in Request, CheckDagId(r) \/ CheckRunId(r)
    PROVE  SimulationInv'
<1>1. UNCHANGED <<dag_id, run_id, posted>>
  BY DEF CheckDagId, CheckRunId
<1>2. CASE CheckDagId(r)
  <2> DEFINE to == IF dag_id[Current(r)] = Nobody THEN "dag" ELSE "run?"
  <2>1. Transition(r, "dag?", to)
    BY <1>2 DEF CheckDagId
  <2>2. to \in Phase \ {"none", "over"} /\ "dag?" \in Phase \ {"none", "over"}
    BY DEF Phase
  <2>3. to = "dag" \/ (to = "run?" /\ dag_id[Current(r)] # Nobody)
    OBVIOUS
  <2> HIDE DEF to
  <2>4. TypeOK'
    BY <1>1, <2>1, <2>2, TransitionType DEF SimulationInv, TypeOK, ThreadState
  <2>5. IdsCompleted'
    BY <1>1, <2>1, <2>2, <2>3, TransitionType
       DEF SimulationInv, IdsCompleted, Current
  <2> QED
    BY <1>1, <2>4, <2>5 DEF SimulationInv, ReportsHaveIds
<1>3. CASE CheckRunId(r)
  <2> DEFINE to == IF run_id[Current(r)] = Nobody THEN "run" ELSE "post"
  <2>1. Transition(r, "run?", to)
    BY <1>3 DEF CheckRunId
  <2>2. to \in Phase \ {"none", "over"} /\ "run?" \in Phase \ {"none", "over"}
    BY DEF Phase
  <2>3. to = "run" \/ (to = "post" /\ run_id[Current(r)] # Nobody)
    OBVIOUS
  <2> HIDE DEF to
  <2>4. TypeOK'
    BY <1>1, <2>1, <2>2, TransitionType DEF SimulationInv, TypeOK, ThreadState
  <2>5. IdsCompleted'
    BY <1>1, <2>1, <2>2, <2>3, TransitionType
       DEF SimulationInv, IdsCompleted, Current
  <2> QED
    BY <1>1, <2>4, <2>5 DEF SimulationInv, ReportsHaveIds
<1> QED
  BY <1>2, <1>3

\* An id that is set stays set, whoever sets it again.
LEMMA SetDagIdHolds ==
    ASSUME SimulationInv, NEW r \in Request, SetDagId(r)
    PROVE  SimulationInv'
<1>1. "dag" \in Phase \ {"none", "over"} /\ "run?" \in Phase \ {"none", "over"}
  BY DEF Phase
<1>2. Transition(r, "dag", "run?") /\ UNCHANGED <<run_id, posted>>
  BY DEF SetDagId
<1>3. Current(r) \in Index
  BY <1>1, <1>2, TransitionType DEF SimulationInv
<1>4. /\ dag_id' \in Ids /\ dag_id'[Current(r)] # Nobody
      /\ \A i \in Index : dag_id[i] # Nobody => dag_id'[i] # Nobody
  BY <1>3, SimulationAssumption DEF SetDagId, SimulationInv, TypeOK, Ids
<1>5. TypeOK'
  BY <1>1, <1>2, <1>4, TransitionType DEF SimulationInv, TypeOK, ThreadState
<1>6. ASSUME NEW q \in Request
      PROVE  /\ thread'[q].at = "none" => thread'[q].report = 1
             /\ thread'[q].at \in {"run?", "run", "post", "sleep"}
                    => dag_id'[Current(q)'] # Nobody
             /\ thread'[q].at \in {"post", "sleep"} => run_id'[Current(q)'] # Nobody
  <2>1. CASE q = r
    BY <1>1, <1>2, <1>4, <2>1, TransitionType DEF SimulationInv, Current
  <2>2. CASE q # r
    <3>1. thread'[q] = thread[q]
      BY <1>1, <1>2, <2>2, TransitionType DEF SimulationInv
    <3>2. thread[q].at \in {"run?", "run", "post", "sleep"} => Current(q) \in Index
      BY CurrentInSuite DEF SimulationInv
    <3> QED
      BY <1>2, <1>4, <3>1, <3>2 DEF SimulationInv, IdsCompleted, Current
  <2> QED
    BY <2>1, <2>2
<1> QED
  BY <1>2, <1>5, <1>6 DEF SimulationInv, IdsCompleted, ReportsHaveIds

LEMMA SetRunIdHolds ==
    ASSUME SimulationInv, NEW r \in Request, SetRunId(r)
    PROVE  SimulationInv'
<1>1. "run" \in Phase \ {"none", "over"} /\ "post" \in Phase \ {"none", "over"}
  BY DEF Phase
<1>2. Transition(r, "run", "post") /\ UNCHANGED <<dag_id, posted>>
  BY DEF SetRunId
<1>3. Current(r) \in Index
  BY <1>1, <1>2, TransitionType DEF SimulationInv
<1>4. /\ run_id' \in Ids /\ run_id'[Current(r)] # Nobody
      /\ \A i \in Index : run_id[i] # Nobody => run_id'[i] # Nobody
  BY <1>3, SimulationAssumption DEF SetRunId, SimulationInv, TypeOK, Ids
<1>5. TypeOK'
  BY <1>1, <1>2, <1>4, TransitionType DEF SimulationInv, TypeOK, ThreadState
<1>6. ASSUME NEW q \in Request
      PROVE  /\ thread'[q].at = "none" => thread'[q].report = 1
             /\ thread'[q].at \in {"run?", "run", "post", "sleep"}
                    => dag_id'[Current(q)'] # Nobody
             /\ thread'[q].at \in {"post", "sleep"} => run_id'[Current(q)'] # Nobody
  <2>1. CASE q = r
    BY <1>1, <1>2, <1>4, <2>1, TransitionType
       DEF SimulationInv, IdsCompleted, Current
  <2>2. CASE q # r
    <3>1. thread'[q] = thread[q]
      BY <1>1, <1>2, <2>2, TransitionType DEF SimulationInv
    <3>2. thread[q].at \in {"post", "sleep"} => Current(q) \in Index
      BY CurrentInSuite DEF SimulationInv
    <3> QED
      BY <1>2, <1>4, <3>1, <3>2 DEF SimulationInv, IdsCompleted, Current
  <2> QED
    BY <2>1, <2>2
<1> QED
  BY <1>2, <1>5, <1>6 DEF SimulationInv, IdsCompleted, ReportsHaveIds

LEMMA PostReportHolds ==
    ASSUME SimulationInv, NEW r \in Request, PostReport(r)
    PROVE  SimulationInv'
<1> DEFINE m == [report |-> Current(r), dag_id |-> dag_id[Current(r)],
                 run_id |-> run_id[Current(r)]]
<1>1. "post" \in Phase \ {"none", "over"} /\ "sleep" \in Phase \ {"none", "over"}
  BY DEF Phase
<1>2. Transition(r, "post", "sleep") /\ UNCHANGED <<dag_id, run_id>>
  BY DEF PostReport
<1>3. m \in Message /\ m.dag_id # Nobody /\ m.run_id # Nobody
  BY <1>1, <1>2, TransitionType
     DEF SimulationInv, TypeOK, IdsCompleted, Ids, Message
<1>4. posted' = [posted EXCEPT ![r] = Append(@, m)]
  BY DEF PostReport
<1> HIDE DEF m
<1>5. TypeOK'
  <2>1. Append(posted[r], m) \in Seq(Message)
    BY <1>3 DEF SimulationInv, TypeOK
  <2>2. posted' \in [Request -> Seq(Message)]
    BY <1>4, <2>1 DEF SimulationInv, TypeOK
  <2> QED
    BY <1>1, <1>2, <2>2, TransitionType DEF SimulationInv, TypeOK, ThreadState
<1>6. IdsCompleted'
  BY <1>1, <1>2, TransitionType DEF SimulationInv, IdsCompleted, Current
<1>7. ReportsHaveIds'
  <2> SUFFICES ASSUME NEW q \in Request, NEW n \in DOMAIN posted'[q]
               PROVE  posted'[q][n].dag_id # Nobody /\ posted'[q][n].run_id # Nobody
    BY DEF ReportsHaveIds
  <2>1. CASE q = r
    <3>1. posted'[q] = Append(posted[q], m) /\ posted[q] \in Seq(Message)
      BY <1>4, <2>1 DEF SimulationInv, TypeOK
    <3>2. \/ n \in DOMAIN posted[q] /\ posted'[q][n] = posted[q][n]
          \/ posted'[q][n] = m
      BY <1>3, <3>1
    <3> QED
      BY <1>3, <3>2 DEF SimulationInv, ReportsHaveIds
  <2>2. CASE q # r
    BY <1>4, <2>2 DEF SimulationInv, TypeOK, ReportsHaveIds
  <2> QED
    BY <2>1, <2>2
<1> QED
  BY <1>5, <1>6, <1>7 DEF SimulationInv

\* A thread that starts or goes on to the next report has looked at nothing.
LEMMA MoveOnHolds ==
    ASSUME SimulationInv, NEW r \in Request, StartThread(r) \/ NextReport(r)
    PROVE  SimulationInv'
<1>1. UNCHANGED <<dag_id, run_id, posted>>
  BY DEF StartThread, NextReport
<1>2. /\ thread' \in [Request -> ThreadState]
      /\ thread'[r].at \in {"dag?", "over"}
      /\ thread'[r].report > SuiteLength => thread'[r].at = "over"
      /\ \A q \in Request \ {r} : thread'[q] = thread[q]
  <2>1. CASE StartThread(r)
    <3>1. thread[r].report = 1
      BY <2>1 DEF StartThread, Transition, SimulationInv, IdsCompleted
    <3> QED
      BY <2>1, <3>1, SimulationAssumption
         DEF StartThread, Transition, SimulationInv, TypeOK, ThreadState, Phase
  <2>2. CASE NextReport(r)
    BY <2>2, CurrentInSuite, SimulationAssumption
       DEF NextReport, Current, Index, SimulationInv, TypeOK, ThreadState, Phase
  <2> QED
    BY <2>1, <2>2
<1>3. TypeOK'
  BY <1>1, <1>2 DEF SimulationInv, TypeOK, ThreadState
<1>4. IdsCompleted'
  BY <1>1, <1>2 DEF SimulationInv, IdsCompleted, Current
<1> QED
  BY <1>1, <1>3, <1>4 DEF SimulationInv, ReportsHaveIds

LEMMA SimulationInvariance == Spec => []SimulationInv
<1>1. SimulationInv /\ UNCHANGED vars => SimulationInv'
  BY DEF vars, SimulationInv, TypeOK, IdsCompleted, ReportsHaveIds, Current
<1>2. SimulationInv /\ [Next]_vars => SimulationInv'
  BY <1>1, CheckHolds, SetDagIdHolds, SetRunIdHolds, PostReportHolds, MoveOnHolds
     DEF Next, ThreadStep
<1> QED
  BY <1>2, SimulationStarts, PTL DEF Spec

-----------------------------------------------------------------------------

\* Every value stays in its type, and no thread goes past the suite.
THEOREM SimulationTypeCorrect == Spec => []TypeOK
BY SimulationInvariance, PTL DEF SimulationInv

\* No report is sent without ids, however many threads complete the suite.
THEOREM NoReportWithoutIds == Spec => []ReportsHaveIds
BY SimulationInvariance, PTL DEF SimulationInv

=============================================================================
