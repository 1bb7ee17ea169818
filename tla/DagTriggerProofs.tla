--------------------------- MODULE DagTriggerProofs ---------------------------
(***************************************************************************)
(* Proofs about DagTrigger, for any number of requests, any tasks and any  *)
(* mix of workflows: the types, what holds of the files and runs with one  *)
(* server, and that an earlier run is out of the way with any number.      *)
(***************************************************************************)
EXTENDS DagTrigger, TLAPS

USE DEF vars, fileVars, airflowVars

-----------------------------------------------------------------------------
(* Types *)

\* Requests are numbered in their order; a server that works on one has its number.
Numbered ==
    \A s \in Server : /\ handler[s].number <= requests
                      /\ handler[s].pc # "idle" => handler[s].number # 0

TypeInv == TypeOK /\ Numbered

\* A server that goes on to the next place in its request keeps all else of it.
LEMMA GotoType ==
    ASSUME handler \in [Server -> Handler], Numbered, NEW s \in Server, ~At(s, "idle"),
           NEW pc \in {"export", "convert", "write", "find", "stop", "wait", "tmp", "rows",
                       "run", "trigger", "validate", "check", "poll", "query", "insert"},
           Goto(s, pc), requests' = requests
    PROVE  handler' \in [Server -> Handler] /\ Numbered'
<1>1. handler[s] \in Handler
  OBVIOUS
<1>2. [handler[s] EXCEPT !.pc = pc] \in Handler
  BY <1>1 DEF Handler
<1>3. handler' = [handler EXCEPT ![s] = [handler[s] EXCEPT !.pc = pc]]
  BY DEF Goto
<1>4. handler' \in [Server -> Handler]
  BY <1>2, <1>3
<1>5. Numbered'
  BY <1>1, <1>3 DEF Numbered, At, Handler
<1> QED BY <1>4, <1>5

LEMMA AnswerType ==
    ASSUME handler \in [Server -> Handler], Numbered, NEW s \in Server,
           NEW a \in {"ok", "exists", "failed"}, Answer(s, a), requests' = requests
    PROVE  handler' \in [Server -> Handler] /\ Numbered'
<1>1. handler[s] \in Handler
  OBVIOUS
<1> DEFINE answered == [handler[s] EXCEPT !.pc = "idle", !.answer = a, !.todo = {}]
<1>2. answered \in Handler /\ answered.pc = "idle" /\ answered.number = handler[s].number
  BY <1>1 DEF Handler
<1>3. handler' = [handler EXCEPT ![s] = answered]
  BY DEF Answer
<1> HIDE DEF answered
<1>4. handler' \in [Server -> Handler]
  BY <1>2, <1>3
<1>5. Numbered'
  BY <1>2, <1>3 DEF Numbered
<1> QED BY <1>4, <1>5

LEMMA ExportOverType ==
    ASSUME handler \in [Server -> Handler], Numbered, NEW s \in Server, ~At(s, "idle"),
           NEW a \in {"ok", "exists", "failed"}, ExportOver(s, a), requests' = requests
    PROVE  handler' \in [Server -> Handler] /\ Numbered'
BY GotoType, AnswerType DEF ExportOver

LEMMA TriggeredType ==
    ASSUME handler \in [Server -> Handler], Numbered, NEW s \in Server,
           NEW a \in {"ok", "exists", "failed"}, Triggered(s, a), requests' = requests
    PROVE  handler' \in [Server -> Handler] /\ Numbered'
BY AnswerType DEF Triggered

LEMMA ReadyType == Ready \in Handler
BY TriggerAssumption DEF Ready, Handler, Sum, DagFile

LEMMA TypeStarts == Init => TypeInv
<1> SUFFICES ASSUME Init PROVE TypeInv
  OBVIOUS
<1>2. handler \in [Server -> Handler] /\ \A s \in Server : handler[s] = Ready
  BY ReadyType DEF Init
<1>n. requests = 0 /\ Ready.number = 0 /\ Ready.pc = "idle"
  BY DEF Init, Ready
<1>o. Numbered
  <2> SUFFICES ASSUME NEW s \in Server
               PROVE  handler[s].number <= requests /\ handler[s].pc = "idle"
    BY DEF Numbered
  <2>1. handler[s] = Ready
    BY <1>2
  <2> QED BY <2>1, <1>n
<1>3. validated \in [Server -> [Sum -> Status]]
  BY DEF Init, Status
<1>4. /\ cwl \in Content \cup {"none"} /\ py \in DagFile /\ parsed \in BOOLEAN
      /\ procs = {} /\ xcom = {} /\ tmp = {}
  BY DEF Init, DagFile
<1>5. requests \in 0..MaxRequests /\ dagrun \in 0..requests
  BY TriggerAssumption DEF Init
<1>6. ti \in [Task -> TaskState] /\ \A t \in Task : ti[t] = "absent"
  BY DEF Init, NoTasks, TaskState
<1> QED BY <1>2, <1>o, <1>3, <1>4, <1>5, <1>6 DEF TypeInv, TypeOK

LEMMA TypeGoesOn == TypeInv /\ [Next]_vars => TypeInv'
<1> SUFFICES ASSUME TypeInv, [Next]_vars PROVE TypeInv'
  OBVIOUS
<1>0. /\ cwl \in Content \cup {"none"} /\ py \in DagFile /\ parsed \in BOOLEAN
      /\ validated \in [Server -> [Sum -> Status]]
      /\ handler \in [Server -> Handler] /\ Numbered
      /\ requests \in 0..MaxRequests /\ dagrun \in 0..requests
      /\ ti \in [Task -> TaskState]
      /\ dagrun = 0 => \A t \in Task : ti[t] = "absent"
      /\ procs \subseteq Number \X Task /\ xcom \subseteq Number /\ tmp \subseteq Number
      /\ MaxRequests \in Nat
  BY TriggerAssumption DEF TypeInv, TypeOK
<1>h. \A s \in Server : handler[s] \in Handler
  BY <1>0
<1> USE DEF TypeInv, TypeOK
<1>1. ASSUME NEW s \in Server, NEW api \in Api, NEW attached \in BOOLEAN,
             NEW content \in Content, Receive(s, api, attached, content)
      PROVE  TypeInv'
  <2> DEFINE new == [Ready EXCEPT !.pc = FirstStep[api], !.api = api,
                        !.content = IF api \in {"dag_runs", "wes"} THEN "none" ELSE content,
                        !.attached = attached, !.number = requests']
  <2>1. requests' = requests + 1 /\ requests' \in 1..MaxRequests
    BY <1>0, <1>1 DEF Receive
  <2>p. FirstStep[api] \in {"trigger", "write", "export"}
    BY DEF FirstStep
  <2>r. requests' \in 0..MaxRequests
    BY <1>0, <2>1
  <2>c. (IF api \in {"dag_runs", "wes"} THEN "none" ELSE content) \in Content \cup {"none"}
    OBVIOUS
  <2>2. new \in Handler /\ new.number = requests'
    BY <2>p, <2>r, <2>c, ReadyType DEF Handler
  <2>3. handler' = [handler EXCEPT ![s] = new]
    BY <1>1 DEF Receive
  <2> HIDE DEF new
  <2>4. handler' \in [Server -> Handler]
    BY <1>0, <2>2, <2>3
  <2>n. \A u \in Server : handler[u].number \in 0..MaxRequests
    BY <1>h DEF Handler
  <2>o. \A u \in Server : u # s => handler'[u] = handler[u]
    BY <1>0, <2>3
  <2>q. handler'[s].number = requests'
    BY <1>0, <2>2, <2>3
  <2>5. Numbered'
    BY <1>0, <2>1, <2>n, <2>o, <2>q DEF Numbered
  <2>6. dagrun' \in 0..requests'
    BY <1>0, <1>1, <2>1 DEF Receive
  <2> QED BY <1>0, <1>1, <2>1, <2>4, <2>5, <2>6 DEF Receive
<1>2. ASSUME NEW s \in Server, ExportDag(s) PROVE TypeInv'
  <2>1. ~At(s, "idle") /\ requests' = requests
    BY <1>2 DEF ExportDag, At
  <2>2. handler' \in [Server -> Handler] /\ Numbered'
    BY <1>0, <1>2, <2>1, GotoType, ExportOverType DEF ExportDag
  <2>3. cwl' \in Content \cup {"none"}
    BY <1>0, <1>h, <1>2 DEF ExportDag, Handler
  <2> QED BY <1>0, <1>2, <2>2, <2>3 DEF ExportDag
<1>3. ASSUME NEW s \in Server, ConvertWorkflow(s) PROVE TypeInv'
  <2>1. ~At(s, "idle") /\ requests' = requests
    BY <1>3 DEF ConvertWorkflow, At
  <2>2. handler' \in [Server -> Handler] /\ Numbered'
    BY <1>0, <1>3, <2>1, GotoType, ExportOverType DEF ConvertWorkflow
  <2> QED BY <1>0, <1>3, <2>2 DEF ConvertWorkflow
<1>4. ASSUME NEW s \in Server, WriteDag(s) PROVE TypeInv'
  <2>1. ~At(s, "idle") /\ requests' = requests
    BY <1>4 DEF WriteDag, At
  <2>2. handler' \in [Server -> Handler] /\ Numbered'
    BY <1>0, <1>4, <2>1, GotoType, ExportOverType DEF WriteDag
  <2>3. py' \in DagFile
    BY <1>0, <1>h, <1>4 DEF WriteDag, Handler, DagFile
  <2> QED BY <1>0, <1>4, <2>2, <2>3 DEF WriteDag
<1>5. ASSUME NEW s \in Server, FindDagRun(s) PROVE TypeInv'
  <2>p. PICK pc \in {"trigger", "stop"} : pc = IF dagrun = 0 THEN "trigger" ELSE "stop"
    OBVIOUS
  <2>t. PICK todo \in SUBSET Task : todo = {t \in Task : ti[t] = "running"}
    OBVIOUS
  <2> DEFINE found == [handler[s] EXCEPT !.pc = pc, !.run = dagrun, !.todo = todo]
  <2>d. dagrun \in 0..MaxRequests
    BY <1>0
  <2>1. found \in Handler /\ found.number = handler[s].number
    BY <1>h, <2>d DEF Handler
  <2>2. handler' = [handler EXCEPT ![s] = found] /\ handler[s].pc # "idle"
    BY <1>5, <2>p, <2>t DEF FindDagRun, At
  <2> HIDE DEF found
  <2>r. requests' = requests
    BY <1>5 DEF FindDagRun
  <2>3. handler' \in [Server -> Handler] /\ Numbered'
    BY <1>0, <2>1, <2>2, <2>r DEF Numbered
  <2> QED BY <1>0, <1>5, <2>3 DEF FindDagRun
<1>6. ASSUME NEW s \in Server, NEW t \in Task, StopTask(s, t) PROVE TypeInv'
  <2> DEFINE waiting == [handler[s] EXCEPT !.pc = "wait", !.todo = @ \ {t}]
  <2>1. waiting \in Handler /\ waiting.number = handler[s].number
    BY <1>0, <1>h DEF Handler
  <2>2. handler' = [handler EXCEPT ![s] = waiting] /\ handler[s].pc # "idle"
    BY <1>6 DEF StopTask, At
  <2> HIDE DEF waiting
  <2>3. handler' \in [Server -> Handler] /\ Numbered'
    BY <1>0, <1>6, <2>1, <2>2 DEF Numbered, StopTask
  <2>4. ti' \in [Task -> TaskState] /\ (dagrun = 0 => \A u \in Task : ti'[u] = "absent")
    BY <1>0, <1>6 DEF StopTask, TaskState
  <2> QED BY <1>0, <1>6, <2>3, <2>4 DEF StopTask
<1>7. ASSUME NEW s \in Server, WaitOver(s) \/ StopOver(s) PROVE TypeInv'
  <2>1. ~At(s, "idle") /\ requests' = requests
    BY <1>7 DEF WaitOver, StopOver, At
  <2>2. handler' \in [Server -> Handler] /\ Numbered'
    BY <1>0, <1>7, <2>1, GotoType DEF WaitOver, StopOver
  <2> QED BY <1>0, <1>7, <2>2 DEF WaitOver, StopOver
<1>8. ASSUME NEW s \in Server, RemoveTmpData(s) PROVE TypeInv'
  <2> DEFINE removed == [handler[s] EXCEPT !.pc = "rows", !.todo = Task]
  <2>1. removed \in Handler /\ removed.number = handler[s].number
    BY <1>0, <1>h DEF Handler
  <2>2. handler' = [handler EXCEPT ![s] = removed] /\ handler[s].pc # "idle"
    BY <1>8 DEF RemoveTmpData, At
  <2> HIDE DEF removed
  <2>3. handler' \in [Server -> Handler] /\ Numbered'
    BY <1>0, <1>8, <2>1, <2>2 DEF Numbered, RemoveTmpData
  <2> QED BY <1>0, <1>8, <2>3 DEF RemoveTmpData
<1>9. ASSUME NEW s \in Server, NEW t \in Task, CleanTask(s, t) PROVE TypeInv'
  <2> DEFINE cleaned == [handler[s] EXCEPT !.todo = @ \ {t}]
  <2>1. cleaned \in Handler /\ cleaned.number = handler[s].number
    BY <1>0, <1>h DEF Handler
  <2>2. handler' = [handler EXCEPT ![s] = cleaned] /\ handler[s].pc # "idle"
    BY <1>9 DEF CleanTask, At
  <2> HIDE DEF cleaned
  <2>3. handler' \in [Server -> Handler] /\ Numbered'
    BY <1>0, <1>9, <2>1, <2>2 DEF Numbered, CleanTask
  <2>4. ti' \in [Task -> TaskState] /\ (dagrun = 0 => \A u \in Task : ti'[u] = "absent")
    BY <1>0, <1>9 DEF CleanTask, TaskState
  <2> QED BY <1>0, <1>9, <2>3, <2>4 DEF CleanTask
<1>10. ASSUME NEW s \in Server, CleanDagRun(s) PROVE TypeInv'
  <2>1. ~At(s, "idle") /\ requests' = requests
    BY <1>10 DEF CleanDagRun, At
  <2>2. handler' \in [Server -> Handler] /\ Numbered'
    BY <1>0, <1>10, <2>1, GotoType DEF CleanDagRun
  <2> QED BY <1>0, <1>10, <2>2 DEF CleanDagRun, NoTasks, TaskState
<1>11. ASSUME NEW s \in Server, TriggerDag(s) PROVE TypeInv'
  <2>1. ~At(s, "idle") /\ requests' = requests
    BY <1>11 DEF TriggerDag, At
  <2>2. handler' \in [Server -> Handler] /\ Numbered'
    BY <1>0, <1>11, <2>1, GotoType DEF TriggerDag
  <2> QED BY <1>0, <1>11, <2>2 DEF TriggerDag
<1>12. ASSUME NEW s \in Server, Validate(s) PROVE TypeInv'
  <2>1. PICK pc \in {"check", "poll"} :
           handler' = [handler EXCEPT ![s] = [handler[s] EXCEPT !.pc = pc, !.sum = py]]
    BY <1>12 DEF Validate
  <2> DEFINE new == [handler[s] EXCEPT !.pc = pc, !.sum = py]
  <2>2. new \in Handler /\ new.number = handler[s].number
    BY <1>0, <1>h DEF Handler, Sum
  <2>3. handler[s].pc # "idle" /\ requests' = requests
    BY <1>12 DEF Validate, At
  <2> HIDE DEF new
  <2>4. handler' \in [Server -> Handler] /\ Numbered'
    BY <1>0, <2>1, <2>2, <2>3 DEF Numbered, new
  <2>5. validated' \in [Server -> [Sum -> Status]]
    BY <1>0, <1>12 DEF Validate, Status
  <2> QED BY <1>0, <1>12, <2>4, <2>5 DEF Validate
<1>13. ASSUME NEW s \in Server, Check(s) PROVE TypeInv'
  <2>1. ~At(s, "idle") /\ requests' = requests
    BY <1>13 DEF Check, At
  <2>2. handler' \in [Server -> Handler] /\ Numbered'
    BY <1>0, <1>13, <2>1, GotoType DEF Check
  <2>3. validated' \in [Server -> [Sum -> Status]]
    BY <1>0, <1>13 DEF Check, Status
  <2> QED BY <1>0, <1>13, <2>2, <2>3 DEF Check
<1>14. ASSUME NEW s \in Server, CheckNotStarted(s) PROVE TypeInv'
  <2>1. handler' \in [Server -> Handler] /\ Numbered'
    BY <1>0, <1>14, TriggeredType DEF CheckNotStarted
  <2> QED BY <1>0, <1>14, <2>1 DEF CheckNotStarted
<1>15. ASSUME NEW s \in Server, Poll(s) \/ QueryDagRun(s) PROVE TypeInv'
  <2>1. ~At(s, "idle") /\ requests' = requests
    BY <1>15 DEF Poll, QueryDagRun, At
  <2>2. handler' \in [Server -> Handler] /\ Numbered'
    BY <1>0, <1>15, <2>1, GotoType, TriggeredType DEF Poll, QueryDagRun
  <2> QED BY <1>0, <1>15, <2>2 DEF Poll, QueryDagRun
<1>16. ASSUME NEW s \in Server, InsertDagRun(s) PROVE TypeInv'
  <2>1. handler' \in [Server -> Handler] /\ Numbered'
    BY <1>0, <1>16, TriggeredType DEF InsertDagRun
  <2>n. handler[s].number \in 0..MaxRequests /\ handler[s].pc = "insert"
    BY <1>h, <1>16 DEF Handler, InsertDagRun, At
  <2>2. handler[s].number \in 1..requests
    BY <1>0, <2>n DEF Numbered
  <2>3. dagrun' \in 0..requests /\ ti' \in [Task -> TaskState]
        /\ (dagrun' = 0 => \A t \in Task : ti'[t] = "absent")
    BY <1>0, <1>16, <2>2 DEF InsertDagRun, TaskState
  <2> QED BY <1>0, <1>16, <2>1, <2>3 DEF InsertDagRun
<1>17. CASE ParseDag
  BY <1>0, <1>17 DEF ParseDag, Numbered
<1>18. ASSUME NEW t \in Task, StartTask(t) PROVE TypeInv'
  <2>1. dagrun \in Number
    BY <1>0, <1>18 DEF StartTask, Number
  <2> QED BY <1>0, <1>18, <2>1 DEF StartTask, Numbered, TaskState
<1>19. ASSUME NEW n \in Number, NEW t \in Task, FinishTask(n, t) PROVE TypeInv'
  <2>1. /\ xcom' \subseteq Number /\ tmp' \subseteq Number /\ procs' \subseteq Number \X Task
        /\ dagrun # 0
    BY <1>0, <1>19 DEF FinishTask
  <2>2. ti' \in [Task -> TaskState]
    BY <1>0, <1>19 DEF FinishTask, TaskState
  <2> QED BY <1>0, <1>19, <2>1, <2>2 DEF FinishTask, Numbered
<1>20. ASSUME NEW n \in Number, NEW t \in Task, KillProcess(n, t) PROVE TypeInv'
  BY <1>0, <1>20 DEF KillProcess, Numbered
<1>21. CASE UNCHANGED vars
  BY <1>0, <1>21 DEF Numbered
<1> QED
  BY <1>1, <1>2, <1>3, <1>4, <1>5, <1>6, <1>7, <1>8, <1>9, <1>10, <1>11, <1>12, <1>13,
     <1>14, <1>15, <1>16, <1>17, <1>18, <1>19, <1>20, <1>21 DEF Next, ServerStep

LEMMA TypeInvariance == Spec => []TypeInv
BY TypeStarts, TypeGoesOn, PTL DEF Spec

\* Every value stays in its type; in particular, task instances and processes
\* belong to a run that there is or was.
THEOREM TypeCorrect == Spec => []TypeOK
BY TypeInvariance, PTL DEF TypeInv

-----------------------------------------------------------------------------
(* What the steps of a server do to its request *)

\* The step is about the request of s and keeps what the request is.
SameRequest(s) ==
    /\ \A u \in Server : u # s => handler'[u] = handler[u]
    /\ handler'[s].number = handler[s].number
    /\ handler'[s].api = handler[s].api

LEMMA GotoEffect ==
    ASSUME handler \in [Server -> Handler], NEW s \in Server, NEW pc, Goto(s, pc)
    PROVE  /\ SameRequest(s) /\ handler'[s].pc = pc
           /\ handler'[s].answer = handler[s].answer
           /\ handler'[s].run = handler[s].run /\ handler'[s].sum = handler[s].sum
<1>1. handler[s] \in Handler
  OBVIOUS
<1>2. handler' = [handler EXCEPT ![s] = [handler[s] EXCEPT !.pc = pc]]
  BY DEF Goto
<1> QED BY <1>1, <1>2 DEF Handler, SameRequest

LEMMA AnswerEffect ==
    ASSUME handler \in [Server -> Handler], NEW s \in Server, NEW a, Answer(s, a)
    PROVE  /\ SameRequest(s) /\ handler'[s].pc = "idle"
           /\ handler'[s].run = handler[s].run /\ handler'[s].sum = handler[s].sum
<1>1. handler[s] \in Handler
  OBVIOUS
<1>2. handler' = [handler EXCEPT ![s] =
                    [handler[s] EXCEPT !.pc = "idle", !.answer = a, !.todo = {}]]
  BY DEF Answer
<1> QED BY <1>1, <1>2 DEF Handler, SameRequest

LEMMA ExportOverEffect ==
    ASSUME handler \in [Server -> Handler], NEW s \in Server, NEW a, ExportOver(s, a)
    PROVE  /\ SameRequest(s)
           /\ \/ handler'[s].pc = "idle"
              \/ handler'[s].pc = "find" /\ handler'[s].answer = handler[s].answer
           /\ handler'[s].run = handler[s].run /\ handler'[s].sum = handler[s].sum
<1>1. CASE handler[s].api = "dags"
  <2>1. Answer(s, a)
    BY <1>1 DEF ExportOver
  <2> QED BY <2>1, AnswerEffect
<1>2. CASE handler[s].api # "dags"
  <2>1. Goto(s, "find")
    BY <1>2 DEF ExportOver
  <2> QED BY <2>1, GotoEffect
<1> QED BY <1>1, <1>2

LEMMA TriggeredEffect ==
    ASSUME handler \in [Server -> Handler], NEW s \in Server, NEW a, Triggered(s, a)
    PROVE  /\ SameRequest(s) /\ handler'[s].pc = "idle"
           /\ handler'[s].run = handler[s].run /\ handler'[s].sum = handler[s].sum
<1>1. PICK b : Answer(s, b)
  BY DEF Triggered
<1> QED BY <1>1, AnswerEffect

\* From its trigger on a request works on the new run.
Triggering == {"trigger", "validate", "check", "poll", "query", "insert"}

Effect(s) ==
    /\ SameRequest(s)
    /\ ~At(s, "idle")
    /\ requests' = requests
    /\ handler'[s].pc # "idle" => handler'[s].answer = handler[s].answer
    /\ handler'[s].run \in {handler[s].run, dagrun}
    /\ handler'[s].pc \in Triggering =>
          \/ handler[s].pc \in Triggering /\ handler'[s].run = handler[s].run
          \/ dagrun' = 0
          \/ handler[s].api = "wes"
    /\ \/ dagrun' \in {0, dagrun}
       \/ dagrun' = handler[s].number /\ handler'[s].pc = "idle"

LEMMA ServerStepEffect ==
    ASSUME TypeInv, NEW s \in Server, ServerStep(s)
    PROVE  Effect(s)
<1>0. handler \in [Server -> Handler] /\ handler[s] \in Handler
  BY DEF TypeInv, TypeOK
<1> USE DEF Effect, Triggering, At
<1>1. CASE ExportDag(s)
  <2>1. ExportOver(s, "exists") \/ Goto(s, "convert")
    BY <1>1 DEF ExportDag
  <2>2. /\ SameRequest(s) /\ handler'[s].run = handler[s].run
        /\ handler'[s].pc \in {"idle", "find", "convert"}
        /\ handler'[s].pc # "idle" => handler'[s].answer = handler[s].answer
    BY <1>0, <2>1, ExportOverEffect, GotoEffect
  <2> QED BY <1>1, <2>2 DEF ExportDag
<1>2. CASE ConvertWorkflow(s)
  <2>1. ExportOver(s, "failed") \/ Goto(s, "write")
    BY <1>2 DEF ConvertWorkflow
  <2>2. /\ SameRequest(s) /\ handler'[s].run = handler[s].run
        /\ handler'[s].pc \in {"idle", "find", "write"}
        /\ handler'[s].pc # "idle" => handler'[s].answer = handler[s].answer
    BY <1>0, <2>1, ExportOverEffect, GotoEffect
  <2> QED BY <1>2, <2>2 DEF ConvertWorkflow
<1>3. CASE WriteDag(s)
  <2>1. ExportOver(s, "ok") \/ (Goto(s, "trigger") /\ handler[s].api = "wes")
    BY <1>3 DEF WriteDag
  <2>2. /\ SameRequest(s) /\ handler'[s].run = handler[s].run
        /\ handler'[s].pc \in {"idle", "find"} \/ handler[s].api = "wes"
        /\ handler'[s].pc # "idle" => handler'[s].answer = handler[s].answer
    BY <1>0, <2>1, ExportOverEffect, GotoEffect
  <2> QED BY <1>3, <2>2 DEF WriteDag
<1>4. CASE FindDagRun(s)
  <2> DEFINE pc == IF dagrun = 0 THEN "trigger" ELSE "stop"
             todo == {t \in Task : ti[t] = "running"}
  <2>1. handler' = [handler EXCEPT ![s] =
                      [handler[s] EXCEPT !.pc = pc, !.run = dagrun, !.todo = todo]]
    BY <1>4 DEF FindDagRun
  <2>3. pc = "stop" \/ (pc = "trigger" /\ dagrun = 0)
    OBVIOUS
  <2> HIDE DEF pc, todo
  <2>2. /\ SameRequest(s) /\ handler'[s].run = dagrun
        /\ handler'[s].pc = pc /\ handler'[s].answer = handler[s].answer
    BY <1>0, <2>1 DEF Handler, SameRequest
  <2> QED BY <1>4, <2>2, <2>3 DEF FindDagRun
<1>5. ASSUME NEW t \in Task, StopTask(s, t) PROVE Effect(s)
  <2>1. handler' = [handler EXCEPT ![s] =
                      [handler[s] EXCEPT !.pc = "wait", !.todo = @ \ {t}]]
    BY <1>5 DEF StopTask
  <2>2. /\ SameRequest(s) /\ handler'[s].run = handler[s].run
        /\ handler'[s].pc = "wait" /\ handler'[s].answer = handler[s].answer
    BY <1>0, <2>1 DEF Handler, SameRequest
  <2> QED BY <1>5, <2>2 DEF StopTask
<1>6. CASE WaitOver(s) \/ StopOver(s)
  <2>1. Goto(s, "stop") \/ Goto(s, "tmp")
    BY <1>6 DEF WaitOver, StopOver
  <2>2. /\ SameRequest(s) /\ handler'[s].run = handler[s].run
        /\ handler'[s].pc \in {"stop", "tmp"} /\ handler'[s].answer = handler[s].answer
    BY <1>0, <2>1, GotoEffect
  <2> QED BY <1>6, <2>2 DEF WaitOver, StopOver
<1>7. CASE RemoveTmpData(s)
  <2>1. handler' = [handler EXCEPT ![s] = [handler[s] EXCEPT !.pc = "rows", !.todo = Task]]
    BY <1>7 DEF RemoveTmpData
  <2>2. /\ SameRequest(s) /\ handler'[s].run = handler[s].run
        /\ handler'[s].pc = "rows" /\ handler'[s].answer = handler[s].answer
    BY <1>0, <2>1 DEF Handler, SameRequest
  <2> QED BY <1>7, <2>2 DEF RemoveTmpData
<1>8. ASSUME NEW t \in Task, CleanTask(s, t) PROVE Effect(s)
  <2>1. handler' = [handler EXCEPT ![s] = [handler[s] EXCEPT !.todo = @ \ {t}]]
    BY <1>8 DEF CleanTask
  <2>3. handler[s].pc = "rows"
    BY <1>8 DEF CleanTask
  <2>2. /\ SameRequest(s) /\ handler'[s].run = handler[s].run
        /\ handler'[s].pc = "rows" /\ handler'[s].answer = handler[s].answer
    BY <1>0, <2>1, <2>3 DEF Handler, SameRequest
  <2> QED BY <1>8, <2>2 DEF CleanTask
<1>9. CASE CleanDagRun(s)
  <2>1. /\ SameRequest(s) /\ handler'[s].run = handler[s].run
        /\ handler'[s].answer = handler[s].answer
    BY <1>0, <1>9, GotoEffect DEF CleanDagRun
  <2> QED BY <1>9, <2>1 DEF CleanDagRun
<1>10. CASE TriggerDag(s) \/ Check(s)
  <2>1. Goto(s, "query") \/ Goto(s, "validate") \/ Goto(s, "poll")
    BY <1>10 DEF TriggerDag, Check
  <2>2. /\ SameRequest(s) /\ handler'[s].run = handler[s].run
        /\ handler'[s].answer = handler[s].answer
    BY <1>0, <2>1, GotoEffect
  <2> QED BY <1>10, <2>2 DEF TriggerDag, Check
<1>11. CASE Validate(s)
  <2>1. PICK pc : handler' = [handler EXCEPT ![s] = [handler[s] EXCEPT !.pc = pc, !.sum = py]]
    BY <1>11 DEF Validate
  <2>2. /\ SameRequest(s) /\ handler'[s].run = handler[s].run
        /\ handler'[s].answer = handler[s].answer
    BY <1>0, <2>1 DEF Handler, SameRequest
  <2> QED BY <1>11, <2>2 DEF Validate
<1>12. CASE CheckNotStarted(s) \/ Poll(s) \/ QueryDagRun(s)
  <2>1. \/ \E a : Triggered(s, a)
        \/ Goto(s, "query") \/ Goto(s, "insert")
    BY <1>12 DEF CheckNotStarted, Poll, QueryDagRun
  <2>2. /\ SameRequest(s) /\ handler'[s].run = handler[s].run
        /\ handler'[s].pc # "idle" => handler'[s].answer = handler[s].answer
    BY <1>0, <2>1, GotoEffect, TriggeredEffect
  <2> QED BY <1>12, <2>2 DEF CheckNotStarted, Poll, QueryDagRun
<1>13. CASE InsertDagRun(s)
  <2>1. \E a : Triggered(s, a)
    BY <1>13 DEF InsertDagRun
  <2>2. SameRequest(s) /\ handler'[s].run = handler[s].run /\ handler'[s].pc = "idle"
    BY <1>0, <2>1, TriggeredEffect
  <2> QED BY <1>13, <2>2 DEF InsertDagRun
<1> QED
  BY <1>1, <1>2, <1>3, <1>4, <1>5, <1>6, <1>7, <1>8, <1>9, <1>10, <1>11, <1>12, <1>13
     DEF ServerStep

-----------------------------------------------------------------------------
(* The earlier run is out of the way, with any number of servers *)

Working(s) == handler[s].pc # "idle"

\* A number is given once: no other request and no run, present or found, has
\* the number of a request that is worked on.
OwnNumber ==
    \A s \in Server : Working(s) =>
        /\ handler[s].number # dagrun
        /\ \A u \in Server : /\ handler[s].number # handler[u].run
                             /\ Working(u) /\ u # s => handler[s].number # handler[u].number

\* A request has no answer before its end.
NoAnswerYet == \A s \in Server : Working(s) => handler[s].answer = "none"

\* The run found has a number that was given, and when POST /dags/dag_runs goes
\* on to its trigger it is no more.
FoundRunGone ==
    \A s \in Server :
        /\ handler[s].run <= requests
        /\ handler[s].api = "dags/dag_runs" /\ handler[s].pc \in Triggering
               => dagrun = 0 \/ dagrun # handler[s].run

RunInv == OwnNumber /\ NoAnswerYet /\ FoundRunGone

LEMMA RunStarts == Init => RunInv
<1> SUFFICES ASSUME Init PROVE RunInv
  OBVIOUS
<1>1. \A s \in Server : handler[s] = Ready
  BY DEF Init
<1>2. Ready.pc = "idle" /\ Ready.run = 0 /\ requests = 0
  BY DEF Init, Ready
<1>3. \A s \in Server : handler[s].pc = "idle" /\ handler[s].run <= requests
  <2> SUFFICES ASSUME NEW s \in Server
               PROVE  handler[s].pc = "idle" /\ handler[s].run <= requests
    OBVIOUS
  <2>1. handler[s] = Ready
    BY <1>1
  <2> QED BY <1>2, <2>1
<1>4. OwnNumber /\ NoAnswerYet
  BY <1>3 DEF OwnNumber, NoAnswerYet, Working
<1>5. FoundRunGone
  <2>1. \A s \in Server : handler[s].pc \notin Triggering
    BY <1>3 DEF Triggering
  <2> QED BY <1>3, <2>1 DEF FoundRunGone
<1> QED BY <1>4, <1>5 DEF RunInv

\* A new request has a number above all others, and has found nothing.
LEMMA ReceiveEffect ==
    ASSUME TypeInv, NEW s \in Server, NEW api \in Api, NEW attached \in BOOLEAN,
           NEW content \in Content, Receive(s, api, attached, content)
    PROVE  /\ \A u \in Server : u # s => handler'[u] = handler[u]
           /\ handler'[s].number = requests + 1 /\ requests' = requests + 1
           /\ handler'[s].run = 0 /\ handler'[s].answer = "none"
           /\ handler'[s].api = api /\ handler'[s].pc = FirstStep[api]
           /\ handler'[s].attached = attached
<1>1. handler \in [Server -> Handler]
  BY DEF TypeInv, TypeOK
<1> DEFINE new == [Ready EXCEPT !.pc = FirstStep[api], !.api = api,
                      !.content = IF api \in {"dag_runs", "wes"} THEN "none" ELSE content,
                      !.attached = attached, !.number = requests']
<1>2. handler' = [handler EXCEPT ![s] = new] /\ requests' = requests + 1
  BY DEF Receive
<1>3. /\ new.number = requests' /\ new.run = 0 /\ new.answer = "none" /\ new.api = api
      /\ new.pc = FirstStep[api] /\ new.attached = attached
  BY DEF Ready
<1> HIDE DEF new
<1> QED BY <1>1, <1>2, <1>3

LEMMA RunGoesOn == TypeInv /\ RunInv /\ [Next]_vars => RunInv'
<1> SUFFICES ASSUME TypeInv, RunInv, [Next]_vars PROVE RunInv'
  OBVIOUS
<1> USE DEF RunInv, OwnNumber, NoAnswerYet, FoundRunGone, Working
<1>0. /\ requests \in Nat /\ dagrun \in Nat /\ dagrun <= requests
      /\ \A s \in Server : /\ handler[s].number \in Nat /\ handler[s].run \in Nat
                           /\ handler[s].number <= requests
                           /\ handler[s].pc # "idle" => handler[s].number # 0
  <2>1. /\ handler \in [Server -> Handler] /\ Numbered
        /\ requests \in 0..MaxRequests /\ dagrun \in 0..requests
    BY DEF TypeInv, TypeOK
  <2>2. \A s \in Server : handler[s].number \in 0..MaxRequests /\ handler[s].run \in 0..MaxRequests
    BY <2>1 DEF Handler
  <2> QED BY <2>1, <2>2, TriggerAssumption DEF Numbered
<1>1. ASSUME NEW s \in Server, ServerStep(s) PROVE RunInv'
  <2>1. Effect(s)
    BY <1>1, ServerStepEffect
  <2>2. handler[s].pc # "idle" /\ handler[s].number # 0 /\ handler[s].number # dagrun
        /\ dagrun' \in {0, dagrun, handler[s].number}
    BY <1>0, <2>1 DEF Effect, At
  <2>3. OwnNumber'
    BY <1>0, <2>1, <2>2 DEF Effect, SameRequest
  <2>4. NoAnswerYet'
    BY <2>1, <2>2 DEF Effect, SameRequest
  <2>5. ASSUME NEW u \in Server
        PROVE  /\ handler'[u].run <= requests'
               /\ handler'[u].api = "dags/dag_runs" /\ handler'[u].pc \in Triggering
                      => dagrun' = 0 \/ dagrun' # handler'[u].run
    <3>1. CASE u = s
      BY <1>0, <2>1, <2>2, <3>1 DEF Effect, SameRequest, Triggering
    <3>2. CASE u # s
      BY <1>0, <2>1, <2>2, <3>2 DEF Effect, SameRequest
    <3> QED BY <3>1, <3>2
  <2> QED BY <2>3, <2>4, <2>5
<1>2. ASSUME NEW s \in Server, NEW api \in Api, NEW attached \in BOOLEAN,
             NEW content \in Content, Receive(s, api, attached, content)
      PROVE  RunInv'
  <2>1. /\ \A u \in Server : u # s => handler'[u] = handler[u]
        /\ handler'[s].number = requests + 1 /\ requests' = requests + 1
        /\ handler'[s].run = 0 /\ handler'[s].answer = "none"
        /\ handler'[s].api = api /\ handler'[s].pc = FirstStep[api] /\ dagrun' = dagrun
    BY <1>2, ReceiveEffect DEF Receive
  <2>2. api = "dags/dag_runs" => FirstStep[api] = "export"
    BY DEF FirstStep
  <2>3. OwnNumber'
    BY <1>0, <2>1
  <2>4. NoAnswerYet'
    BY <2>1
  <2>5. FoundRunGone'
    BY <1>0, <2>1, <2>2 DEF Triggering
  <2> QED BY <2>3, <2>4, <2>5
<1>3. CASE UNCHANGED <<handler, requests, dagrun>>
  BY <1>3
<1>4. ParseDag \/ (\E t \in Task : StartTask(t))
         \/ (\E n \in Number, t \in Task : FinishTask(n, t) \/ KillProcess(n, t))
         \/ UNCHANGED vars
      => UNCHANGED <<handler, requests, dagrun>>
  BY DEF ParseDag, StartTask, FinishTask, KillProcess
<1> QED BY <1>1, <1>2, <1>3, <1>4 DEF Next

LEMMA RunInvariance == Spec => []RunInv
BY RunStarts, RunGoesOn, TypeInvariance, PTL DEF Spec

\* POST /dags/dag_runs never fails because of the earlier run with the same ids,
\* however many servers there are and whatever they and the tasks do.
THEOREM EarlierRunAlwaysReplaced == Spec => EarlierRunReplaced
<1> DEFINE Good == \A s \in Server :
              handler[s].api = "dags/dag_runs" /\ handler[s].pc \in {"query", "insert"}
                      /\ handler'[s].answer \in {"exists", "failed"}
                  => dagrun # handler[s].run
<1>1. TypeInv /\ RunInv /\ [Next]_vars => [Good]_vars
  <2> SUFFICES ASSUME TypeInv, RunInv, [Next]_vars, NEW s \in Server,
                      handler[s].api = "dags/dag_runs", handler[s].pc \in {"query", "insert"},
                      handler'[s].answer \in {"exists", "failed"}
               PROVE  dagrun # handler[s].run
    OBVIOUS
  <2>1. handler[s].answer = "none" /\ (dagrun = 0 \/ dagrun # handler[s].run)
    BY DEF RunInv, NoAnswerYet, FoundRunGone, Working, Triggering
  <2>2. handler'[s] # handler[s]
    BY <2>1
  <2>3. ServerStep(s)
    <3>1. ASSUME NEW u \in Server, ServerStep(u) PROVE u = s
      BY <2>2, <3>1, ServerStepEffect DEF Effect, SameRequest
    <3>2. ASSUME NEW u \in Server, NEW api \in Api, NEW attached \in BOOLEAN,
                 NEW content \in Content, Receive(u, api, attached, content)
          PROVE  FALSE
      <4>1. u = s
        BY <2>2, <3>2, ReceiveEffect
      <4> QED BY <3>2, <4>1 DEF Receive, At
    <3>3. ~(ParseDag \/ (\E t \in Task : StartTask(t))
              \/ (\E n \in Number, t \in Task : FinishTask(n, t) \/ KillProcess(n, t))
              \/ UNCHANGED vars)
      BY <2>2 DEF ParseDag, StartTask, FinishTask, KillProcess
    <3> QED BY <3>1, <3>2, <3>3 DEF Next
  <2>4. handler[s].pc \in {"query", "insert"} => QueryDagRun(s) \/ InsertDagRun(s)
    BY <2>3 DEF ServerStep, At, ExportDag, ConvertWorkflow, WriteDag, FindDagRun, WaitOver,
                StopOver, RemoveTmpData, CleanDagRun, StopTask, CleanTask, TriggerDag,
                Validate, Check, CheckNotStarted, Poll
  <2>5. dagrun # 0
    <3> SUFFICES ASSUME dagrun = 0 PROVE FALSE
      OBVIOUS
    <3>0. handler \in [Server -> Handler]
      BY DEF TypeInv, TypeOK
    <3>1. CASE QueryDagRun(s)
      <4>1. Goto(s, "insert")
        BY <3>1 DEF QueryDagRun
      <4> QED BY <2>1, <3>0, <4>1, GotoEffect
    <3>2. CASE InsertDagRun(s)
      <4>1. Answer(s, "ok")
        BY <3>2 DEF InsertDagRun, Triggered
      <4>2. handler' = [handler EXCEPT ![s] =
                          [handler[s] EXCEPT !.pc = "idle", !.answer = "ok", !.todo = {}]]
        BY <4>1 DEF Answer
      <4>3. handler[s] \in Handler
        BY <3>0
      <4>4. handler'[s].answer = "ok"
        BY <3>0, <4>2, <4>3 DEF Handler
      <4> QED BY <4>4
    <3> QED BY <2>4, <3>1, <3>2
  <2> QED BY <2>1, <2>5
<1> QED BY <1>1, TypeInvariance, RunInvariance, PTL DEF Spec, EarlierRunReplaced

-----------------------------------------------------------------------------
(* The files, with one server *)

OneServer == \A s, u \in Server : s = u

\* A server that is about to write a DAG file has seen that there is none, and
\* the only request that does not look is a first one.
WritesNewFile ==
    /\ requests = 0 => py = "none"
    /\ \A s \in Server : handler[s].pc \in {"convert", "write"} => py = "none"

LEMMA WriteStarts == Init => WritesNewFile
<1> SUFFICES ASSUME Init PROVE WritesNewFile
  OBVIOUS
<1>1. \A s \in Server : handler[s].pc = "idle"
  BY DEF Init, Ready
<1> QED BY <1>1 DEF WritesNewFile, Init

\* The places where a server touches the files, and how it gets there.
LEMMA FilesOfServerStep ==
    ASSUME TypeInv, NEW s \in Server, ServerStep(s)
    PROVE  /\ \/ UNCHANGED fileVars
              \/ py = "none" /\ py' = "none" /\ handler'[s].pc = "convert"
              \/ handler[s].pc = "write" /\ handler'[s].pc \in {"idle", "find", "trigger"}
           /\ handler'[s].pc \in {"convert", "write"} =>
                  \/ py = "none" /\ py' = "none"
                  \/ handler[s].pc = "convert" /\ UNCHANGED fileVars
<1>0. handler \in [Server -> Handler]
  BY DEF TypeInv, TypeOK
<1> USE DEF At
<1>1. CASE ExportDag(s)
  <2>1. CASE Goto(s, "convert") /\ py = "none"
    <3>1. handler'[s].pc = "convert"
      BY <1>0, <2>1, GotoEffect
    <3> QED BY <1>1, <2>1, <3>1 DEF ExportDag
  <2>2. CASE ExportOver(s, "exists") /\ UNCHANGED cwl
    <3>1. handler'[s].pc \in {"idle", "find"}
      BY <1>0, <2>2, ExportOverEffect
    <3> QED BY <1>1, <2>2, <3>1 DEF ExportDag
  <2> QED BY <1>1, <2>1, <2>2 DEF ExportDag
<1>2. CASE ConvertWorkflow(s)
  BY <1>2 DEF ConvertWorkflow
<1>3. CASE WriteDag(s)
  <2>1. ExportOver(s, "ok") \/ Goto(s, "trigger")
    BY <1>3 DEF WriteDag
  <2>2. handler'[s].pc \in {"idle", "find", "trigger"}
    BY <1>0, <2>1, ExportOverEffect, GotoEffect
  <2> QED BY <1>3, <2>2 DEF WriteDag
<1>4. ASSUME ~ExportDag(s), ~ConvertWorkflow(s), ~WriteDag(s)
      PROVE  UNCHANGED fileVars /\ handler'[s].pc \notin {"convert", "write"}
  <2>1. CASE CheckNotStarted(s) \/ Poll(s) \/ QueryDagRun(s) \/ InsertDagRun(s)
    <3>1. UNCHANGED fileVars
          /\ (\/ \E a : Triggered(s, a)
              \/ Goto(s, "query") \/ Goto(s, "insert"))
      BY <2>1 DEF CheckNotStarted, Poll, QueryDagRun, InsertDagRun
    <3> QED BY <1>0, <3>1, TriggeredEffect, GotoEffect
  <2>2. CASE WaitOver(s) \/ StopOver(s) \/ CleanDagRun(s) \/ TriggerDag(s) \/ Check(s)
    <3>1. PICK pc \in {"stop", "tmp", "trigger", "query", "validate", "poll"} : Goto(s, pc)
      BY <2>2 DEF WaitOver, StopOver, CleanDagRun, TriggerDag, Check
    <3>2. UNCHANGED fileVars
      BY <2>2 DEF WaitOver, StopOver, CleanDagRun, TriggerDag, Check
    <3>3. handler'[s].pc = pc
      BY <1>0, <3>1, GotoEffect
    <3> QED BY <3>2, <3>3
  <2>3. CASE FindDagRun(s)
    BY <1>0, <2>3 DEF FindDagRun, Handler
  <2>4. CASE RemoveTmpData(s)
    BY <1>0, <2>4 DEF RemoveTmpData, Handler
  <2>5. CASE Validate(s)
    <3>1. handler'[s].pc \in {"check", "poll"}
      BY <1>0, <2>5 DEF Validate, Handler
    <3> QED BY <2>5, <3>1 DEF Validate
  <2>6. ASSUME NEW t \in Task, StopTask(s, t)
        PROVE  UNCHANGED fileVars /\ handler'[s].pc = "wait"
    BY <1>0, <2>6 DEF StopTask, Handler
  <2>7. ASSUME NEW t \in Task, CleanTask(s, t)
        PROVE  UNCHANGED fileVars /\ handler'[s].pc = "rows"
    <3>1. handler[s].pc = "rows" /\ UNCHANGED fileVars
          /\ handler' = [handler EXCEPT ![s] = [handler[s] EXCEPT !.todo = @ \ {t}]]
      BY <2>7 DEF CleanTask
    <3>2. handler[s] \in Handler
      BY <1>0
    <3> QED BY <1>0, <3>1, <3>2 DEF Handler
  <2> QED BY <1>4, <2>1, <2>2, <2>3, <2>4, <2>5, <2>6, <2>7 DEF ServerStep
<1> QED BY <1>1, <1>2, <1>3, <1>4

\* Everything else leaves the files alone.
LEMMA OthersKeepFiles ==
    ASSUME \/ ParseDag
           \/ \E t \in Task : StartTask(t)
           \/ \E n \in Number, t \in Task : FinishTask(n, t) \/ KillProcess(n, t)
           \/ UNCHANGED vars
    PROVE  UNCHANGED <<fileVars, handler, requests, validated>>
BY DEF ParseDag, StartTask, FinishTask, KillProcess

LEMMA WriteGoesOn ==
    ASSUME OneServer, TypeInv, WritesNewFile, [Next]_vars
    PROVE  WritesNewFile' /\ (py # "none" => UNCHANGED fileVars)
<1> USE DEF WritesNewFile
<1>1. ASSUME NEW s \in Server, ServerStep(s)
      PROVE  WritesNewFile' /\ (py # "none" => UNCHANGED fileVars)
  <2>1. Effect(s)
    BY <1>1, ServerStepEffect
  <2>2. requests' # 0
    <3>1. Numbered /\ handler \in [Server -> Handler] /\ requests \in 0..MaxRequests
      BY DEF TypeInv, TypeOK
    <3>2. handler[s].number \in 0..MaxRequests
      BY <3>1 DEF Handler
    <3>3. handler[s].number # 0 /\ handler[s].number <= requests /\ requests' = requests
      BY <2>1, <3>1 DEF Effect, At, Numbered
    <3> QED BY <3>1, <3>2, <3>3, TriggerAssumption
  <2>3. \A u \in Server : u = s
    BY DEF OneServer
  <2> QED BY <1>1, <2>2, <2>3, FilesOfServerStep
<1>2. ASSUME NEW s \in Server, NEW api \in Api, NEW attached \in BOOLEAN,
             NEW content \in Content, Receive(s, api, attached, content)
      PROVE  WritesNewFile' /\ (py # "none" => UNCHANGED fileVars)
  <2>1. handler'[s].pc = FirstStep[api] /\ requests' = requests + 1 /\ UNCHANGED fileVars
        /\ (api = "wes" => requests = 0)
    BY <1>2, ReceiveEffect DEF Receive
  <2>2. FirstStep[api] # "convert" /\ (FirstStep[api] = "write" => api = "wes")
    BY DEF FirstStep
  <2>3. requests \in Nat
    BY TriggerAssumption DEF TypeInv, TypeOK
  <2>4. \A u \in Server : u = s
    BY DEF OneServer
  <2> QED BY <2>1, <2>2, <2>3, <2>4
<1>3. CASE UNCHANGED <<fileVars, handler, requests>>
  BY <1>3
<1> QED BY <1>1, <1>2, <1>3, OthersKeepFiles DEF Next

LEMMA WriteInvariance == ASSUME OneServer PROVE Spec => []WritesNewFile
BY WriteStarts, WriteGoesOn, TypeInvariance, PTL DEF Spec

\* With one server, what was exported is not replaced by a later request, in
\* whatever mix attached and embedded workflows are sent.
THEOREM ExportedAlwaysStays == ASSUME OneServer PROVE Spec => ExportedStays
<1>1. TypeInv /\ WritesNewFile /\ [Next]_vars => [py # "none" => UNCHANGED fileVars]_vars
  BY WriteGoesOn
<1> QED BY <1>1, TypeInvariance, WriteInvariance, PTL DEF Spec, ExportedStays

-----------------------------------------------------------------------------
(* Runs are of loaded DAGs, with one server *)

\* What stands for "python3 loads the DAG file": its row in DagModel, a check
\* that succeeded - it was of the present file - a request past its trigger,
\* and a run.  The check that is under way is of the present file too.
LoadedInv ==
    /\ parsed => Loads
    /\ \A s \in Server :
          /\ At(s, "check") => handler[s].sum = py
          /\ \A m \in Sum : validated[s][m] = "success" => Loads
          /\ handler[s].pc \in {"query", "insert"} => Loads
    /\ dagrun # 0 => Loads

LEMMA LoadedStarts == Init => LoadedInv
<1> SUFFICES ASSUME Init PROVE LoadedInv
  OBVIOUS
<1>1. \A s \in Server : handler[s].pc = "idle"
  BY DEF Init, Ready
<1>2. \A s \in Server, m \in Sum : validated[s][m] = "unknown"
  BY DEF Init
<1> QED BY <1>1, <1>2 DEF LoadedInv, Init, At

\* What a server step does to the statuses and to the way to a run.
LEMMA LoadedOfServerStep ==
    ASSUME TypeInv, NEW s \in Server, ServerStep(s)
    PROVE  /\ UNCHANGED parsed
           /\ \A u \in Server, m \in Sum : validated'[u][m] = "success" =>
                  \/ validated[u][m] = "success"
                  \/ At(s, "check") /\ Loads
           /\ handler'[s].pc = "check" => handler'[s].sum = py
           /\ handler'[s].pc \in {"query", "insert"} =>
                  \/ parsed
                  \/ \E m \in Sum : validated[s][m] = "success"
                  \/ At(s, "query")
           /\ dagrun' \in {0, dagrun} \/ At(s, "insert")
<1>0. handler \in [Server -> Handler] /\ validated \in [Server -> [Sum -> Status]] /\ py \in Sum
      /\ handler[s].sum \in Sum
  BY DEF TypeInv, TypeOK, Sum, Handler
<1> USE DEF At
<1>1. CASE ExportDag(s) \/ ConvertWorkflow(s) \/ WriteDag(s)
  <2>1. (\E a : ExportOver(s, a)) \/ Goto(s, "convert") \/ Goto(s, "write") \/ Goto(s, "trigger")
    BY <1>1 DEF ExportDag, ConvertWorkflow, WriteDag
  <2>2. handler'[s].pc \in {"idle", "find", "convert", "write", "trigger"}
    BY <1>0, <2>1, ExportOverEffect, GotoEffect
  <2>3. UNCHANGED <<parsed, validated, dagrun>>
    BY <1>1 DEF ExportDag, ConvertWorkflow, WriteDag
  <2> QED BY <2>2, <2>3
<1>2. CASE FindDagRun(s) \/ RemoveTmpData(s)
  <2>1. handler'[s].pc \in {"stop", "trigger", "rows"}
    <3>1. CASE FindDagRun(s)
      BY <1>0, <3>1 DEF FindDagRun, Handler
    <3>2. CASE RemoveTmpData(s)
      BY <1>0, <3>2 DEF RemoveTmpData, Handler
    <3> QED BY <1>2, <3>1, <3>2
  <2>2. UNCHANGED <<parsed, validated, dagrun>>
    BY <1>2 DEF FindDagRun, RemoveTmpData
  <2> QED BY <2>1, <2>2
<1>3. CASE WaitOver(s) \/ StopOver(s) \/ CleanDagRun(s)
  <2>1. Goto(s, "stop") \/ Goto(s, "tmp") \/ Goto(s, "trigger")
    BY <1>3 DEF WaitOver, StopOver, CleanDagRun
  <2>2. handler'[s].pc \in {"stop", "tmp", "trigger"}
    BY <1>0, <2>1, GotoEffect
  <2>3. UNCHANGED <<parsed, validated>> /\ dagrun' \in {0, dagrun}
    BY <1>3 DEF WaitOver, StopOver, CleanDagRun
  <2> QED BY <2>2, <2>3
<1>4. ASSUME NEW t \in Task, StopTask(s, t) \/ CleanTask(s, t)
      PROVE  handler'[s].pc \in {"wait", "rows"} /\ UNCHANGED <<parsed, validated, dagrun>>
  <2>1. CASE StopTask(s, t)
    BY <1>0, <2>1 DEF StopTask, Handler
  <2>2. CASE CleanTask(s, t)
    <3>1. handler[s].pc = "rows" /\ UNCHANGED <<parsed, validated, dagrun>>
          /\ handler' = [handler EXCEPT ![s] = [handler[s] EXCEPT !.todo = @ \ {t}]]
      BY <2>2 DEF CleanTask
    <3>2. handler[s] \in Handler
      BY <1>0
    <3> QED BY <1>0, <3>1, <3>2 DEF Handler
  <2> QED BY <1>4, <2>1, <2>2
<1>5. CASE TriggerDag(s)
  <2>1. Goto(s, "validate") \/ (Goto(s, "query") /\ parsed)
    BY <1>5 DEF TriggerDag
  <2>2. handler'[s].pc = "validate" \/ (handler'[s].pc = "query" /\ parsed)
    BY <1>0, <2>1, GotoEffect
  <2> QED BY <1>5, <2>2 DEF TriggerDag
<1>6. CASE Validate(s)
  <2>1. PICK pc \in {"check", "poll"} :
           handler' = [handler EXCEPT ![s] = [handler[s] EXCEPT !.pc = pc, !.sum = py]]
    BY <1>6 DEF Validate
  <2>2. handler[s] \in Handler
    BY <1>0
  <2>3. handler'[s].pc \in {"check", "poll"} /\ handler'[s].sum = py
    BY <1>0, <2>1, <2>2 DEF Handler
  <2>4. \A u \in Server, m \in Sum : validated'[u][m] = "success" => validated[u][m] = "success"
    BY <1>0, <1>6 DEF Validate
  <2> QED BY <1>6, <2>3, <2>4 DEF Validate
<1>7. CASE Check(s)
  <2>1. handler'[s].pc = "poll"
    BY <1>0, <1>7, GotoEffect DEF Check
  <2>2. \A u \in Server, m \in Sum : validated'[u][m] = "success" =>
           validated[u][m] = "success" \/ Loads
    BY <1>0, <1>7 DEF Check
  <2> QED BY <1>7, <2>1, <2>2 DEF Check
<1>8. CASE CheckNotStarted(s) \/ Poll(s)
  <2>1. (\E a : Triggered(s, a)) \/ (Goto(s, "query") /\ validated[s][handler[s].sum] = "success")
    BY <1>8 DEF CheckNotStarted, Poll
  <2>2. \/ handler'[s].pc = "idle"
        \/ handler'[s].pc = "query" /\ validated[s][handler[s].sum] = "success"
    BY <1>0, <2>1, GotoEffect, TriggeredEffect
  <2>3. UNCHANGED <<parsed, validated, dagrun>>
    BY <1>8 DEF CheckNotStarted, Poll
  <2> QED BY <1>0, <2>2, <2>3
<1>9. CASE QueryDagRun(s) \/ InsertDagRun(s)
  <2>1. (\E a : Triggered(s, a)) \/ (Goto(s, "insert") /\ At(s, "query"))
    BY <1>9 DEF QueryDagRun, InsertDagRun
  <2>2. handler'[s].pc = "idle" \/ (handler'[s].pc = "insert" /\ At(s, "query"))
    BY <1>0, <2>1, GotoEffect, TriggeredEffect
  <2>3. UNCHANGED <<parsed, validated>> /\ (dagrun' = dagrun \/ At(s, "insert"))
    BY <1>9 DEF QueryDagRun, InsertDagRun
  <2> QED BY <2>2, <2>3
<1> QED
  BY <1>1, <1>2, <1>3, <1>4, <1>5, <1>6, <1>7, <1>8, <1>9 DEF ServerStep

LEMMA LoadedGoesOn ==
    ASSUME OneServer, TypeInv, WritesNewFile, LoadedInv, [Next]_vars
    PROVE  LoadedInv'
\* What loads goes on to load: it is an exported file, which stays.
<1>1. Loads => Loads'
  <2>1. Loads => py # "none"
    BY DEF Loads
  <2> QED BY <2>1, WriteGoesOn DEF Loads
<1> USE DEF LoadedInv, At
<1>2. ASSUME NEW s \in Server, ServerStep(s) PROVE LoadedInv'
  <2>1. \A u \in Server : u = s
    BY DEF OneServer
  <2>2. handler'[s].pc = "check" => py' = py
    BY <1>2, FilesOfServerStep
  <2> QED BY <1>1, <1>2, <2>1, <2>2, LoadedOfServerStep
<1>3. ASSUME NEW s \in Server, NEW api \in Api, NEW attached \in BOOLEAN,
             NEW content \in Content, Receive(s, api, attached, content)
      PROVE  LoadedInv'
  <2>1. handler'[s].pc = FirstStep[api] /\ UNCHANGED <<parsed, validated, dagrun>>
    BY <1>3, ReceiveEffect DEF Receive
  <2>2. FirstStep[api] \in {"trigger", "write", "export"}
    BY DEF FirstStep
  <2>3. \A u \in Server : u = s
    BY DEF OneServer
  <2> QED BY <1>1, <2>1, <2>2, <2>3
<1>4. ASSUME \/ ParseDag
             \/ \E t \in Task : StartTask(t)
             \/ \E n \in Number, t \in Task : FinishTask(n, t) \/ KillProcess(n, t)
             \/ UNCHANGED vars
      PROVE  LoadedInv'
  <2>1. UNCHANGED <<fileVars, handler, validated>>
    BY <1>4, OthersKeepFiles
  <2>2. dagrun' = dagrun
    BY <1>4 DEF ParseDag, StartTask, FinishTask, KillProcess
  <2>3. parsed' = parsed \/ Loads
    BY <1>4 DEF ParseDag, StartTask, FinishTask, KillProcess
  <2> QED BY <1>1, <2>1, <2>2, <2>3
<1> QED BY <1>2, <1>3, <1>4 DEF Next

\* With one server, there is a run only of a DAG that python3 loads: its row is
\* in DagModel, or a check of this very file succeeded, now or earlier.
THEOREM RunsAlwaysOfLoadedDags == ASSUME OneServer PROVE Spec => []RunsOfLoadedDags
<1>1. LoadedInv => RunsOfLoadedDags
  BY DEF LoadedInv, RunsOfLoadedDags
<1> QED
  BY <1>1, LoadedStarts, LoadedGoesOn, TypeInvariance, WriteInvariance, PTL DEF Spec

=============================================================================
