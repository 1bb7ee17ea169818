------------------------ MODULE ReportDeliveryProofs ------------------------
(***************************************************************************)
(* Proofs about ReportDelivery, for every set of runs and servers and      *)
(* every number of callbacks and restarts: its type invariant, and that a  *)
(* report that is the only one of its key is never lost.                   *)
(***************************************************************************)
EXTENDS ReportDelivery, TLAPS

(* What makes SoleReportKept inductive: every report that is held anywhere *)
(* was made by a callback that has started.  A key with one callback so    *)
(* far therefore has one report only, and what a replay thread deletes is  *)
(* the report it has sent.                                                 *)

CallbackStarted ==
    \A r \in Run : callback[r].pc # "idle" => callback[r].seq >= 1

StoredUnderOwnKey ==
    \A k \in Key : variable[k] # NoReport =>
        /\ variable[k] \in Report
        /\ KeyOf(variable[k]) = k
        /\ variable[k].seq <= callback[k.run].seq

HeldByReplay ==
    \A t \in Replayer : replay[t].pc \in {"send", "delete"} =>
        /\ replay[t].msg \in Report
        /\ replay[t].msg.seq <= callback[replay[t].msg.run].seq

DeletesWhatWasSent ==
    \A t \in Replayer : replay[t].pc = "delete" => replay[t].msg \in received

AcceptedWasMade ==
    \A m \in accepted : m.seq <= callback[m.run].seq

IInv ==
    /\ TypeOK
    /\ CallbackStarted
    /\ StoredUnderOwnKey
    /\ HeldByReplay
    /\ DeletesWhatWasSent
    /\ AcceptedWasMade
    /\ SoleReportKept

-----------------------------------------------------------------------------
(* Reports and keys *)

\* A report is determined by its key and its number (the Variable key is
\* made of the route, the dag_id and the run_id of the payload).
LEMMA ReportOfKey ==
    ASSUME NEW m \in Report, NEW n \in Report,
           KeyOf(m) = KeyOf(n), m.seq = n.seq
    PROVE  m = n
BY DEF Report, KeyOf

\* A key is a key; an empty row is no report.
LEMMA Keys ==
    /\ \A m \in Report : KeyOf(m) \in Key /\ KeyOf(m).run = m.run
                         /\ m.run \in Run /\ m.seq \in 1..MaxCallbacks
    /\ \A k \in Key : k.run \in Run
    /\ NoReport \notin Report
    /\ NoReport \notin TaskReport
BY DEF Report, TaskReport, KeyOf, Key, Kind, NoReport

\* The report in the hands of a running callback.
LEMMA CurrentReport ==
    ASSUME TypeOK, CallbackStarted, NEW r \in Run, callback[r].pc # "idle"
    PROVE  /\ Current(r) \in Report
           /\ Current(r).run = r
           /\ Current(r).seq = callback[r].seq
BY BoundsAssumption
   DEF TypeOK, CallbackStarted, CallbackState, Current, Report, Kind

\* Going on after a report keeps the type and the number of the callback.
LEMMA AfterReportType ==
    ASSUME NEW c \in CallbackState
    PROVE  /\ AfterReport(c) \in CallbackState
           /\ AfterReport(c).seq = c.seq
           /\ AfterReport(c).pc # "idle" => c.success
BY DEF AfterReport, CallbackState, Kind

\* Going on to the next key leaves nothing in the thread's hands.
LEMMA NextKeyType ==
    ASSUME NEW s \in ReplayState
    PROVE  /\ NextKey(s) \in ReplayState
           /\ NextKey(s).pc \in {"sleep", "get"}
BY DEF NextKey, Asleep, ReplayState, Key, NoReport

-----------------------------------------------------------------------------
(* The invariant is inductive: one lemma for the initial states, one for   *)
(* each action that changes more than the environment.                     *)

LEMMA InitHolds == Init => IInv
BY BoundsAssumption
   DEF Init, IInv, TypeOK, CallbackStarted, StoredUnderOwnKey, HeldByReplay,
       DeletesWhatWasSent, AcceptedWasMade, SoleReportKept, CallbackState,
       ReplayState, Asleep, Kind, Report, TaskReport

\* A step that only lets the service get more reports keeps the invariant.
LEMMA EnvironmentHolds ==
    ASSUME IInv,
           UNCHANGED <<variable, callback, replay, restarts, acked, accepted,
                       undeleted>>,
           connection' \in BOOLEAN,
           network' \subseteq Report,
           received \subseteq received',
           received' \subseteq Report \cup TaskReport
    PROVE  IInv'
BY DEF IInv, TypeOK, CallbackStarted, StoredUnderOwnKey, HeldByReplay,
       DeletesWhatWasSent, AcceptedWasMade, SoleReportKept

LEMMA StartCallbackHolds ==
    ASSUME IInv, NEW r \in Run, NEW success \in BOOLEAN,
           StartCallback(r, success)
    PROVE  IInv'
<1>1. /\ callback' \in [Run -> CallbackState]
      /\ callback'[r].seq = callback[r].seq + 1
      /\ callback'[r].pc = "post"
      /\ \A q \in Run \ {r} : callback'[q] = callback[q]
  BY BoundsAssumption DEF IInv, TypeOK, StartCallback, CallbackState, Kind
<1>2. \A q \in Run : callback[q].seq \in Nat /\ callback[q].seq <= callback'[q].seq
  BY <1>1 DEF IInv, TypeOK, CallbackState
<1>3. TypeOK'
  BY <1>1 DEF IInv, TypeOK, StartCallback
<1>4. CallbackStarted'
  BY <1>1 DEF IInv, TypeOK, CallbackStarted, CallbackState
<1>5. StoredUnderOwnKey'
  BY <1>1, <1>2, Keys DEF IInv, TypeOK, StartCallback, StoredUnderOwnKey
<1>6. HeldByReplay' /\ DeletesWhatWasSent'
  BY <1>1, <1>2, Keys
     DEF IInv, TypeOK, StartCallback, HeldByReplay, DeletesWhatWasSent
<1>7. AcceptedWasMade'
  BY <1>1, <1>2, Keys DEF IInv, TypeOK, StartCallback, AcceptedWasMade
<1>8. SoleReportKept'
  \* A run that calls back for the first time has had no report accepted.
  <2> SUFFICES ASSUME NEW m \in accepted, callback'[m.run].seq = 1
               PROVE  m \in received \/ variable[KeyOf(m)] = m
    BY DEF StartCallback, SoleReportKept
  <2>1. m.run \in Run /\ m.seq \in 1..MaxCallbacks
    BY Keys DEF IInv, TypeOK
  <2>2. m.run # r
    BY <1>1, <2>1 DEF IInv, TypeOK, AcceptedWasMade, CallbackState
  <2> QED
    BY <1>1, <2>1, <2>2 DEF IInv, SoleReportKept
<1> QED
  BY <1>3, <1>4, <1>5, <1>6, <1>7, <1>8 DEF IInv

\* A step of a callback that keeps the Variables: the numbers of callbacks
\* stay, and what it gets accepted the service has.
LEMMA CallbackMovesOn ==
    ASSUME IInv, NEW r \in Run, callback[r].pc # "idle",
           UNCHANGED <<connection, variable, replay, restarts, undeleted>>,
           NEW c \in CallbackState, c.seq = callback[r].seq,
           callback' = [callback EXCEPT ![r] = c],
           network' \subseteq Report,
           received \subseteq received',
           received' \subseteq Report \cup TaskReport,
           acked' \subseteq Report \cup TaskReport,
           accepted \subseteq accepted',
           accepted' \subseteq accepted \cup ({Current(r)} \cap received')
    PROVE  IInv'
<1>1. /\ callback' \in [Run -> CallbackState]
      /\ \A q \in Run : callback'[q].seq = callback[q].seq
  BY DEF IInv, TypeOK
<1>2. /\ Current(r) \in Report
      /\ Current(r).run = r
      /\ Current(r).seq = callback[r].seq
  BY CurrentReport DEF IInv
<1>3. TypeOK'
  BY <1>1, <1>2 DEF IInv, TypeOK
<1>4. CallbackStarted'
  BY DEF IInv, TypeOK, CallbackStarted
<1>5. StoredUnderOwnKey' /\ HeldByReplay' /\ DeletesWhatWasSent'
  BY <1>1, Keys
     DEF IInv, TypeOK, StoredUnderOwnKey, HeldByReplay, DeletesWhatWasSent
<1>6. AcceptedWasMade'
  BY <1>1, <1>2, Keys DEF IInv, TypeOK, AcceptedWasMade, CallbackState
<1>7. SoleReportKept'
  BY <1>1, <1>2, Keys DEF IInv, TypeOK, SoleReportKept
<1> QED
  BY <1>3, <1>4, <1>5, <1>6, <1>7 DEF IInv

LEMMA CallbackIdleOrNot ==
    ASSUME IInv, NEW r \in Run, callback[r].pc # "idle"
    PROVE  /\ callback[r] \in CallbackState
           /\ Current(r) \in Report
           /\ [callback[r] EXCEPT !.pc = "idle"] \in CallbackState
           /\ [callback[r] EXCEPT !.pc = "idle"].seq = callback[r].seq
           /\ [callback[r] EXCEPT !.pc = "backup"] \in CallbackState
           /\ [callback[r] EXCEPT !.pc = "backup"].seq = callback[r].seq
<1>1. callback[r] \in CallbackState
  BY DEF IInv, TypeOK
<1> QED
  BY <1>1, CurrentReport DEF IInv, CallbackState

LEMMA PostHolds ==
    ASSUME IInv, NEW r \in Run,
           \/ PostDelivered(r) \/ PostSkipped(r)
           \/ PostFailed(r) \/ AbortCallback(r)
    PROVE  IInv'
<1> USE DEF IInv
<1>1. CASE PostDelivered(r)
  <2>1. callback[r].pc # "idle"
    BY <1>1 DEF PostDelivered
  <2>2. /\ AfterReport(callback[r]) \in CallbackState
        /\ AfterReport(callback[r]).seq = callback[r].seq
    BY <2>1, CallbackIdleOrNot, AfterReportType
  <2> QED
    BY <1>1, <2>1, <2>2, CallbackIdleOrNot,
       CallbackMovesOn DEF PostDelivered, TypeOK
<1>2. CASE PostSkipped(r)
  <2>1. callback[r].pc # "idle"
    BY <1>2 DEF PostSkipped
  <2>2. /\ AfterReport(callback[r]) \in CallbackState
        /\ AfterReport(callback[r]).seq = callback[r].seq
    BY <2>1, CallbackIdleOrNot, AfterReportType
  <2> QED
    BY <1>2, <2>1, <2>2, CallbackMovesOn DEF PostSkipped, TypeOK
<1>3. CASE PostFailed(r)
  <2>1. callback[r].pc # "idle"
    BY <1>3 DEF PostFailed
  <2> QED
    BY <1>3, <2>1, CallbackIdleOrNot,
       CallbackMovesOn DEF PostFailed, Unanswered, TypeOK
<1>4. CASE AbortCallback(r)
  BY <1>4, CallbackIdleOrNot, CallbackMovesOn DEF AbortCallback, TypeOK
<1> QED
  BY <1>1, <1>2, <1>3, <1>4

\* The report of a failed post replaces the row of its key only.
LEMMA BackupHolds ==
    ASSUME IInv, NEW r \in Run, Backup(r)
    PROVE  IInv'
<1> DEFINE m == Current(r)
           c == AfterReport(callback[r])
<1>1. /\ callback[r].pc # "idle"
      /\ m \in Report /\ m.run = r /\ m.seq = callback[r].seq
      /\ c \in CallbackState /\ c.seq = callback[r].seq
  BY CurrentReport, AfterReportType DEF IInv, Backup, TypeOK
<1> HIDE DEF m, c
<1>2. /\ variable' = [variable EXCEPT ![KeyOf(m)] = m]
      /\ accepted' = accepted \cup {m}
      /\ callback' = [callback EXCEPT ![r] = c]
      /\ UNCHANGED <<connection, replay, restarts, network, received, acked,
                     undeleted>>
  BY DEF Backup, m, c
<1>3. /\ callback' \in [Run -> CallbackState]
      /\ \A q \in Run : callback'[q].seq = callback[q].seq
  BY <1>1, <1>2 DEF IInv, TypeOK
<1>4. KeyOf(m) \in Key /\ KeyOf(m).run = r
  BY <1>1, Keys
<1>5. TypeOK'
  BY <1>1, <1>2, <1>3 DEF IInv, TypeOK
<1>6. CallbackStarted'
  BY <1>1, <1>2 DEF IInv, TypeOK, CallbackStarted
<1>7. StoredUnderOwnKey'
  BY <1>1, <1>2, <1>3, <1>4, Keys
     DEF IInv, TypeOK, StoredUnderOwnKey, CallbackState
<1>8. HeldByReplay' /\ DeletesWhatWasSent'
  BY <1>2, <1>3, Keys DEF IInv, TypeOK, HeldByReplay, DeletesWhatWasSent
<1>9. AcceptedWasMade'
  BY <1>1, <1>2, <1>3, Keys DEF IInv, TypeOK, AcceptedWasMade, CallbackState
<1>10. SoleReportKept'
  \* Another report of the same key and number 1 is the same report.
  <2> SUFFICES ASSUME NEW n \in accepted', callback'[n.run].seq = 1
               PROVE  n \in received \/ variable'[KeyOf(n)] = n
    BY <1>2 DEF SoleReportKept
  <2>1. n \in Report /\ n.run \in Run /\ n.seq \in 1..MaxCallbacks
        /\ KeyOf(n) \in Key
    BY <1>1, <1>2, Keys DEF IInv, TypeOK
  <2>2. CASE n = m
    BY <2>2, <1>2, <1>4 DEF IInv, TypeOK
  <2>3. CASE n # m /\ KeyOf(n) = KeyOf(m)
    <3>1. n.run = r
      BY <2>1, <2>3, <1>4, Keys
    <3>2. n.seq = 1 /\ m.seq = 1
      BY <3>1, <2>1, <2>3, <1>1, <1>2, <1>3
         DEF IInv, AcceptedWasMade
    <3> QED
      BY <3>2, <2>1, <2>3, <1>1, ReportOfKey
  <2>4. CASE KeyOf(n) # KeyOf(m)
    BY <2>1, <2>4, <1>2, <1>3 DEF IInv, TypeOK, SoleReportKept
  <2> QED
    BY <2>2, <2>3, <2>4
<1> QED
  BY <1>5, <1>6, <1>7, <1>8, <1>9, <1>10 DEF IInv

\* Task progress is posted without a backup: only the service notices.
LEMMA TaskProgressHolds ==
    ASSUME IInv, NEW r \in Run, TaskProgress(r)
    PROVE  IInv'
<1> DEFINE m == [kind |-> "progress", run |-> r, seq |-> 0]
<1>1. m \in TaskReport
  BY DEF TaskReport
<1>2. /\ UNCHANGED <<connection, variable, callback, replay, restarts,
                     network, accepted, undeleted>>
      /\ received' \in {received, received \cup {m}}
      /\ acked' \in {acked, acked \cup {m}}
  BY DEF TaskProgress, WithBackup
<1> QED
  BY <1>1, <1>2
     DEF IInv, TypeOK, CallbackStarted, StoredUnderOwnKey, HeldByReplay,
         DeletesWhatWasSent, AcceptedWasMade, SoleReportKept

-----------------------------------------------------------------------------
(* The replay thread *)

\* A step of a replay thread that keeps the Variables.
LEMMA ReplayMovesOn ==
    ASSUME IInv, NEW t \in Replayer, NEW s \in ReplayState,
           replay' = [replay EXCEPT ![t] = s],
           UNCHANGED <<connection, variable, callback, accepted>>,
           s.pc \in {"send", "delete"} =>
               /\ s.msg \in Report
               /\ s.msg.seq <= callback[s.msg.run].seq,
           s.pc = "delete" => s.msg \in received',
           restarts' \in 0..MaxRestarts,
           network' \subseteq Report,
           received \subseteq received',
           received' \subseteq Report \cup TaskReport,
           acked' \subseteq Report \cup TaskReport,
           undeleted' \subseteq Report \cup TaskReport
    PROVE  IInv'
<1>1. \A u \in Replayer : replay'[u] = IF u = t THEN s ELSE replay[u]
  BY DEF IInv, TypeOK
<1>2. TypeOK'
  BY <1>1, Keys DEF IInv, TypeOK
<1>3. HeldByReplay' /\ DeletesWhatWasSent'
  BY <1>1 DEF IInv, HeldByReplay, DeletesWhatWasSent
<1>4. /\ CallbackStarted' /\ StoredUnderOwnKey'
      /\ AcceptedWasMade' /\ SoleReportKept'
  BY DEF IInv, CallbackStarted, StoredUnderOwnKey, AcceptedWasMade,
         SoleReportKept
<1> QED
  BY <1>2, <1>3, <1>4 DEF IInv

LEMMA QueryHolds ==
    ASSUME IInv, NEW t \in Replayer, QueryVariables(t)
    PROVE  IInv'
<1> DEFINE s == NextKey([replay[t] EXCEPT
                    !.keys = {k \in Key : variable[k] # NoReport}])
<1>1. replay[t] \in ReplayState
  BY DEF IInv, TypeOK
<1>2. [replay[t] EXCEPT !.keys = {k \in Key : variable[k] # NoReport}]
        \in ReplayState
  BY <1>1 DEF ReplayState
<1>3. s \in ReplayState /\ s.pc \in {"sleep", "get"}
  BY <1>2, NextKeyType
<1>4. replay' = [replay EXCEPT ![t] = s]
  BY DEF QueryVariables
<1> HIDE DEF s
<1> QED
  BY <1>3, <1>4, ReplayMovesOn DEF QueryVariables, IInv, TypeOK

LEMMA GetVariableHolds ==
    ASSUME IInv, NEW t \in Replayer, NEW k \in Key, GetVariable(t, k)
    PROVE  IInv'
<1>1. CASE variable[k] = NoReport
  <2> DEFINE s == [Asleep EXCEPT !.pc = "dead"]
  <2>1. s \in ReplayState /\ s.pc = "dead"
    BY DEF Asleep, ReplayState
  <2>2. replay' = [replay EXCEPT ![t] = s]
    BY <1>1 DEF GetVariable
  <2> HIDE DEF s
  <2> QED
    BY <2>1, <2>2, ReplayMovesOn DEF GetVariable, IInv, TypeOK
<1>2. CASE variable[k] # NoReport
  <2> DEFINE s == [pc |-> "send", keys |-> replay[t].keys \ {k},
                   msg |-> variable[k]]
  <2>1. /\ variable[k] \in Report
        /\ variable[k].seq <= callback[variable[k].run].seq
    BY <1>2, Keys DEF IInv, StoredUnderOwnKey
  <2>2. s \in ReplayState /\ s.pc = "send" /\ s.msg = variable[k]
    BY <2>1 DEF ReplayState, IInv, TypeOK
  <2>3. replay' = [replay EXCEPT ![t] = s]
    BY <1>2 DEF GetVariable
  <2> HIDE DEF s
  <2> QED
    BY <2>1, <2>2, <2>3, ReplayMovesOn DEF GetVariable, IInv, TypeOK
<1> QED
  BY <1>1, <1>2

LEMMA ResendHolds ==
    ASSUME IInv, NEW t \in Replayer, ResendDelivered(t) \/ ResendFailed(t)
    PROVE  IInv'
<1>1. /\ replay[t] \in ReplayState
      /\ replay[t].msg \in Report
      /\ replay[t].msg.seq <= callback[replay[t].msg.run].seq
  BY DEF IInv, TypeOK, HeldByReplay, ResendDelivered, ResendFailed
<1>2. CASE ResendDelivered(t)
  <2> DEFINE s == [replay[t] EXCEPT !.pc = "delete"]
  <2>1. s \in ReplayState /\ s.pc = "delete" /\ s.msg = replay[t].msg
    BY <1>1 DEF ReplayState
  <2>2. replay' = [replay EXCEPT ![t] = s]
    BY <1>2 DEF ResendDelivered
  <2> HIDE DEF s
  <2> QED
    BY <1>1, <1>2, <2>1, <2>2, ReplayMovesOn DEF ResendDelivered, IInv, TypeOK
<1>3. CASE ResendFailed(t)
  <2> DEFINE s == NextKey(replay[t])
  <2>1. s \in ReplayState /\ s.pc \in {"sleep", "get"}
    BY <1>1, NextKeyType
  <2>2. replay' = [replay EXCEPT ![t] = s]
    BY <1>3 DEF ResendFailed
  <2> HIDE DEF s
  <2> QED
    BY <1>1, <1>3, <2>1, <2>2, ReplayMovesOn
       DEF ResendFailed, Unanswered, IInv, TypeOK
<1> QED
  BY <1>2, <1>3

\* A thread that cannot read the database ends with nothing in its hands.
LEMMA ReadFailedHolds ==
    ASSUME IInv, NEW t \in Replayer, ReadFailed(t)
    PROVE  IInv'
<1> DEFINE s == [Asleep EXCEPT !.pc = "dead"]
<1>1. s \in ReplayState /\ s.pc = "dead"
  BY DEF Asleep, ReplayState
<1>2. replay' = [replay EXCEPT ![t] = s]
  BY DEF ReadFailed
<1> HIDE DEF s
<1> QED
  BY <1>1, <1>2, ReplayMovesOn DEF ReadFailed, IInv, TypeOK

LEMMA DeleteFailedHolds ==
    ASSUME IInv, NEW t \in Replayer, DeleteFailed(t)
    PROVE  IInv'
<1> DEFINE s == NextKey(replay[t])
<1>1. s \in ReplayState /\ s.pc \in {"sleep", "get"}
  BY NextKeyType DEF IInv, TypeOK
<1>2. replay' = [replay EXCEPT ![t] = s] /\ replay[t].msg \in Report
  BY DEF DeleteFailed, IInv, HeldByReplay
<1> HIDE DEF s
<1> QED
  BY <1>1, <1>2, ReplayMovesOn DEF DeleteFailed, IInv, TypeOK

LEMMA RestartHolds ==
    ASSUME IInv, NEW t \in Replayer, RestartServer(t)
    PROVE  IInv'
<1>1. Asleep \in ReplayState /\ Asleep.pc = "sleep"
  BY DEF Asleep, ReplayState
<1>2. restarts' \in 0..MaxRestarts
  BY BoundsAssumption DEF RestartServer, IInv, TypeOK
<1>3. undeleted' \subseteq Report \cup TaskReport
  BY DEF RestartServer, IInv, TypeOK, HeldByReplay
<1> QED
  BY <1>1, <1>2, <1>3, ReplayMovesOn DEF RestartServer, IInv, TypeOK

\* The row that goes may be newer than the report that was sent, but not
\* when its run has called back once.
LEMMA DeleteHolds ==
    ASSUME IInv, NEW t \in Replayer, DeleteVariable(t)
    PROVE  IInv'
<1> DEFINE m == replay[t].msg
           s == NextKey(replay[t])
<1>1. /\ m \in Report /\ m \in received
      /\ m.seq <= callback[m.run].seq
      /\ m.seq \in 1..MaxCallbacks
      /\ KeyOf(m) \in Key
      /\ s \in ReplayState /\ s.pc \in {"sleep", "get"}
  BY NextKeyType, Keys
     DEF IInv, TypeOK, HeldByReplay, DeletesWhatWasSent, DeleteVariable
<1>2. /\ variable' = [variable EXCEPT ![KeyOf(m)] = NoReport]
      /\ replay' = [replay EXCEPT ![t] = s]
      /\ UNCHANGED <<connection, callback, restarts, network,
                     received, acked, accepted, undeleted>>
  BY DEF DeleteVariable
<1> HIDE DEF m, s
<1>3. \A u \in Replayer : replay'[u] = IF u = t THEN s ELSE replay[u]
  BY <1>2 DEF IInv, TypeOK
<1>4. TypeOK'
  BY <1>1, <1>2, <1>3 DEF IInv, TypeOK
<1>5. CallbackStarted' /\ AcceptedWasMade'
  BY <1>2 DEF IInv, CallbackStarted, AcceptedWasMade
<1>6. StoredUnderOwnKey'
  BY <1>1, <1>2 DEF IInv, TypeOK, StoredUnderOwnKey
<1>7. HeldByReplay' /\ DeletesWhatWasSent'
  BY <1>1, <1>2, <1>3 DEF IInv, HeldByReplay, DeletesWhatWasSent
<1>8. SoleReportKept'
  <2> SUFFICES ASSUME NEW n \in accepted, callback[n.run].seq = 1,
                      n \notin received
               PROVE  variable'[KeyOf(n)] = n
    BY <1>2 DEF SoleReportKept
  <2>1. /\ n \in Report /\ KeyOf(n) \in Key
        /\ n.seq \in 1..MaxCallbacks /\ n.seq <= 1
        /\ variable[KeyOf(n)] = n
    BY Keys DEF IInv, TypeOK, AcceptedWasMade, SoleReportKept
  <2>2. KeyOf(n) # KeyOf(m)
    <3> SUFFICES ASSUME KeyOf(n) = KeyOf(m) PROVE FALSE
      OBVIOUS
    <3>1. n.run = m.run
      BY <2>1, <1>1, Keys
    <3>2. n.seq = 1 /\ m.seq = 1
      BY <3>1, <2>1, <1>1, BoundsAssumption
    <3> QED
      BY <3>2, <2>1, <1>1, ReportOfKey
  <2> QED
    BY <2>1, <2>2, <1>1, <1>2 DEF IInv, TypeOK
<1> QED
  BY <1>4, <1>5, <1>6, <1>7, <1>8 DEF IInv

-----------------------------------------------------------------------------

LEMMA NextHolds == IInv /\ [Next]_vars => IInv'
<1> SUFFICES ASSUME IInv, [Next]_vars PROVE IInv'
  OBVIOUS
<1>1. CASE AddConnection
  BY <1>1, EnvironmentHolds DEF AddConnection, IInv, TypeOK
<1>2. ASSUME NEW m \in Report, LateArrival(m) PROVE IInv'
  BY <1>2, EnvironmentHolds DEF LateArrival, IInv, TypeOK
<1>3. ASSUME NEW r \in Run, CallbackStep(r) PROVE IInv'
  BY <1>3, StartCallbackHolds, PostHolds, BackupHolds, TaskProgressHolds
     DEF CallbackStep
<1>4. ASSUME NEW t \in Replayer, ReplayStep(t) PROVE IInv'
  BY <1>4, QueryHolds, ReadFailedHolds, GetVariableHolds, ResendHolds,
     DeleteHolds, DeleteFailedHolds DEF ReplayStep
<1>5. ASSUME NEW t \in Replayer, RestartServer(t) PROVE IInv'
  BY <1>5, RestartHolds
<1>6. CASE UNCHANGED vars
  BY <1>6, EnvironmentHolds DEF vars, IInv, TypeOK
<1> QED
  BY <1>1, <1>2, <1>3, <1>4, <1>5, <1>6 DEF Next

\* Every behaviour keeps the invariant.
THEOREM Invariance == Spec => []IInv
<1>1. Init => IInv
  BY InitHolds
<1>2. IInv /\ [Next]_vars => IInv'
  BY NextHolds
<1> QED
  BY <1>1, <1>2, PTL DEF Spec

\* The tables, threads and requests of the delivery have their types, and a
\* replay thread never sends or deletes an absent report, for any number
\* of runs, servers, callbacks and restarts.
THEOREM TypeCorrect == Spec => []TypeOK
<1>1. IInv => TypeOK
  BY DEF IInv
<1> QED
  BY <1>1, Invariance, PTL

\* post_progress and post_results lose no report that is the only one of
\* its key, however many servers replay it.
THEOREM SoleReportNeverLost == Spec => []SoleReportKept
<1>1. IInv => SoleReportKept
  BY DEF IInv
<1> QED
  BY <1>1, Invariance, PTL

-----------------------------------------------------------------------------
(* Refinement: with one callback per run, the Variables are the outbox.    *)

owedReports == {variable[k] : k \in Key} \ {NoReport}

\* Each step of the delivery is a step of the outbox, or leaves it alone.
LEMMA OutboxStep ==
    ASSUME MaxCallbacks = 1, IInv, IInv', [Next]_vars
    PROVE  [Outbox!Next]_(Outbox!vars)
<1> USE DEF owedReports
<1>1. ASSUME UNCHANGED variable,
             NEW m \in Report \cup TaskReport,
             received' \in {received, received \cup {m}}
      PROVE  [Outbox!Next]_(Outbox!vars)
  <2>1. owedReports' = owedReports
    BY <1>1
  <2> QED
    BY <1>1, <2>1 DEF Outbox!Next, Outbox!Deliver, Outbox!vars
<1>2. ASSUME UNCHANGED <<variable, received>>
      PROVE  [Outbox!Next]_(Outbox!vars)
  BY <1>2 DEF Outbox!vars
<1>3. ASSUME NEW r \in Run, Backup(r)
      PROVE  [Outbox!Next]_(Outbox!vars)
  <2> DEFINE m == Current(r)
  <2>1. m \in Report /\ KeyOf(m) \in Key /\ m.seq \in 1..MaxCallbacks
    BY <1>3, CurrentReport, Keys DEF Backup, IInv
  <2>2. variable' = [variable EXCEPT ![KeyOf(m)] = m] /\ received' = received
    BY <1>3 DEF Backup
  <2> HIDE DEF m
  <2>3. \A k \in Key : variable[k] # NoReport /\ k = KeyOf(m) => variable[k] = m
    BY <2>1, Keys, ReportOfKey DEF IInv, StoredUnderOwnKey
  <2>4. owedReports' = owedReports \cup {m}
    <3>1. m # NoReport
      BY <2>1, Keys
    <3>2. \A k \in Key : variable'[k] = IF k = KeyOf(m) THEN m ELSE variable[k]
      BY <2>2 DEF IInv, TypeOK
    <3> QED
      BY <2>1, <2>3, <3>1, <3>2
  <2> QED
    BY <2>1, <2>2, <2>4 DEF Outbox!Next, Outbox!Owe
<1>4. ASSUME NEW t \in Replayer, DeleteVariable(t)
      PROVE  [Outbox!Next]_(Outbox!vars)
  <2> DEFINE m == replay[t].msg
  <2>1. m \in Report /\ m \in received
        /\ KeyOf(m) \in Key /\ m.seq \in 1..MaxCallbacks
    BY <1>4, Keys DEF DeleteVariable, IInv, HeldByReplay, DeletesWhatWasSent
  <2>2. variable' = [variable EXCEPT ![KeyOf(m)] = NoReport]
        /\ received' = received
    BY <1>4 DEF DeleteVariable
  <2> HIDE DEF m
  <2>3. \A k \in Key : variable[k] # NoReport /\ k = KeyOf(m) => variable[k] = m
    BY <2>1, Keys, ReportOfKey DEF IInv, StoredUnderOwnKey
  <2>4. \A k \in Key : variable[k] = m => k = KeyOf(m)
    BY <2>1, Keys DEF IInv, StoredUnderOwnKey
  <2>5. \A k \in Key :
           variable'[k] = IF k = KeyOf(m) THEN NoReport ELSE variable[k]
    BY <2>2 DEF IInv, TypeOK
  <2>6. CASE variable[KeyOf(m)] = NoReport
    <3>1. owedReports' = owedReports
      BY <2>1, <2>5, <2>6
    <3> QED
      BY <2>2, <3>1 DEF Outbox!vars
  <2>7. CASE variable[KeyOf(m)] # NoReport
    <3>1. owedReports' = owedReports \ {m} /\ m \in owedReports
      BY <2>1, <2>3, <2>4, <2>5, <2>7
    <3> QED
      BY <2>1, <2>2, <3>1 DEF Outbox!Next, Outbox!Settle
  <2> QED
    BY <2>6, <2>7
<1>5. ASSUME NEW m \in Report, LateArrival(m)
      PROVE  [Outbox!Next]_(Outbox!vars)
  BY <1>5, <1>1 DEF LateArrival
<1>6. ASSUME NEW r \in Run, CallbackStep(r), ~Backup(r)
      PROVE  [Outbox!Next]_(Outbox!vars)
  <2>1. CASE PostDelivered(r) \/ PostFailed(r)
    <3>1. Current(r) \in Report
      BY <2>1, CurrentReport DEF PostDelivered, PostFailed, IInv
    <3> QED
      BY <2>1, <3>1, <1>1 DEF PostDelivered, PostFailed, Unanswered
  <2>2. CASE TaskProgress(r)
    <3> DEFINE m == [kind |-> "progress", run |-> r, seq |-> 0]
    <3>1. m \in TaskReport
      BY DEF TaskReport
    <3>2. UNCHANGED variable /\ received' \in {received, received \cup {m}}
      BY <2>2 DEF TaskProgress, WithBackup
    <3> QED
      BY <3>1, <3>2, <1>1
  <2>3. CASE \/ \E success \in BOOLEAN : StartCallback(r, success)
             \/ PostSkipped(r) \/ AbortCallback(r)
    BY <2>3, <1>2 DEF StartCallback, PostSkipped, AbortCallback
  <2> QED
    BY <1>6, <2>1, <2>2, <2>3 DEF CallbackStep
<1>7. ASSUME NEW t \in Replayer, ReplayStep(t) \/ RestartServer(t),
             ~DeleteVariable(t)
      PROVE  [Outbox!Next]_(Outbox!vars)
  <2>1. CASE ResendDelivered(t) \/ ResendFailed(t)
    <3>1. replay[t].msg \in Report
      BY <2>1 DEF ResendDelivered, ResendFailed, IInv, HeldByReplay
    <3> QED
      BY <2>1, <3>1, <1>1 DEF ResendDelivered, ResendFailed, Unanswered
  <2>2. CASE \/ QueryVariables(t) \/ ReadFailed(t) \/ DeleteFailed(t)
             \/ RestartServer(t)
             \/ \E k \in Key : GetVariable(t, k)
    BY <2>2, <1>2
       DEF QueryVariables, ReadFailed, DeleteFailed, GetVariable, RestartServer
  <2> QED
    BY <1>7, <2>1, <2>2 DEF ReplayStep
<1>8. CASE AddConnection \/ UNCHANGED vars
  BY <1>8, <1>2 DEF AddConnection, vars
<1> QED
  BY <1>3, <1>4, <1>5, <1>6, <1>7, <1>8 DEF Next, CallbackStep, ReplayStep

\* When each run calls back once, the delivery implements the outbox: a
\* report leaves the Variables only after the service has got it.
THEOREM OutboxImplemented ==
    ASSUME MaxCallbacks = 1
    PROVE  Spec => ImplementsOutbox
<1>1. Init => Outbox!Init
  BY Keys DEF Init, Outbox!Init
<1>2. IInv /\ IInv' /\ [Next]_vars => [Outbox!Next]_(Outbox!vars)
  BY OutboxStep
<1> QED
  BY <1>1, <1>2, Invariance, PTL DEF Spec, ImplementsOutbox, Outbox!Spec

-----------------------------------------------------------------------------
(* What is deleted has arrived *)

\* Only the last step of a replay empties a row.
LEMMA OnlyDeleteEmpties ==
    ASSUME IInv, [Next]_vars, NEW k \in Key,
           variable[k] # NoReport, variable'[k] = NoReport
    PROVE  \E t \in Replayer : DeleteVariable(t) /\ KeyOf(replay[t].msg) = k
<1>1. ASSUME NEW r \in Run, Backup(r)
      PROVE  FALSE
  <2>1. Current(r) # NoReport
    BY <1>1, CurrentReport, Keys DEF Backup, IInv
  <2> QED
    BY <1>1, <2>1 DEF Backup, IInv, TypeOK
<1>2. ASSUME NEW r \in Run, TaskProgress(r)
      PROVE  FALSE
  BY <1>2 DEF TaskProgress, WithBackup
<1>3. ASSUME NEW t \in Replayer, DeleteVariable(t)
      PROVE  KeyOf(replay[t].msg) = k
  BY <1>3 DEF DeleteVariable, IInv, TypeOK
<1>4. ASSUME variable' = variable
      PROVE  FALSE
  BY <1>4
<1>5. CASE \E r \in Run : CallbackStep(r)
  BY <1>1, <1>2, <1>4, <1>5
     DEF CallbackStep, StartCallback, PostDelivered, PostSkipped, PostFailed,
         AbortCallback
<1>6. CASE \E t \in Replayer : ReplayStep(t) \/ RestartServer(t)
  BY <1>3, <1>4, <1>6
     DEF ReplayStep, QueryVariables, ReadFailed, GetVariable, ResendDelivered,
         ResendFailed, DeleteFailed, RestartServer
<1>7. CASE \/ AddConnection \/ UNCHANGED vars
           \/ \E m \in Report : LateArrival(m)
  BY <1>4, <1>7 DEF AddConnection, LateArrival, vars
<1> QED
  BY <1>5, <1>6, <1>7 DEF Next

\* A row is emptied only once the service has got a report of its key,
\* however often runs call back and servers restart.
THEOREM RowsDeletedAfterDelivery == Spec => DeletedAfterDelivery
<1>1. IInv /\ [Next]_vars =>
          [\A k \in Key :
              variable[k] # NoReport /\ variable'[k] = NoReport
                  => \E m \in received : KeyOf(m) = k /\ m.seq > 0]_vars
  <2> SUFFICES ASSUME IInv, [Next]_vars, NEW k \in Key,
                      variable[k] # NoReport, variable'[k] = NoReport
               PROVE  \E m \in received : KeyOf(m) = k /\ m.seq > 0
    OBVIOUS
  <2>1. PICK t \in Replayer : DeleteVariable(t) /\ KeyOf(replay[t].msg) = k
    BY OnlyDeleteEmpties
  <2>2. replay[t].msg \in received /\ replay[t].msg \in Report
    BY <2>1 DEF DeleteVariable, IInv, HeldByReplay, DeletesWhatWasSent
  <2>3. replay[t].msg.seq > 0
    BY <2>2 DEF Report
  <2> QED
    BY <2>1, <2>2, <2>3
<1> QED
  BY <1>1, Invariance, PTL DEF Spec, DeletedAfterDelivery

-----------------------------------------------------------------------------
(* What has been answered is sent again only when it could not be deleted,  *)
(* or is about to be                                                       *)

\* The callbacks of the run of m are done with m.
Past(m) ==
    \/ m.seq < callback[m.run].seq
    \/ /\ m.seq = callback[m.run].seq
       /\ \/ callback[m.run].pc = "idle"
          \/ m.kind = "progress" /\ callback[m.run].kind = "results"

\* A report is kept, resent and answered only after its callback is done with it, so
\* that no callback keeps one again that has been answered; an answered one is kept
\* only until a replay thread that knows of the answer has deleted it, or failed to.
AnsweredIsDeleted ==
    /\ \A m \in acked \cap Report : Past(m)
    /\ \A k \in Key : variable[k] # NoReport => Past(variable[k])
    /\ \A t \in Replayer : replay[t].pc \in {"send", "delete"} => Past(replay[t].msg)
    /\ \A k \in Key : variable[k] # NoReport /\ variable[k] \in acked =>
          \/ variable[k] \in undeleted
          \/ \E t \in Replayer : replay[t].pc = "delete" /\ replay[t].msg = variable[k]

LEMMA CurrentIsNotPast ==
    ASSUME IInv, NEW r \in Run, callback[r].pc # "idle"
    PROVE  ~Past(Current(r))
<1>1. callback[r] \in CallbackState
  BY DEF IInv, TypeOK
<1>2. /\ Current(r).run = r /\ Current(r).seq = callback[r].seq
      /\ Current(r).kind = callback[r].kind
  BY DEF Current
<1> QED BY <1>1, <1>2 DEF Past, CallbackState

\* What a callback is done with it stays done with.
LEMMA PastStays ==
    ASSUME IInv, [Next]_vars, NEW m \in Report, Past(m)
    PROVE  Past(m)'
<1>0. /\ callback \in [Run -> CallbackState] /\ m.run \in Run /\ m.seq \in 1..MaxCallbacks
      /\ callback[m.run].seq \in Nat
  BY Keys DEF IInv, TypeOK, CallbackState
<1> DEFINE c == callback[m.run]
           n == callback'[m.run]
           Done(d) == \/ m.seq < d.seq
                      \/ m.seq = d.seq /\ (d.pc = "idle" \/ (m.kind = "progress" /\ d.kind = "results"))
<1>1. (Past(m) <=> Done(c)) /\ (Past(m)' <=> Done(n))
  BY DEF Past
<1>2. \/ n = c
      \/ c.pc = "idle" /\ n.seq = c.seq + 1
      \/ c.pc # "idle" /\ n = AfterReport(c)
      \/ n.pc \in {"idle", "backup"} /\ c.pc # "idle" /\ n.kind = c.kind /\ n.seq = c.seq
  <2>1. ASSUME NEW r \in Run, NEW success \in BOOLEAN, StartCallback(r, success)
        PROVE  n = c \/ (c.pc = "idle" /\ n.seq = c.seq + 1)
    BY <1>0, <2>1 DEF StartCallback
  <2>2. ASSUME NEW r \in Run, PostDelivered(r) \/ PostSkipped(r) \/ Backup(r)
        PROVE  n = c \/ (c.pc # "idle" /\ n = AfterReport(c))
    BY <1>0, <2>2 DEF PostDelivered, PostSkipped, Backup
  <2>3. ASSUME NEW r \in Run, PostFailed(r) \/ AbortCallback(r)
        PROVE  \/ n = c
               \/ n.pc \in {"idle", "backup"} /\ c.pc # "idle" /\ n.kind = c.kind /\ n.seq = c.seq
    <3>1. PICK pc \in {"idle", "backup"} :
             callback' = [callback EXCEPT ![r] = [callback[r] EXCEPT !.pc = pc]]
      BY <2>3 DEF PostFailed, AbortCallback
    <3>2. callback[r].pc # "idle" /\ callback[r] \in CallbackState
      BY <1>0, <2>3 DEF PostFailed, AbortCallback
    <3> QED BY <1>0, <3>1, <3>2 DEF CallbackState
  <2>4. ASSUME UNCHANGED callback PROVE n = c
    BY <2>4
  <2> HIDE DEF n, c
  <2> QED
    BY <2>1, <2>2, <2>3, <2>4
       DEF Next, CallbackStep, ReplayStep, AddConnection, LateArrival, TaskProgress,
           QueryVariables, ReadFailed, GetVariable, ResendDelivered, ResendFailed,
           DeleteVariable, DeleteFailed, RestartServer, vars
<1>3. c \in CallbackState
  BY <1>0
<1>4. CASE c.pc # "idle" /\ n = AfterReport(c)
  <2>1. n.seq = c.seq /\ (n.pc = "idle" \/ (n.kind = "results" /\ c.kind = "progress"))
    BY <1>3, <1>4 DEF AfterReport, CallbackState
  <2>2. Done(c) => Done(n)
    BY <1>0, <1>4, <2>1
  <2> QED BY <1>1, <2>2
<1>5. CASE c.pc = "idle" /\ n.seq = c.seq + 1
  BY <1>0, <1>1, <1>5
<1>6. CASE n.pc \in {"idle", "backup"} /\ c.pc # "idle" /\ n.kind = c.kind /\ n.seq = c.seq
  BY <1>1, <1>6
<1> HIDE DEF c, n
<1> QED BY <1>1, <1>2, <1>4, <1>5, <1>6

LEMMA CurrentBecomesPast ==
    ASSUME IInv, NEW r \in Run, callback' = [callback EXCEPT ![r] = AfterReport(@)]
    PROVE  \A m \in Report : m = Current(r) => Past(m)'
<1>1. callback[r] \in CallbackState /\ callback'[r] = AfterReport(callback[r])
  BY DEF IInv, TypeOK
<1>2. /\ Current(r).run = r /\ Current(r).seq = callback[r].seq
      /\ Current(r).kind = callback[r].kind
  BY DEF Current
<1>3. /\ AfterReport(callback[r]).seq = callback[r].seq
      /\ \/ AfterReport(callback[r]).pc = "idle"
         \/ AfterReport(callback[r]).kind = "results" /\ callback[r].kind = "progress"
  BY <1>1 DEF AfterReport, CallbackState
<1> QED BY <1>1, <1>2, <1>3 DEF Past

LEMMA AnsweredGoesOn ==
    ASSUME IInv, AnsweredIsDeleted, [Next]_vars
    PROVE  AnsweredIsDeleted'
<1>0. /\ acked \subseteq Report \cup TaskReport
      /\ \A k \in Key : variable[k] # NoReport => variable[k] \in Report /\ KeyOf(variable[k]) = k
      /\ \A t \in Replayer : replay[t].pc \in {"send", "delete"} => replay[t].msg \in Report
      /\ replay \in [Replayer -> ReplayState] /\ variable \in [Key -> Report \cup TaskReport \cup {NoReport}]
  BY DEF IInv, TypeOK, StoredUnderOwnKey, HeldByReplay
<1>a. \A m \in Report : Past(m) => Past(m)'
  BY PastStays
\* A task's report is none of a dag callback.
<1>b. TaskReport \cap Report = {}
  BY BoundsAssumption DEF TaskReport, Report
<1> USE DEF AnsweredIsDeleted
<1>1. ASSUME UNCHANGED <<variable, replay, acked, undeleted>> PROVE AnsweredIsDeleted'
  BY <1>0, <1>1, <1>a
<1>2. ASSUME NEW r \in Run, PostDelivered(r) PROVE AnsweredIsDeleted'
  <2>1. /\ acked' = acked \cup {Current(r)} /\ UNCHANGED <<variable, replay, undeleted>>
        /\ callback[r].pc # "idle" /\ callback' = [callback EXCEPT ![r] = AfterReport(@)]
    BY <1>2 DEF PostDelivered
  <2>2. ~Past(Current(r)) /\ \A m \in Report : m = Current(r) => Past(m)'
    BY <2>1, CurrentIsNotPast, CurrentBecomesPast
  <2> HIDE DEF Past
  <2> QED BY <1>0, <1>a, <2>1, <2>2
<1>3. ASSUME NEW r \in Run, Backup(r) PROVE AnsweredIsDeleted'
  <2>1. callback[r].pc # "idle" /\ callback' = [callback EXCEPT ![r] = AfterReport(@)]
    BY <1>3 DEF Backup
  <2>2. PICK m \in Report : m = Current(r)
    BY <2>1, CurrentReport DEF IInv
  <2>3. variable' = [variable EXCEPT ![KeyOf(m)] = m] /\ UNCHANGED <<acked, replay, undeleted>>
    BY <1>3, <2>2 DEF Backup
  <2>4. ~Past(m) /\ Past(m)'
    BY <2>1, <2>2, CurrentIsNotPast, CurrentBecomesPast
  <2>5. \A k \in Key : variable'[k] = variable[k] \/ variable'[k] = m
    BY <1>0, <2>3
  <2>6. m \notin acked
    BY <2>2, <2>4
  <2> HIDE DEF Past
  <2> QED BY <1>0, <1>a, <2>3, <2>4, <2>5, <2>6
<1>4. ASSUME NEW r \in Run, TaskProgress(r) PROVE AnsweredIsDeleted'
  <2> DEFINE m == [kind |-> "progress", run |-> r, seq |-> 0]
  <2>1. m \in TaskReport
    BY DEF TaskReport
  <2>2. acked' \subseteq acked \cup {m} /\ acked \subseteq acked'
        /\ UNCHANGED <<variable, replay, undeleted>>
    BY <1>4 DEF TaskProgress, WithBackup
  <2> HIDE DEF Past, m
  <2> QED BY <1>0, <1>a, <1>b, <2>1, <2>2
<1>5. ASSUME NEW t \in Replayer, QueryVariables(t) \/ ResendFailed(t) PROVE AnsweredIsDeleted'
  <2>1. /\ replay[t].pc # "delete" /\ replay'[t].pc \in {"sleep", "get"}
        /\ \A u \in Replayer : u # t => replay'[u] = replay[u]
        /\ UNCHANGED <<variable, acked, undeleted>>
    <3>1. PICK s \in ReplayState : replay' = [replay EXCEPT ![t] = NextKey(s)]
      <4>1. replay[t] \in ReplayState
        BY <1>0
      <4>2. [replay[t] EXCEPT !.keys = {k \in Key : variable[k] # NoReport}] \in ReplayState
        BY <4>1 DEF ReplayState
      <4> QED BY <1>5, <4>1, <4>2 DEF QueryVariables, ResendFailed
    <3> QED BY <1>0, <1>5, <3>1, NextKeyType DEF QueryVariables, ResendFailed
  <2> HIDE DEF Past
  <2> QED BY <1>0, <1>a, <2>1
<1>6. ASSUME NEW t \in Replayer, NEW k \in Key, GetVariable(t, k) PROVE AnsweredIsDeleted'
  <2>1. /\ replay[t].pc # "delete" /\ replay'[t].pc \in {"send", "dead"}
        /\ \A u \in Replayer : u # t => replay'[u] = replay[u]
        /\ replay'[t].pc = "send" => replay'[t].msg = variable[k] /\ variable[k] # NoReport
        /\ UNCHANGED <<variable, acked, undeleted>>
    BY <1>0, <1>6 DEF GetVariable, Asleep
  <2> HIDE DEF Past
  <2> QED BY <1>0, <1>a, <2>1
<1>7. ASSUME NEW t \in Replayer, ResendDelivered(t) PROVE AnsweredIsDeleted'
  <2>1. /\ replay[t].pc = "send" /\ replay[t] \in ReplayState
        /\ replay' = [replay EXCEPT ![t] = [replay[t] EXCEPT !.pc = "delete"]]
        /\ acked' = acked \cup {replay[t].msg} /\ UNCHANGED <<variable, undeleted>>
    BY <1>0, <1>7 DEF ResendDelivered
  <2>2. /\ replay'[t].pc = "delete" /\ replay'[t].msg = replay[t].msg
        /\ \A u \in Replayer : u # t => replay'[u] = replay[u]
    BY <1>0, <2>1 DEF ReplayState
  <2> HIDE DEF Past
  <2> QED BY <1>0, <1>a, <2>1, <2>2
<1>8. ASSUME NEW t \in Replayer, DeleteVariable(t) PROVE AnsweredIsDeleted'
  <2>1. /\ replay[t].pc = "delete" /\ replay'[t].pc \in {"sleep", "get"}
        /\ \A u \in Replayer : u # t => replay'[u] = replay[u]
        /\ variable' = [variable EXCEPT ![KeyOf(replay[t].msg)] = NoReport]
        /\ UNCHANGED <<acked, undeleted>>
    <3>1. replay' = [replay EXCEPT ![t] = NextKey(replay[t])] /\ replay[t] \in ReplayState
      BY <1>0, <1>8 DEF DeleteVariable
    <3>2. replay'[t].pc \in {"sleep", "get"}
      BY <1>0, <3>1, NextKeyType
    <3> QED BY <1>0, <1>8, <3>1, <3>2 DEF DeleteVariable
  <2>2. \A k \in Key : variable'[k] \in {NoReport, variable[k]}
                       /\ (k = KeyOf(replay[t].msg) => variable'[k] = NoReport)
    BY <1>0, <2>1
  \* Who is to delete another row holds a report of another key.
  <2>3. ASSUME NEW k \in Key, variable'[k] # NoReport, variable'[k] \in acked',
               variable'[k] \notin undeleted'
        PROVE  \E u \in Replayer : replay'[u].pc = "delete" /\ replay'[u].msg = variable'[k]
    <3>1. variable'[k] = variable[k] /\ k # KeyOf(replay[t].msg)
      BY <2>2, <2>3
    <3>2. PICK u \in Replayer : replay[u].pc = "delete" /\ replay[u].msg = variable[k]
      BY <2>1, <2>3, <3>1
    <3>3. u # t
      BY <1>0, <2>3, <3>1, <3>2
    <3> QED BY <2>1, <3>1, <3>2, <3>3
  <2> HIDE DEF Past
  <2> QED BY <1>0, <1>a, <2>1, <2>2, <2>3
\* Whoever gives up on deleting what it holds leaves it among the undeleted.
<1>9. ASSUME NEW t \in Replayer,
             ReadFailed(t) \/ DeleteFailed(t) \/ RestartServer(t)
      PROVE  AnsweredIsDeleted'
  <2>1. /\ replay'[t].pc \notin {"send", "delete"}
        /\ \A u \in Replayer : u # t => replay'[u] = replay[u]
        /\ undeleted \subseteq undeleted'
        /\ replay[t].pc = "delete" => replay[t].msg \in undeleted'
        /\ UNCHANGED <<variable, acked>>
    <3>1. CASE DeleteFailed(t)
      <4>1. NextKey(replay[t]).pc \in {"sleep", "get"}
        BY <1>0, NextKeyType
      <4> QED BY <1>0, <3>1, <4>1 DEF DeleteFailed
    <3>2. CASE ReadFailed(t) \/ RestartServer(t)
      BY <1>0, <3>2 DEF ReadFailed, RestartServer, Asleep
    <3> QED BY <1>9, <3>1, <3>2
  <2> HIDE DEF Past
  <2> QED BY <1>0, <1>a, <2>1
<1>10. ASSUME NEW r \in Run, CallbackStep(r) PROVE AnsweredIsDeleted'
  BY <1>1, <1>2, <1>3, <1>4, <1>10
     DEF CallbackStep, StartCallback, PostSkipped, PostFailed, AbortCallback
<1> QED
  BY <1>1, <1>5, <1>6, <1>7, <1>8, <1>9, <1>10
     DEF Next, ReplayStep, AddConnection, LateArrival, vars

\* A report that has been answered is sent again only because its row could not be
\* deleted, or is about to be deleted by another server, for any number of servers and
\* however often they are restarted, runs call back and posts fail.
THEOREM NeverResentAfterResponse == Spec => NotResentAfterResponse
<1> DEFINE Excused(m) ==
               \/ m \in undeleted
               \/ \E u \in Replayer : replay[u].pc = "delete" /\ replay[u].msg = m
<1>1. Init => AnsweredIsDeleted
  BY DEF Init, AnsweredIsDeleted, Asleep
<1>2. IInv /\ AnsweredIsDeleted /\ [Next]_vars => AnsweredIsDeleted'
  BY AnsweredGoesOn
<1>3. IInv /\ AnsweredIsDeleted /\ [Next]_vars =>
          [\A t \in Replayer :
              LET m == replay'[t].msg IN
              replay[t].pc = "get" /\ replay'[t].pc = "send" /\ m \in acked
                  => Excused(m)]_vars
  <2> SUFFICES ASSUME IInv, AnsweredIsDeleted, [Next]_vars, NEW t \in Replayer,
                      replay[t].pc = "get", replay'[t].pc = "send",
                      replay'[t].msg \in acked
               PROVE  Excused(replay'[t].msg)
    OBVIOUS
  <2>0. replay \in [Replayer -> ReplayState]
    BY DEF IInv, TypeOK
  <2>1. PICK k \in Key : GetVariable(t, k)
    <3>1. ASSUME NEW u \in Replayer, ReplayStep(u) \/ RestartServer(u)
          PROVE  u = t
      BY <2>0, <3>1
         DEF ReplayStep, QueryVariables, ReadFailed, GetVariable, ResendDelivered,
             ResendFailed, DeleteVariable, DeleteFailed, RestartServer
    <3>3. CASE \/ QueryVariables(t) \/ ResendDelivered(t) \/ ResendFailed(t)
               \/ DeleteVariable(t) \/ DeleteFailed(t)
      BY <3>3
         DEF QueryVariables, ResendDelivered, ResendFailed, DeleteVariable, DeleteFailed
    <3>4. CASE ReadFailed(t) \/ RestartServer(t)
      BY <2>0, <3>4 DEF ReadFailed, RestartServer, Asleep
    <3>5. CASE UNCHANGED replay
      BY <3>5
    <3> QED
      BY <3>1, <3>3, <3>4, <3>5
         DEF Next, CallbackStep, ReplayStep, AddConnection, LateArrival, TaskProgress,
             StartCallback, PostDelivered, PostSkipped, PostFailed, Backup, AbortCallback, vars
  <2>2. variable[k] # NoReport /\ replay'[t].msg = variable[k]
    BY <2>0, <2>1 DEF GetVariable, Asleep
  <2> QED BY <2>2 DEF AnsweredIsDeleted
<1> QED
  BY <1>1, <1>2, <1>3, Invariance, PTL DEF Spec, NotResentAfterResponse

=============================================================================
