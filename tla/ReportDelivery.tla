--------------------------- MODULE ReportDelivery ---------------------------
(***************************************************************************)
(* How the reports of a dag run travel from the callbacks of CWL-Airflow   *)
(* to the external service: utilities/report.py (the callbacks and the     *)
(* post_* functions, which keep a report that could not be posted as an    *)
(* Airflow Variable) and components/api/server.py (the replay thread of    *)
(* an API server, which resends what is kept).                             *)
(*                                                                         *)
(* Actors that run concurrently, in different processes:                   *)
(*   - the dag callback of each run (in the scheduler's file processor):   *)
(*     one at a time for a run, but a run that is cleared and runs again   *)
(*     calls back again, under the same Variable key;                      *)
(*   - the task callback of each run (in a worker);                        *)
(*   - one replay thread per API server started with --replay.             *)
(* The table of Variables is shared by all of them; every access to it is  *)
(* a transaction of its own, and an HTTP call separates them.              *)
(***************************************************************************)
EXTENDS Naturals, FiniteSets

CONSTANTS
    Run,            \* dag runs, <<dag_id, run_id>>
    Replayer,       \* API servers that have a replay thread
    MaxCallbacks,   \* bound: dag callbacks of one run (1 + times it is cleared)
    MaxRestarts     \* bound: restarts of API servers, all together

ASSUME BoundsAssumption == MaxCallbacks \in Nat /\ MaxRestarts \in Nat

VARIABLES
    connection,     \* does the Airflow connection "process_report" exist?
    variable,       \* the Variables of reports: [Key -> report or NoReport]
    callback,       \* the dag callback of each run
    replay,         \* the replay thread of each API server
    restarts,       \* API server restarts so far
    network,        \* reports whose sender gave up on them, still travelling
    received,       \* history: the reports the service has got
    acked,          \* history: the reports whose sender saw a response
    accepted,       \* history: the reports whose post_* call is over
    undeleted       \* history: the reports resent, but not deleted after it

vars == <<connection, variable, callback, replay, restarts, network,
          received, acked, accepted, undeleted>>

-----------------------------------------------------------------------------
(* Reports.  The payload is abstracted to what the delivery tells apart:   *)
(* its route, its run and which callback of the run made it (0: a task).   *)

Kind == {"progress", "results"}

Key == [kind : Kind, run : Run]

Report == [kind : Kind, run : Run, seq : 1..MaxCallbacks]

TaskReport == [kind : {"progress"}, run : Run, seq : {0}]

NoReport == [kind |-> "none"]

KeyOf(m) == [kind |-> m.kind, run |-> m.run]

\* The report the dag callback of r is about to post.
Current(r) == [kind |-> callback[r].kind, run |-> r, seq |-> callback[r].seq]

CallbackState == [pc : {"idle", "post", "backup"}, kind : Kind,
                  success : BOOLEAN, seq : 0..MaxCallbacks]

ReplayState == [pc : {"sleep", "get", "send", "delete", "dead"},
                keys : SUBSET Key,
                msg : Report \cup TaskReport \cup {NoReport}]

Asleep == [pc |-> "sleep", keys |-> {}, msg |-> NoReport]

TypeOK ==
    /\ connection \in BOOLEAN
    /\ variable \in [Key -> Report \cup TaskReport \cup {NoReport}]
    /\ callback \in [Run -> CallbackState]
    /\ replay \in [Replayer -> ReplayState]
    /\ \A t \in Replayer :
          replay[t].pc \in {"send", "delete"} => replay[t].msg # NoReport
    /\ restarts \in 0..MaxRestarts
    /\ network \subseteq Report
    /\ received \subseteq Report \cup TaskReport
    /\ acked \subseteq Report \cup TaskReport
    /\ accepted \subseteq Report
    /\ undeleted \subseteq Report \cup TaskReport

Init ==
    /\ connection \in BOOLEAN
    /\ variable = [k \in Key |-> NoReport]
    /\ callback = [r \in Run |-> [pc |-> "idle", kind |-> "progress",
                                  success |-> FALSE, seq |-> 0]]
    /\ replay = [t \in Replayer |-> Asleep]
    /\ restarts = 0
    /\ network = {}
    /\ received = {}
    /\ acked = {}
    /\ accepted = {}
    /\ undeleted = {}

-----------------------------------------------------------------------------
(* The environment. *)

\* An operator adds the connection; without it http_hook.run raises
\* AirflowNotFoundException before it sends anything.
AddConnection ==
    /\ ~connection
    /\ connection' = TRUE
    /\ UNCHANGED <<variable, callback, replay, restarts, network,
                   received, acked, accepted, undeleted>>

\* http_hook.run raised: the connection was refused, the service answered
\* with an error, or the 30 seconds passed and the service has got the
\* report, or will get it later, all the same.
Unanswered(m) ==
    \/ UNCHANGED <<network, received>>
    \/ received' = received \cup {m} /\ UNCHANGED network
    \/ network' = network \cup {m} /\ UNCHANGED received

LateArrival(m) ==
    /\ m \in network
    /\ network' = network \ {m}
    /\ received' = received \cup {m}
    /\ UNCHANGED <<connection, variable, callback, replay, restarts,
                   acked, accepted, undeleted>>

-----------------------------------------------------------------------------
(* The dag callback: dag_on_success posts progress, then results;          *)
(* dag_on_failure posts progress only.                                     *)

\* What the callback does once the report in hand is dealt with.
AfterReport(c) ==
    IF c.success /\ c.kind = "progress"
    THEN [c EXCEPT !.pc = "post", !.kind = "results"]
    ELSE [c EXCEPT !.pc = "idle"]

StartCallback(r, success) ==
    /\ callback[r].pc = "idle"
    /\ callback[r].seq < MaxCallbacks
    /\ callback' = [callback EXCEPT ![r] =
                       [pc |-> "post", kind |-> "progress",
                        success |-> success, seq |-> @.seq + 1]]
    /\ UNCHANGED <<connection, variable, replay, restarts, network,
                   received, acked, accepted, undeleted>>

PostDelivered(r) ==
    /\ callback[r].pc = "post"
    /\ connection
    /\ received' = received \cup {Current(r)}
    /\ acked' = acked \cup {Current(r)}
    /\ accepted' = accepted \cup {Current(r)}
    /\ callback' = [callback EXCEPT ![r] = AfterReport(@)]
    /\ UNCHANGED <<connection, variable, replay, restarts, network, undeleted>>

\* except AirflowNotFoundException: the report is given up.
PostSkipped(r) ==
    /\ callback[r].pc = "post"
    /\ ~connection
    /\ callback' = [callback EXCEPT ![r] = AfterReport(@)]
    /\ UNCHANGED <<connection, variable, replay, restarts, network,
                   received, acked, accepted, undeleted>>

\* except Exception: the report is to be kept (backup is true).
PostFailed(r) ==
    /\ callback[r].pc = "post"
    /\ connection
    /\ Unanswered(Current(r))
    /\ callback' = [callback EXCEPT ![r].pc = "backup"]
    /\ UNCHANGED <<connection, variable, replay, restarts, acked, accepted,
                   undeleted>>

\* Variable.set replaces the row of the key, if there is one.
Backup(r) ==
    /\ callback[r].pc = "backup"
    /\ variable' = [variable EXCEPT ![KeyOf(Current(r))] = Current(r)]
    /\ accepted' = accepted \cup {Current(r)}
    /\ callback' = [callback EXCEPT ![r] = AfterReport(@)]
    /\ UNCHANGED <<connection, replay, restarts, network, received, acked,
                   undeleted>>

\* The process of the callback is killed, or the code around the post_*
\* call raises: the callback is not called again for this outcome.
AbortCallback(r) ==
    /\ callback[r].pc # "idle"
    /\ callback' = [callback EXCEPT ![r].pc = "idle"]
    /\ UNCHANGED <<connection, variable, replay, restarts, network,
                   received, acked, accepted, undeleted>>

-----------------------------------------------------------------------------
(* The task callback: progress is posted without a backup. *)

\* Mutant: progress of a task is kept too, under the key of the dag's.
BackupAlways(from_task) == TRUE

\* report_progress asks for a backup unless it is called from a task.
WithBackup(from_task) == ~from_task

TaskProgress(r) ==
    LET m == [kind |-> "progress", run |-> r, seq |-> 0] IN
    /\ connection
    /\ \/ received' = received \cup {m} /\ acked' = acked \cup {m}
          /\ UNCHANGED variable
       \/ /\ variable' = IF WithBackup(TRUE)
                         THEN [variable EXCEPT ![KeyOf(m)] = m]
                         ELSE variable
          /\ UNCHANGED <<received, acked>>
    /\ UNCHANGED <<connection, callback, replay, restarts, network, accepted,
                   undeleted>>

-----------------------------------------------------------------------------
(* The replay thread: resend_reports, then sleep, for ever. *)

\* The next key of the rows fetched by session.query(Variable), or sleep.
NextKey(s) == IF s.keys = {} THEN Asleep
              ELSE [s EXCEPT !.pc = "get", !.msg = NoReport]

\* Mutant: only one of the two kinds of keys is looked for.
QueryProgress(t) ==
    /\ replay[t].pc = "sleep"
    /\ LET kept == {k \in Key : k.kind = "progress" /\ variable[k] # NoReport}
       IN  replay' = [replay EXCEPT ![t] = NextKey([@ EXCEPT !.keys = kept])]
    /\ UNCHANGED <<connection, variable, callback, restarts, network,
                   received, acked, accepted, undeleted>>

QueryVariables(t) ==
    /\ replay[t].pc = "sleep"
    /\ LET kept == {k \in Key : variable[k] # NoReport}
       IN  replay' = [replay EXCEPT ![t] = NextKey([@ EXCEPT !.keys = kept])]
    /\ UNCHANGED <<connection, variable, callback, restarts, network,
                   received, acked, accepted, undeleted>>

\* Mutant: a row that is gone is sent all the same.
GetUnchecked(t, k) ==
    /\ replay[t].pc = "get"
    /\ k \in replay[t].keys
    /\ replay' = [replay EXCEPT ![t] = [pc |-> "send", keys |-> @.keys \ {k},
                                       msg |-> variable[k]]]
    /\ UNCHANGED <<connection, variable, callback, restarts, network,
                   received, acked, accepted, undeleted>>

\* Mutant: the row is taken out of the table before it is sent.
TakeVariable(t, k) ==
    /\ replay[t].pc = "get"
    /\ k \in replay[t].keys
    /\ variable[k] # NoReport
    /\ replay' = [replay EXCEPT ![t] = [pc |-> "send", keys |-> @.keys \ {k},
                                       msg |-> variable[k]]]
    /\ variable' = [variable EXCEPT ![k] = NoReport]
    /\ UNCHANGED <<connection, callback, restarts, network, received, acked,
                   accepted, undeleted>>

\* Variable.get reads the row again; it is outside the try block, so a row
\* that is gone (KeyError) ends the thread.
GetVariable(t, k) ==
    /\ replay[t].pc = "get"
    /\ k \in replay[t].keys
    /\ replay' = [replay EXCEPT ![t] =
                     IF variable[k] = NoReport
                     THEN [Asleep EXCEPT !.pc = "dead"]
                     ELSE [pc |-> "send", keys |-> @.keys \ {k},
                           msg |-> variable[k]]]
    /\ UNCHANGED <<connection, variable, callback, restarts, network,
                   received, acked, accepted, undeleted>>

\* The query, or Variable.get, raises (the database is locked): neither is
\* inside the try block.
ReadFailed(t) ==
    /\ replay[t].pc \in {"sleep", "get"}
    /\ replay' = [replay EXCEPT ![t] = [Asleep EXCEPT !.pc = "dead"]]
    /\ UNCHANGED <<connection, variable, callback, restarts, network,
                   received, acked, accepted, undeleted>>

ResendDelivered(t) ==
    /\ replay[t].pc = "send"
    /\ connection
    /\ received' = received \cup {replay[t].msg}
    /\ acked' = acked \cup {replay[t].msg}
    /\ replay' = [replay EXCEPT ![t].pc = "delete"]
    /\ UNCHANGED <<connection, variable, callback, restarts, network, accepted,
                   undeleted>>

\* Mutant: the row is deleted whether or not the request succeeded.
DeleteAnyway(t) ==
    /\ replay[t].pc = "send"
    /\ IF connection THEN Unanswered(replay[t].msg)
                     ELSE UNCHANGED <<network, received>>
    /\ replay' = [replay EXCEPT ![t].pc = "delete"]
    /\ UNCHANGED <<connection, variable, callback, restarts, acked, accepted,
                   undeleted>>

ResendFailed(t) ==
    /\ replay[t].pc = "send"
    /\ IF connection THEN Unanswered(replay[t].msg)
                     ELSE UNCHANGED <<network, received>>
    /\ replay' = [replay EXCEPT ![t] = NextKey(@)]
    /\ UNCHANGED <<connection, variable, callback, restarts, acked, accepted,
                   undeleted>>

\* Mutant: what was sent stays in the table.
DeleteNothing(t) ==
    /\ replay[t].pc = "delete"
    /\ replay' = [replay EXCEPT ![t] = NextKey(@)]
    /\ UNCHANGED <<connection, variable, callback, restarts, network,
                   received, acked, accepted, undeleted>>

\* Variable.delete removes the row of the key, whatever it holds by now.
DeleteVariable(t) ==
    /\ replay[t].pc = "delete"
    /\ variable' = [variable EXCEPT ![KeyOf(replay[t].msg)] = NoReport]
    /\ replay' = [replay EXCEPT ![t] = NextKey(@)]
    /\ UNCHANGED <<connection, callback, restarts, network,
                   received, acked, accepted, undeleted>>

\* Variable.delete raises inside the try block ("Will retry in the next
\* run"): the row stays, though the report was answered.
DeleteFailed(t) ==
    /\ replay[t].pc = "delete"
    /\ undeleted' = undeleted \cup {replay[t].msg}
    /\ replay' = [replay EXCEPT ![t] = NextKey(@)]
    /\ UNCHANGED <<connection, variable, callback, restarts, network,
                   received, acked, accepted>>

\* The API server is killed and started again, at any point of the loop.
RestartServer(t) ==
    /\ restarts < MaxRestarts
    /\ restarts' = restarts + 1
    /\ replay' = [replay EXCEPT ![t] = Asleep]
    /\ undeleted' = IF replay[t].pc = "delete"
                    THEN undeleted \cup {replay[t].msg} ELSE undeleted
    /\ UNCHANGED <<connection, variable, callback, network,
                   received, acked, accepted>>

-----------------------------------------------------------------------------

CallbackStep(r) ==
    \/ \E success \in BOOLEAN : StartCallback(r, success)
    \/ PostDelivered(r) \/ PostSkipped(r) \/ PostFailed(r)
    \/ Backup(r) \/ AbortCallback(r)
    \/ TaskProgress(r)

ReplayStep(t) ==
    \/ QueryVariables(t) \/ ReadFailed(t)
    \/ \E k \in Key : GetVariable(t, k)
    \/ ResendDelivered(t) \/ ResendFailed(t)
    \/ DeleteVariable(t) \/ DeleteFailed(t)

Next ==
    \/ AddConnection
    \/ \E m \in Report : LateArrival(m)
    \/ \E r \in Run : CallbackStep(r)
    \/ \E t \in Replayer : ReplayStep(t) \/ RestartServer(t)

Spec == Init /\ [][Next]_vars

\* The loop of a replay thread goes on as long as its server runs, and the
\* service answers again and again: it answers infinitely many of the
\* infinitely many attempts to send a given report.
ReplayFairness(t) ==
    /\ WF_vars(ReplayStep(t))
    /\ \A k \in Key :
          SF_vars(ResendDelivered(t) /\ KeyOf(replay[t].msg) = k)

FairSpec == Spec /\ \A t \in Replayer : ReplayFairness(t)

-----------------------------------------------------------------------------
(* Properties *)

\* A report whose post_* call is over, and which is the only one its run has
\* ever made under its key, is at the service or kept for the replay: no
\* order of failed posts, late arrivals, replays by several servers and
\* server restarts loses it (post_progress and post_results: "we need to
\* guarantee that message is not getting lost").
SoleReportKept ==
    \A m \in accepted :
        callback[m.run].seq = 1 => m \in received \/ variable[KeyOf(m)] = m

\* The same for a run that called back more than once: the newest report of
\* a key, once its post_* call is over and no newer one has been started,
\* is at the service or kept.
NewestReportKept ==
    \A m \in accepted :
        m.seq = callback[m.run].seq
            => m \in received \/ variable[KeyOf(m)] = m

\* A kept report disappears without being replaced only once the service
\* has got a report of its key: resend_reports deletes what it has sent.
DeletedAfterDelivery ==
    [][\A k \in Key :
          variable[k] # NoReport /\ variable'[k] = NoReport
              => \E m \in received : KeyOf(m) = k /\ m.seq > 0]_vars

\* A report whose sender has seen a response to it is sent again only
\* because its row could not be deleted after a response (Variable.delete
\* raised, or the server was restarted before it), or is about to be deleted
\* by another server: no other order of posts, resends, late arrivals and
\* callbacks brings an answered report back.
NotResentAfterResponse ==
    [][\A t \in Replayer :
          LET m == replay'[t].msg IN
          replay[t].pc = "get" /\ replay'[t].pc = "send" /\ m \in acked
              => \/ m \in undeleted
                 \/ \E u \in Replayer : replay[u].pc = "delete" /\ replay[u].msg = m]_vars

AllThreadsDead == \A t \in Replayer : replay[t].pc = "dead"

\* A kept report that is the only one of its key reaches the service in the
\* end, with several servers that replay the same rows and are restarted, and
\* deletes that fail, unless every replay thread has died: a thread that finds
\* a row gone, or cannot read the database, ends ("thread will be killed when
\* the main program exits").
KeptReportDelivered ==
    \A m \in Report :
        variable[KeyOf(m)] = m
            ~> m \in received \/ AllThreadsDead \/ callback[m.run].seq > 1

-----------------------------------------------------------------------------
\* What this delivery implements when a run calls back once: the outbox of
\* ReportOutbox, held in the Variables.
Outbox == INSTANCE ReportOutbox
            WITH Message <- Report \cup TaskReport,
                 owed <- {variable[k] : k \in Key} \ {NoReport},
                 delivered <- received

\* A kept report leaves the table only after the service has got that very
\* report, through every interleaving of the callbacks, the replay threads
\* and their restarts (each run calling back once).
ImplementsOutbox == Outbox!Spec

=============================================================================
