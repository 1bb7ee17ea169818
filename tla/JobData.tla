------------------------------ MODULE JobData ------------------------------
(***************************************************************************)
(* How data finds its way through an assembled DAG: a task reports under   *)
(* keys, and collect_reports gives the next ones whatever stands under a   *)
(* key.  "/" becomes "_" in a key, so two ids of a document may share one. *)
(*                                                                         *)
(* An id is the sections that "/" separates, and a section is the words    *)
(* that "_" separates.  Each step has one output; a value is known by      *)
(* where it comes from.                                                    *)
(***************************************************************************)
EXTENDS DagAssembly, Naturals, Sequences

CONSTANTS
    Naming,         \* the ids that documents give to what tasks report
    NoNaming

\* The folder of the run, which the dispatcher adds to the job.
Folder == "folder"
TmpFolder == <<"tmp", "folder">>

Origin == Step \cup {WorkflowInput, Folder}

ASSUME NamingAssumption ==
    /\ NoNaming \notin Naming /\ Folder \notin Step
    /\ \A n \in Naming : Len(n[WorkflowInput]) = 1
    /\ \A n \in Naming, s \in Step : Len(n[s]) \in Nat /\ Len(n[s]) > 1

VARIABLES
    naming,         \* the ids of this document (the assembly compares ids as a
                    \* whole, so that they matter only from the first task on)
    started,
    finished,       \* tasks whose report can be collected
    taken           \* <<source, origin>> pairs: what a task took, and for what

jobVars == <<naming, started, finished, taken>>

-----------------------------------------------------------------------------
(* Ids and keys *)

\* get_short_id: what stands between the first and the last section is dropped.
ShortId(id) == IF Len(id) > 2 THEN <<id[1], id[Len(id)]>> ELSE id

\* Mutant: the key of an output is its id without the name of the step.
KeyOfName(id) == LET short == ShortId(id) IN short[Len(short)]

\* The key that an id has in a job: replace("/", "_").
Key(id) ==
    LET short == ShortId(id)
    IN  IF Len(short) = 1 THEN short[1] ELSE short[1] \o short[2]

KeyOf(n, x) == IF x = Folder THEN TmpFolder ELSE Key(n[x])

\* get_items with a target: the items whose id is the target, whole or shortened.
Selected(id, target) == id = target \/ ShortId(id) = target

-----------------------------------------------------------------------------
(* Tasks *)

Upstream(t) == {u \in Task : <<u, t>> \in edges}

\* load_job: the workflow's input, from the job or by its default.  A job may have
\* a tmp_folder of its own; the dispatcher sets it in any case.
ReportOfDispatcher == {<<KeyOf(naming, x), x>> : x \in {WorkflowInput, Folder}}

\* The outputs of the step workflow, whose ids are keys with the step's name.  A
\* step that is skipped reports its null in the same way.
ReportOf(t) ==
    IF t = Dispatcher THEN ReportOfDispatcher ELSE {<<KeyOf(naming, t), t>>}

\* collect_reports: what is found under a key is merged from all reports that
\* have it (two File objects become one, with members of both).
Collected(key) ==
    {x \in Origin : \E t \in finished \ {Gatherer} : <<key, x>> \in ReportOf(t)}

\* The sources of a step workflow's inputs.  A source that is a workflow input is
\* looked for first and keeps its id; any other one is the output of a step.
SourcesOfStep(s) == workflow.ins[s] \ {NoSource}

KeyOfSource(src) ==
    IF Selected(naming[WorkflowInput], ShortId(naming[src])) THEN ShortId(naming[src])[1]
    ELSE Key(naming[src])

Sources(t) == IF t = Gatherer THEN workflow.outs ELSE SourcesOfStep(t)

\* What the task finds for its sources, and as the folder of the run.
Take(t) ==
    (UNION {{src} \X Collected(KeyOfSource(src)) : src \in Sources(t)})
        \cup ({Folder} \X Collected(TmpFolder))

\* The DAG is assembled, and a run of it begins.
StartRun ==
    /\ phase = "done" /\ naming = NoNaming
    /\ naming' \in Naming
    /\ UNCHANGED <<assemblyVars, started, finished, taken>>

Dispatch ==
    /\ naming # NoNaming /\ Dispatcher \notin started
    /\ started' = started \cup {Dispatcher}
    /\ finished' = finished \cup {Dispatcher}
    /\ UNCHANGED <<assemblyVars, naming, taken>>

\* A step starts when all before it have ended.
StartStep(s) ==
    /\ naming # NoNaming /\ s \notin started
    /\ Upstream(s) \subseteq finished
    /\ started' = started \cup {s}
    /\ taken' = [taken EXCEPT ![s] = Take(s)]
    /\ UNCHANGED <<assemblyVars, naming, finished>>

\* Its report goes to the folder that it found; a step that nothing is before may
\* start ahead of the dispatcher, finds none and fails.
FinishStep(s) ==
    /\ s \in started \ finished
    /\ \E x \in Origin : <<Folder, x>> \in taken[s]
    /\ finished' = finished \cup {s}
    /\ UNCHANGED <<assemblyVars, naming, started, taken>>

\* relocate_outputs: each outputSource is looked up in the job (KeyError).
Gather ==
    /\ naming # NoNaming /\ Gatherer \notin started
    /\ Upstream(Gatherer) \subseteq finished
    /\ started' = started \cup {Gatherer}
    /\ taken' = [taken EXCEPT ![Gatherer] = Take(Gatherer)]
    /\ finished' = IF \A src \in Sources(Gatherer) \cup {Folder} :
                         \E x \in Origin : <<src, x>> \in taken'[Gatherer]
                   THEN finished \cup {Gatherer} ELSE finished
    /\ UNCHANGED <<assemblyVars, naming>>

JobInit ==
    /\ AssemblyInit
    /\ naming = NoNaming
    /\ started = {} /\ finished = {}
    /\ taken = [t \in Task |-> {}]

JobNext ==
    \/ AssemblyNext /\ UNCHANGED jobVars
    \/ StartRun \/ Dispatch
    \/ \E s \in Step : StartStep(s) \/ FinishStep(s)
    \/ Gather

JobSpec == JobInit /\ [][JobNext]_<<assemblyVars, jobVars>>

-----------------------------------------------------------------------------
(* Properties *)

\* The words of an id, and whether they tell it from all others.
Words(id) == IF Len(id) = 1 THEN id[1] ELSE id[1] \o id[Len(id)]

WordsOf(x) == IF x = Folder THEN TmpFolder ELSE Words(naming[x])

ToldApart(x) == \A y \in Origin \ {x} : WordsOf(x) # WordsOf(y)

\* Whatever runs at the same time, a task finds for each of its sources what the
\* source has put out, and nothing else, provided no other id of the document
\* becomes the same key: data goes through keys that are made by replacing "/" in
\* three places, and through the order of tasks that the assembly has made.
TakenFromSources ==
    \A t \in started \ {Dispatcher} :
        /\ \A src \in Sources(t) : <<src, src>> \in taken[t]
        /\ \A pair \in taken[t] : ToldApart(pair[1]) => pair[2] = pair[1]

=============================================================================
