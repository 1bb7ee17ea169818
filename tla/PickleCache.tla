---------------------------- MODULE PickleCache ----------------------------
(***************************************************************************)
(* fast_cwl_load (utilities/cwl.py): the processes that need a workflow    *)
(* (the scheduler's file processors, the workers, the API servers) share   *)
(* one pickle of it, named after the md5 sum of the workflow, in           *)
(* pickle_folder.  Whoever finds no pickle, or a broken one, loads the     *)
(* workflow the slow way and writes the pickle, in place.                  *)
(*                                                                         *)
(* A process may be killed between any two steps (Airflow ends a file      *)
(* processor that takes too long, and a task on request).                  *)
(***************************************************************************)
EXTENDS Naturals, FiniteSets

CONSTANTS
    Process,        \* the processes that load the workflow
    Chunks,         \* how many writes it takes to dump the pickle
    MaxLoads,       \* bound: loads of one process
    MaxKills        \* bound: processes killed, all together

ASSUME CacheAssumption ==
    Chunks \in Nat \ {0} /\ MaxLoads \in Nat /\ MaxKills \in Nat

VARIABLES
    exists,         \* is there a pickle file?
    data,           \* the chunks that the file holds; others before them are holes
    proc,           \* each process: what it is doing, and its next chunk
    loads,          \* loads started by each process
    kills           \* processes killed so far

vars == <<exists, data, proc, loads, kills>>

-----------------------------------------------------------------------------

ProcState == [pc : {"idle", "open", "read", "slow", "write", "loaded", "raised"},
              next : 1..(Chunks + 1)]

At(pc) == [pc |-> pc, next |-> 1]

Goto(p, pc) == proc' = [proc EXCEPT ![p] = At(pc)]

Complete == data = 1..Chunks

TypeOK ==
    /\ exists \in BOOLEAN
    /\ data \subseteq 1..Chunks
    /\ data # {} => exists
    /\ proc \in [Process -> ProcState]
    /\ loads \in [Process -> 0..MaxLoads]
    /\ kills \in 0..MaxKills

Init ==
    /\ exists = FALSE
    /\ data = {}
    /\ proc = [p \in Process |-> At("idle")]
    /\ loads = [p \in Process |-> 0]
    /\ kills = 0

\* A process needs the workflow, again if an earlier attempt raised.
StartLoad(p) ==
    /\ proc[p].pc \in {"idle", "loaded", "raised"}
    /\ loads[p] < MaxLoads
    /\ loads' = [loads EXCEPT ![p] = @ + 1]
    /\ Goto(p, "open")
    /\ UNCHANGED <<exists, data, kills>>

\* Mutant: the pickle is written anew by each load.
OpenAnew(p) ==
    /\ proc[p].pc = "open"
    /\ Goto(p, "slow")
    /\ UNCHANGED <<exists, data, loads, kills>>

\* open(pickled_workflow, "rb"): FileNotFoundError leads to the slow load.
OpenPickle(p) ==
    /\ proc[p].pc = "open"
    /\ Goto(p, IF exists THEN "read" ELSE "slow")
    /\ UNCHANGED <<exists, data, loads, kills>>

\* pickle.load on what the file holds by now: an empty file is an EOFError,
\* a hole at its start an UnpicklingError, one that breaks off either.
LoadErrors ==
    IF data = {} THEN {"EOFError"}
    ELSE IF 1 \notin data THEN {"UnpicklingError"}
    ELSE {"EOFError", "UnpicklingError"}

\* The errors that fast_cwl_load catches, once the file is open.
Caught == {"UnpicklingError"}

ReadPickle(p) ==
    /\ proc[p].pc = "read"
    /\ IF Complete THEN Goto(p, "loaded")
       ELSE \E err \in LoadErrors :
               Goto(p, IF err \in Caught THEN "slow" ELSE "raised")
    /\ UNCHANGED <<exists, data, loads, kills>>

\* slow_cwl_load, then open(pickled_workflow, "wb"), which truncates.
SlowLoad(p) ==
    /\ proc[p].pc = "slow"
    /\ exists' = TRUE
    /\ data' = {}
    /\ Goto(p, "write")
    /\ UNCHANGED <<loads, kills>>

\* Mutant: one chunk too many.
WriteOneMore(p) ==
    /\ proc[p].pc = "write"
    /\ proc[p].next <= Chunks + 1
    /\ data' = data \cup {proc[p].next}
    /\ proc' = [proc EXCEPT ![p].next = @ + 1]
    /\ UNCHANGED <<exists, loads, kills>>

\* pickle.dump: chunk after chunk, at the process's own place in the file.
WriteChunk(p) ==
    /\ proc[p].pc = "write"
    /\ proc[p].next <= Chunks
    /\ data' = data \cup {proc[p].next}
    /\ proc' = [proc EXCEPT ![p].next = @ + 1]
    /\ UNCHANGED <<exists, loads, kills>>

\* Mutant: the file is left with its last chunk unwritten.
CloseUnflushed(p) ==
    /\ proc[p].pc = "write"
    /\ proc[p].next >= Chunks
    /\ Goto(p, "loaded")
    /\ UNCHANGED <<exists, data, loads, kills>>

ClosePickle(p) ==
    /\ proc[p].pc = "write"
    /\ proc[p].next > Chunks
    /\ Goto(p, "loaded")
    /\ UNCHANGED <<exists, data, loads, kills>>

Kill(p) ==
    /\ proc[p].pc \in {"open", "read", "slow", "write"}
    /\ kills < MaxKills
    /\ kills' = kills + 1
    /\ Goto(p, "idle")
    /\ UNCHANGED <<exists, data, loads>>

LoadStep(p) ==
    \/ OpenPickle(p) \/ ReadPickle(p) \/ SlowLoad(p)
    \/ WriteChunk(p) \/ ClosePickle(p)

Next == \E p \in Process : StartLoad(p) \/ LoadStep(p) \/ Kill(p)

Spec == Init /\ [][Next]_vars

-----------------------------------------------------------------------------
(* Properties *)

\* As long as nobody is killed, a pickle that nobody writes is complete,
\* however many processes truncated and wrote it at the same time.
PickleComplete ==
    exists /\ kills = 0 /\ (\A p \in Process : proc[p].pc # "write") => Complete

\* The pickle is complete, and nobody is about to write it.
Settled == Complete /\ \A p \in Process : proc[p].pc \notin {"slow", "write"}

\* From then on it stays complete and nobody writes it any more: every load
\* takes it, whoever is killed, and none raises.
SettledPickleStays ==
    [][Settled => Settled' /\ \A p \in Process :
                     proc'[p].pc = "raised" => proc[p].pc = "raised"]_vars

=============================================================================
