-------------------------- MODULE PickleCacheProofs --------------------------
(***************************************************************************)
(* Proofs about PickleCache, for every set of processes and every number   *)
(* of chunks, loads and kills.                                             *)
(***************************************************************************)
EXTENDS PickleCache, TLAPS

\* A process that writes has made the file.
WritersHaveFile == \A p \in Process : proc[p].pc = "write" => exists

\* Nothing is lacking that no writer has before it: whoever truncates the
\* file starts with the first chunk.
WritersComplete ==
    exists /\ kills = 0 =>
        \A c \in 1..Chunks :
            c \in data \/ \E p \in Process : proc[p].pc = "write" /\ proc[p].next <= c

PickleInv == TypeOK /\ WritersHaveFile /\ WritersComplete

-----------------------------------------------------------------------------

\* The states that a process goes to are states.
LEMMA AtType ==
    \A pc \in {"idle", "open", "read", "slow", "write", "loaded", "raised"} :
        At(pc) \in ProcState /\ At(pc).pc = pc /\ At(pc).next = 1
BY CacheAssumption DEF At, ProcState

LEMMA PickleStarts == Init => PickleInv
<1> SUFFICES ASSUME Init PROVE PickleInv
  OBVIOUS
<1>1. TypeOK
  <2>1. kills \in 0..MaxKills /\ 0 \in 0..MaxLoads
    BY CacheAssumption DEF Init
  <2>2. proc \in [Process -> ProcState] /\ loads \in [Process -> 0..MaxLoads]
    BY <2>1, AtType DEF Init
  <2> QED
    BY <2>1, <2>2, Zenon DEF Init, TypeOK
<1>2. WritersHaveFile /\ WritersComplete
  BY AtType DEF Init, WritersHaveFile, WritersComplete
<1> QED
  BY <1>1, <1>2 DEF PickleInv

\* A step of a process that is not writing, and leaves the file alone.
LEMMA FileAlone ==
    ASSUME PickleInv, NEW p \in Process, proc[p].pc # "write",
           UNCHANGED <<exists, data, kills>>,
           NEW s \in ProcState, s.pc # "write", proc' = [proc EXCEPT ![p] = s],
           loads' \in [Process -> 0..MaxLoads]
    PROVE  PickleInv'
<1>1. TypeOK'
  BY DEF PickleInv, TypeOK
<1>2. \A q \in Process : \/ proc'[q] = proc[q]
                         \/ proc[q].pc # "write" /\ proc'[q].pc # "write"
  BY DEF PickleInv, TypeOK
<1>3. WritersHaveFile' /\ WritersComplete'
  BY <1>2 DEF PickleInv, WritersHaveFile, WritersComplete
<1> QED
  BY <1>1, <1>3 DEF PickleInv

LEMMA SlowLoadHolds ==
    ASSUME PickleInv, NEW p \in Process, SlowLoad(p)
    PROVE  PickleInv'
<1>1. TypeOK'
  BY AtType DEF SlowLoad, Goto, PickleInv, TypeOK
<1>2. exists' /\ proc'[p].pc = "write" /\ proc'[p].next = 1
  BY AtType DEF SlowLoad, Goto, PickleInv, TypeOK
<1>3. WritersHaveFile' /\ WritersComplete'
  BY <1>2, CacheAssumption DEF WritersHaveFile, WritersComplete
<1> QED
  BY <1>1, <1>3 DEF PickleInv

LEMMA WriteChunkHolds ==
    ASSUME PickleInv, NEW p \in Process, WriteChunk(p)
    PROVE  PickleInv'
<1> DEFINE n == proc[p].next
<1>1. n \in 1..Chunks /\ exists
  BY CacheAssumption
     DEF WriteChunk, PickleInv, TypeOK, ProcState, WritersHaveFile
<1>2. /\ proc' \in [Process -> ProcState]
      /\ proc'[p].pc = "write" /\ proc'[p].next = n + 1
      /\ \A q \in Process \ {p} : proc'[q] = proc[q]
  BY <1>1, CacheAssumption DEF WriteChunk, PickleInv, TypeOK, ProcState
<1>3. data' = data \cup {n} /\ UNCHANGED <<exists, loads, kills>>
  BY DEF WriteChunk
<1>4. TypeOK'
  BY <1>1, <1>2, <1>3 DEF PickleInv, TypeOK
<1>5. WritersHaveFile'
  BY <1>1, <1>3 DEF WritersHaveFile
<1>6. WritersComplete'
  \* The chunk that is written leaves its writer with those behind it.
  <2> SUFFICES ASSUME exists, kills = 0, NEW c \in 1..Chunks, c \notin data'
               PROVE  \E q \in Process : proc'[q].pc = "write" /\ proc'[q].next <= c
    BY <1>3 DEF WritersComplete
  <2>1. PICK q \in Process : proc[q].pc = "write" /\ proc[q].next <= c
    BY <1>3 DEF PickleInv, WritersComplete
  <2>2. CASE q = p
    BY <1>1, <1>2, <1>3, <2>1, <2>2, CacheAssumption
  <2>3. CASE q # p
    BY <1>2, <2>1, <2>3
  <2> QED
    BY <2>2, <2>3
<1> QED
  BY <1>4, <1>5, <1>6 DEF PickleInv

LEMMA ClosePickleHolds ==
    ASSUME PickleInv, NEW p \in Process, ClosePickle(p)
    PROVE  PickleInv'
<1>1. UNCHANGED <<exists, data, loads, kills>> /\ proc[p].next > Chunks
  BY DEF ClosePickle
<1>2. /\ proc' \in [Process -> ProcState]
      /\ proc'[p].pc = "loaded"
      /\ \A q \in Process \ {p} : proc'[q] = proc[q]
  BY AtType DEF ClosePickle, Goto, PickleInv, TypeOK
<1>3. TypeOK'
  BY <1>1, <1>2 DEF PickleInv, TypeOK
<1>4. WritersHaveFile'
  BY <1>1, <1>2 DEF PickleInv, WritersHaveFile
<1>5. WritersComplete'
  \* A process that closes the file has no chunk before it.
  <2> SUFFICES ASSUME exists, kills = 0, NEW c \in 1..Chunks, c \notin data
               PROVE  \E q \in Process : proc'[q].pc = "write" /\ proc'[q].next <= c
    BY <1>1 DEF WritersComplete
  <2>1. PICK q \in Process : proc[q].pc = "write" /\ proc[q].next <= c
    BY DEF PickleInv, WritersComplete
  <2>2. q # p
    BY <1>1, <2>1, CacheAssumption DEF PickleInv, TypeOK, ProcState
  <2> QED
    BY <1>2, <2>1, <2>2
<1> QED
  BY <1>3, <1>4, <1>5 DEF PickleInv

LEMMA KillHolds ==
    ASSUME PickleInv, NEW p \in Process, Kill(p)
    PROVE  PickleInv'
<1>1. kills' \in 0..MaxKills /\ kills' # 0
  BY CacheAssumption DEF Kill, PickleInv, TypeOK
<1>2. UNCHANGED <<exists, data, loads>> /\ proc' \in [Process -> ProcState]
  BY AtType DEF Kill, Goto, PickleInv, TypeOK
<1>3. \A q \in Process : proc'[q].pc = "write" => proc[q].pc = "write"
  BY AtType DEF Kill, Goto, PickleInv, TypeOK
<1> QED
  BY <1>1, <1>2, <1>3
     DEF PickleInv, TypeOK, WritersHaveFile, WritersComplete

LEMMA PickleStep == PickleInv /\ [Next]_vars => PickleInv'
<1> SUFFICES ASSUME PickleInv, [Next]_vars
             PROVE  PickleInv'
  OBVIOUS
<1>1. ASSUME NEW p \in Process, StartLoad(p)
      PROVE  PickleInv'
  <2>1. loads' \in [Process -> 0..MaxLoads]
    BY <1>1, CacheAssumption DEF StartLoad, PickleInv, TypeOK
  <2> QED
    BY <1>1, <2>1, AtType, FileAlone DEF StartLoad, Goto
<1>2. ASSUME NEW p \in Process, OpenPickle(p)
      PROVE  PickleInv'
  BY <1>2, AtType, FileAlone DEF OpenPickle, Goto, PickleInv, TypeOK
<1>3. ASSUME NEW p \in Process, ReadPickle(p)
      PROVE  PickleInv'
  <2>1. PICK pc \in {"loaded", "slow", "raised"} : Goto(p, pc)
    BY <1>3 DEF ReadPickle
  <2> QED
    BY <1>3, <2>1, AtType, FileAlone DEF ReadPickle, Goto, PickleInv, TypeOK
<1>4. CASE UNCHANGED vars
  BY <1>4 DEF vars, PickleInv, TypeOK, WritersHaveFile, WritersComplete
<1> QED
  BY <1>1, <1>2, <1>3, <1>4, SlowLoadHolds, WriteChunkHolds, ClosePickleHolds,
     KillHolds
     DEF Next, LoadStep

LEMMA PickleInvariance == Spec => []PickleInv
BY PickleStarts, PickleStep, PTL DEF Spec

-----------------------------------------------------------------------------

\* Every value stays in its type.
THEOREM PickleTypeCorrect == Spec => []TypeOK
BY PickleInvariance, PTL DEF PickleInv

\* While nobody is killed, a pickle that nobody writes is complete, however
\* many processes truncated and wrote it.
THEOREM UnwrittenPickleComplete == Spec => []PickleComplete
<1>1. PickleInv => PickleComplete
  BY DEF PickleInv, TypeOK, WritersComplete, PickleComplete, Complete
<1> QED
  BY <1>1, PickleInvariance, PTL

\* A complete pickle that nobody is about to write is never written again,
\* and read by every load.
THEOREM SettledForEver == Spec => SettledPickleStays
<1>1. ASSUME PickleInv, Settled, [Next]_vars
      PROVE  Settled' /\ \A p \in Process :
                 proc'[p].pc = "raised" => proc[p].pc = "raised"
  <2>1. exists
    <3>1. 1 \in data
      BY <1>1, CacheAssumption DEF Settled, Complete
    <3> QED
      BY <1>1, <3>1 DEF PickleInv, TypeOK
  <2>2. CASE UNCHANGED vars
    BY <1>1, <2>2 DEF vars, Settled, Complete
  <2>3. ASSUME NEW p \in Process, StartLoad(p) \/ LoadStep(p) \/ Kill(p)
        PROVE  Settled' /\ \A q \in Process :
                   proc'[q].pc = "raised" => proc[q].pc = "raised"
    <3>1. data' = data /\ \E pc \in {"open", "read", "loaded", "idle"} : Goto(p, pc)
      BY <1>1, <2>1, <2>3
         DEF Settled, StartLoad, LoadStep, OpenPickle, ReadPickle, SlowLoad,
             WriteChunk, ClosePickle, Kill
    <3>2. \A q \in Process : \/ proc'[q] = proc[q]
                             \/ proc'[q].pc \in {"open", "read", "loaded", "idle"}
      BY <3>1, AtType DEF Goto, PickleInv, TypeOK
    <3> QED
      BY <1>1, <3>1, <3>2 DEF Settled, Complete
  <2> QED
    BY <1>1, <2>2, <2>3 DEF Next
<1>2. PickleInv /\ [Next]_vars =>
          [Settled => Settled' /\ \A p \in Process :
               proc'[p].pc = "raised" => proc[p].pc = "raised"]_vars
  BY <1>1
<1> QED
  BY <1>2, PickleInvariance, PTL DEF Spec, SettledPickleStays

=============================================================================
