-------------------------- MODULE InitConfigProofs --------------------------
(***************************************************************************)
(* What InitConfig keeps, for any settings, DAG files and numbers of       *)
(* failures and kills: the types, the user's configuration, and the DAGs.  *)
(***************************************************************************)
EXTENDS InitConfig, TLAPS

USE DEF vars, backups, dagFiles, local, lasting

LEMMA ConfigTypes ==
    NoFile \in Config /\ Truncated \in Config /\ Default \in Config
BY DEF Config, NoFile, Truncated, Default

LEMMA FailType ==
    ASSUME failures \in 0..MaxFailures, Fail PROVE failures' \in 0..MaxFailures
BY InitConfigAssumption DEF Fail

LEMMA KillType ==
    ASSUME kills \in 0..MaxKills, Kill PROVE kills' \in 0..MaxKills
BY InitConfigAssumption DEF Kill

LEMMA EndType ==
    ASSUME TypeOK, NEW result, End(result)
    PROVE  at' = "off" /\ outcome' = result /\ kept' \subseteq Config /\ mine' \in Config
BY ConfigTypes DEF End, TypeOK

\* What sed makes of a configuration file is one.
LEMMA PatchedType ==
    ASSUME TypeOK, NEW p \in OwnPatch \cup Setting
    PROVE  Patched(cfg, p) \in Config
<1>1. /\ cfg.version \in {"1", "2", "none", "truncated"} 
      /\ cfg.own \subseteq OwnPatch /\ cfg.user \subseteq Users
      /\ cfg = [version |-> cfg.version, own |-> cfg.own, user |-> cfg.user]
  BY DEF TypeOK, Config
<1>2. CASE cfg = Truncated
  BY <1>2 DEF Patched, TypeOK
<1>3. CASE cfg # Truncated /\ p \in OwnPatch
  <2>1. Patched(cfg, p) = [cfg EXCEPT !.own = @ \cup {p}]
    BY <1>3 DEF Patched
  <2> QED BY <1>1, <1>3, <2>1 DEF Config
<1>4. CASE cfg # Truncated /\ p \notin OwnPatch
  <2>1. \/ Patched(cfg, p) = [cfg EXCEPT !.user = @ \cup {p}]
        \/ Patched(cfg, p) = [cfg EXCEPT !.user = @ \ {p}]
    BY <1>4 DEF Patched
  <2>2. p \in Users
    BY <1>4 DEF Users
  <2> QED BY <1>1, <2>1, <2>2 DEF Config
<1> QED
  BY <1>2, <1>3, <1>4

LEMMA UnrestoredType ==
    ASSUME unrestored \in BOOLEAN, [Next]_vars PROVE unrestored' \in BOOLEAN
<1>1. Interrupt => unrestored' \in BOOLEAN
  BY DEF Interrupt
<1>2. ~Interrupt => unrestored' = unrestored
  BY DEF Next, Start, Kill, Patch, CreateConfig, BackupConfig, CheckVersion, RemoveConfig,
         RecreateConfig, ApplyPatch, AllPatched, TruncateConfig, RestoreConfig, Finally,
         Upgrade, InitDb, OpenDag, CopyToDeprecated, IgnoreCopy, RewriteDag, CopyDags
<1> QED BY <1>1, <1>2

LEMMA UnrestoredStays == [Next]_vars /\ unrestored => unrestored'
BY DEF Next, Start, Kill, Interrupt, Patch, CreateConfig, BackupConfig, CheckVersion,
       RemoveConfig, RecreateConfig, ApplyPatch, AllPatched, TruncateConfig, RestoreConfig,
       Finally, Upgrade, InitDb, OpenDag, CopyToDeprecated, IgnoreCopy, RewriteDag, CopyDags

\* A file is rewritten only when one is open.
FileOpen == at \in {"save", "saving", "ignore", "write", "truncate"} => file \in DagFile

LEMMA FileOpenInvariance == Spec => []FileOpen
<1>1. Init => FileOpen
  BY DEF Init, FileOpen
<1>2. FileOpen /\ [Next]_vars => FileOpen'
  <2> SUFFICES ASSUME FileOpen, [Next]_vars PROVE FileOpen'
    OBVIOUS
  <2>1. CASE Start \/ Kill \/ Interrupt \/ Patch \/ UNCHANGED vars
    BY <2>1 DEF Start, Kill, Interrupt, End, Patch, CreateConfig, BackupConfig, CheckVersion,
        RemoveConfig, RecreateConfig, ApplyPatch, AllPatched, TruncateConfig,
        RestoreConfig, Finally, Goto, FileOpen
  <2>2. CASE Upgrade
    BY <2>2 DEF Upgrade, InitDb, OpenDag, CopyToDeprecated, IgnoreCopy, RewriteDag,
        CopyDags, End, Goto, Path, FileOpen
  <2> QED BY <2>1, <2>2 DEF Next
<1> QED BY <1>1, <1>2, PTL DEF Spec

\* The types of the variables are kept by every step of cwl-airflow init.
THEOREM TypeCorrect == Spec => []TypeOK
<1>1. Init => TypeOK
  <2> SUFFICES ASSUME Init PROVE TypeOK
    OBVIOUS
  <2>1. cfg \in Config
    <3>1. {} \subseteq OwnPatch /\ Users \subseteq Users
      OBVIOUS
    <3>2. cfg = [version |-> cfg.version, own |-> {}, user |-> Users]
          /\ cfg.version \in {"1", "2"}
      BY DEF Init
    <3> QED BY <3>1, <3>2 DEF Config
  <2>2. failures \in 0..MaxFailures /\ kills \in 0..MaxKills
    <3>1. failures = 0 /\ kills = 0
      BY DEF Init
    <3> QED BY <3>1, InitConfigAssumption
  <2>3. mine \in Config /\ before \in Config /\ kept \subseteq Config
    BY ConfigTypes DEF Init
  <2>4. /\ dags \in [DagFile -> {"old", "torn", "new"}]
        /\ saved \in [DagFile -> {"none", "partial", "old"}]
        /\ paths \subseteq Path /\ ignored \subseteq DagFile
        /\ patches \subseteq OwnPatch \cup Setting
    BY DEF Init
  <2> QED BY <2>1, <2>2, <2>3, <2>4 DEF Init, TypeOK
<1>2. TypeOK /\ FileOpen /\ [Next]_vars => TypeOK'
  <2> SUFFICES ASSUME TypeOK, FileOpen, [Next]_vars PROVE TypeOK'
    OBVIOUS
  <2> USE ConfigTypes, FailType, EndType, UnrestoredType
  <2>1. CASE Start
    BY <2>1 DEF TypeOK, Start
  <2>2. CASE Kill
    BY <2>2, KillType DEF TypeOK, Kill, CutShort
  <2>3. CASE Patch
    <3>1. CASE CreateConfig
      BY <3>1 DEF TypeOK, CreateConfig, Goto
    <3>2. CASE BackupConfig
      BY <3>2 DEF TypeOK, BackupConfig, Goto
    <3>3. CASE CheckVersion
      BY <3>3 DEF TypeOK, CheckVersion, Goto
    <3>4. CASE RemoveConfig
      BY <3>4 DEF TypeOK, RemoveConfig, Goto
    <3>5. CASE RecreateConfig
      BY <3>5 DEF TypeOK, RecreateConfig, Goto
    <3>6. ASSUME NEW p \in OwnPatch \cup Setting, ApplyPatch(p) PROVE TypeOK'
      BY <3>6, PatchedType DEF TypeOK, ApplyPatch, Goto
    <3>7. CASE AllPatched
      BY <3>7 DEF TypeOK, AllPatched, Goto
    <3>8. CASE TruncateConfig
      BY <3>8 DEF TypeOK, TruncateConfig, Goto
    <3>9. CASE RestoreConfig
      BY <3>9 DEF TypeOK, RestoreConfig
    <3>10. CASE Finally
      BY <3>10 DEF TypeOK, Finally, Goto
    <3> QED BY <2>3, <3>1, <3>2, <3>3, <3>4, <3>5, <3>6, <3>7, <3>8, <3>9, <3>10
            DEF Patch
  <2>4. CASE Upgrade
    <3>1. CASE InitDb
      <4>1. PyFiles \subseteq Path
        BY DEF PyFiles, Path
      <4> QED BY <3>1, <4>1 DEF TypeOK, InitDb, CutShort, Goto
    <3>2. ASSUME NEW x \in Path, OpenDag(x) PROVE TypeOK'
      BY <3>2 DEF TypeOK, OpenDag, Path, Goto
    <3>3. CASE CopyToDeprecated
      BY <3>3 DEF TypeOK, CopyToDeprecated, Goto
    <3>4. CASE IgnoreCopy
      BY <3>4 DEF TypeOK, FileOpen, IgnoreCopy, Goto
    <3>5. CASE RewriteDag
      BY <3>5 DEF TypeOK, RewriteDag, Goto
    <3>6. CASE CopyDags
      BY <3>6 DEF TypeOK, CopyDags
    <3> QED BY <2>4, <3>1, <3>2, <3>3, <3>4, <3>5, <3>6 DEF Upgrade
  <2>5. CASE UNCHANGED vars
    BY <2>5 DEF TypeOK
  <2>6. CASE Interrupt
    BY <2>6 DEF TypeOK, Interrupt
  <2> QED BY <2>1, <2>2, <2>3, <2>4, <2>5, <2>6 DEF Next
<1> QED BY <1>1, <1>2, FileOpenInvariance, PTL DEF Spec

-----------------------------------------------------------------------------
(* The user's configuration *)

\* It is in a backup, of this run or of an earlier one.
BackedUp == Full(mine) \/ \E c \in kept : Full(c)

Somewhere == Full(cfg) \/ Full(mine) \/ \E c \in kept : Full(c)

\* Where it is, step by step: the backup of the present run is complete before
\* airflow.cfg is touched; the file of Airflow 1 is removed with the backup to
\* stay; otherwise only the lines of CWL-Airflow change.
ConfigSafe ==
    /\ at \in {"off", "create", "backup"} => mine = NoFile
    /\ at \in {"check", "remove"} => mine = cfg
    /\ at \in {"remove", "recreate"} => airflow_version_update = "yes"
    /\ at \in {"patch", "restore"} /\ airflow_version_update # "yes"
           => cfg.user = mine.user /\ patches \subseteq OwnPatch
    /\ at \in {"recreate", "patch", "restore", "copy back", "finally"}
           /\ airflow_version_update = "yes" => BackedUp
    /\ at = "copy back" => BackedUp
    /\ at = "finally" /\ airflow_version_update # "yes"
           => Full(cfg) \/ \E c \in kept : Full(c)
    /\ Somewhere

LEMMA NotFull == ~Full(NoFile) /\ ~Full(Default)
BY DEF Full, NoFile, Default, Users

\* A run that ends keeps its backup among the others.
LEMMA EndKeeps ==
    ASSUME NEW result, End(result), BackedUp
    PROVE  \E c \in kept' : Full(c)
BY NotFull DEF End, BackedUp

LEMMA EndSafe ==
    ASSUME NEW result, End(result), UNCHANGED cfg, ConfigSafe
    PROVE  ConfigSafe'
<1>1. at' = "off" /\ mine' = NoFile
  BY DEF End
<1>2. Somewhere'
  BY EndKeeps DEF ConfigSafe, Somewhere, BackedUp, Full, Users, End
<1> QED
  BY <1>1, <1>2 DEF ConfigSafe

\* A patch of CWL-Airflow leaves the user's settings alone.
LEMMA OwnPatchHarmless ==
    ASSUME TypeOK, NEW p \in OwnPatch PROVE Patched(cfg, p).user = cfg.user
BY DEF Patched, TypeOK, Config

\* Whatever fails, and whenever cwl-airflow init is killed, the configuration
\* of the user is in airflow.cfg or in a backup, unless the copy of the only backup
\* failed after it had truncated airflow.cfg.
THEOREM OriginalAlwaysKept == Spec => []OriginalKept
<1>1. Init => (~unrestored => ConfigSafe)
  <2> SUFFICES ASSUME Init PROVE ConfigSafe
    OBVIOUS
  <2>1. Full(cfg) /\ mine = NoFile /\ at = "off"
    BY DEF Init, Full, Users
  <2> QED BY <2>1 DEF ConfigSafe, Somewhere
<1>2. TypeOK /\ (~unrestored => ConfigSafe) /\ [Next]_vars => (~unrestored => ConfigSafe)'
  <2> SUFFICES ASSUME TypeOK, ~unrestored => ConfigSafe, [Next]_vars, ~unrestored'
               PROVE  ConfigSafe'
    OBVIOUS
  <2>0. ConfigSafe
    BY UnrestoredStays
  <2> USE <2>0, EndSafe
  <2>1. CASE Start
    BY <2>1 DEF Start, ConfigSafe, Somewhere, BackedUp, Full, Users
  <2>2. CASE Kill
    BY <2>2 DEF Kill
  <2>3. CASE Patch
    <3>1. CASE CreateConfig
      <4>1. CASE /\ UNCHANGED backups
                 /\ cfg' = IF cfg = NoFile THEN Default ELSE cfg
                 /\ at' = "backup"
        <5>1. ~Full(mine)
          BY <3>1, NotFull DEF CreateConfig, ConfigSafe
        <5>2. Full(cfg) => cfg' = cfg
          BY <4>1, NotFull
        <5>3. Somewhere'
          BY <4>1, <5>1, <5>2 DEF ConfigSafe, Somewhere, Full, Users
        <5> QED BY <3>1, <4>1, <5>3 DEF CreateConfig, ConfigSafe
      <4>2. CASE UNCHANGED cfg /\ \E result : End(result)
        BY <4>2
      <4> QED BY <3>1, <4>1, <4>2 DEF CreateConfig, Goto
    <3>2. CASE BackupConfig
      <4>1. CASE \E result : End(result)
        BY <3>2, <4>1 DEF BackupConfig
      <4>2. CASE mine' = cfg /\ at' = "check" /\ UNCHANGED kept
        <5>1. Somewhere'
          BY <3>2, <4>2, NotFull DEF BackupConfig, ConfigSafe, Somewhere, Full, Users
        <5> QED BY <3>2, <4>2, <5>1 DEF BackupConfig, ConfigSafe
      <4>3. CASE UNCHANGED mine /\ at' = "off" /\ kept' = kept \cup {Truncated}
        <5>1. Somewhere'
          BY <3>2, <4>3 DEF BackupConfig, ConfigSafe, Somewhere, Full, Users
        <5> QED BY <3>2, <4>3, <5>1 DEF BackupConfig, ConfigSafe
      <4> QED BY <3>2, <4>1, <4>2, <4>3 DEF BackupConfig, Goto
    <3>3. CASE CheckVersion
      BY <3>3 DEF CheckVersion, Goto, ConfigSafe, Somewhere, BackedUp, Full, Users
    <3>4. CASE RemoveConfig
      BY <3>4 DEF RemoveConfig, Goto, ConfigSafe, Somewhere, BackedUp, Full, Users
    <3>5. CASE RecreateConfig
      BY <3>5 DEF RecreateConfig, Goto, ConfigSafe, Somewhere, BackedUp, Full, Users
    <3>6. ASSUME NEW p \in OwnPatch \cup Setting, ApplyPatch(p) PROVE ConfigSafe'
      <4>1. /\ at = "patch" /\ at' \in {"patch", "restore"} /\ p \in patches
            /\ patches' = patches \ {p}
            /\ UNCHANGED <<backups, airflow_version_update>>
            /\ cfg' = Patched(cfg, p) \/ cfg' = cfg
        BY <3>6 DEF ApplyPatch, Goto
      <4>2. CASE airflow_version_update = "yes"
        BY <4>1, <4>2 DEF ConfigSafe, Somewhere, BackedUp, Full, Users
      <4>3. CASE airflow_version_update # "yes"
        <5>1. cfg'.user = cfg.user
          BY <4>1, <4>3, OwnPatchHarmless DEF ConfigSafe
        <5> QED BY <4>1, <4>3, <5>1 DEF ConfigSafe, Somewhere, BackedUp, Full, Users
      <4> QED BY <4>2, <4>3
    <3>7. CASE AllPatched
      BY <3>7 DEF AllPatched, Goto, ConfigSafe, Somewhere, BackedUp, Full, Users
    <3>8. CASE TruncateConfig
      BY <3>8 DEF TruncateConfig, Goto, ConfigSafe, Somewhere, BackedUp, Full, Users
    <3>9. CASE RestoreConfig
      BY <3>9 DEF RestoreConfig, ConfigSafe, Somewhere, BackedUp, Full, Users
    <3>10. CASE Finally
      BY <3>10 DEF Finally, Goto, ConfigSafe, Somewhere, BackedUp, Full, Users
    <3> QED BY <2>3, <3>1, <3>2, <3>3, <3>4, <3>5, <3>6, <3>7, <3>8, <3>9, <3>10
            DEF Patch
  <2>4. CASE Upgrade
    <3>1. /\ UNCHANGED cfg
          /\ \/ \E result : End(result)
             \/ /\ UNCHANGED backups
                /\ at' \in {"upgrade", "save", "saving", "ignore", "write", "truncate"}
      BY <2>4 DEF Upgrade, InitDb, OpenDag, CopyToDeprecated, IgnoreCopy, RewriteDag,
                  CopyDags, Goto
    <3> QED BY <3>1 DEF ConfigSafe, Somewhere, Full, Users
  <2>5. CASE UNCHANGED vars
    BY <2>5 DEF ConfigSafe, Somewhere, BackedUp, Full, Users
  <2>6. CASE Interrupt
    <3>1. at = "copy back" => airflow_version_update = "yes"
      BY <2>6 DEF Interrupt
    <3>2. /\ at \in {"remove", "patch", "restore", "copy back"} /\ at' = "finally"
          /\ UNCHANGED <<cfg, mine, kept, airflow_version_update>>
      BY <2>6 DEF Interrupt
    <3> QED BY <3>1, <3>2 DEF ConfigSafe, Somewhere, BackedUp, Full, Users
  <2> QED BY <2>1, <2>2, <2>3, <2>4, <2>5, <2>6 DEF Next
<1>3. (~unrestored => ConfigSafe) => OriginalKept
  BY DEF ConfigSafe, Somewhere, OriginalKept
<1> QED BY <1>1, <1>2, <1>3, TypeCorrect, PTL DEF Spec

-----------------------------------------------------------------------------
(* What a run leaves in airflow.cfg *)

Touching == {"check", "remove", "recreate", "patch", "restore", "copy back"}

After == {"finally", "db", "upgrade", "save", "saving", "ignore", "write", "truncate"}

\* Each line and each setting is in the file, or still to be patched.
Transferred ==
    cfg # Truncated =>
        /\ OwnPatch \subseteq cfg.own \cup patches
        /\ \A s \in before.user \cap Setting :
              value[s] = "plain" => s \in cfg.user \cup patches

\* How far a run has come with airflow.cfg: the backup is the file that it read,
\* nothing is lost on the way to the new file, and the steps after the patches
\* leave it alone.
ConfigProgress ==
    /\ outcome # "none" => at = "off" \/ (at = "finally" /\ outcome # "ok")
    /\ at \in Touching => mine = before
    /\ at = "check" => cfg = before
    /\ at \in {"remove", "recreate"}
           => OwnPatch \subseteq patches /\ before.user \cap Setting \subseteq patches
    /\ at = "patch" => Transferred
    /\ at \in After /\ outcome = "none" => Transferred /\ patches = {}
    /\ at \in {"finally", "off"} /\ outcome = "restored" => cfg = before
    /\ at = "off" /\ outcome = "ok" => Transferred /\ patches = {}

\* A patch brings its own line or setting, and takes no other away.
LEMMA PatchTransfers ==
    ASSUME TypeOK, Transferred, NEW p \in OwnPatch \cup Setting,
           cfg' = Patched(cfg, p), patches' = patches \ {p}, UNCHANGED <<before, value>>
    PROVE  Transferred'
<1>1. CASE cfg = Truncated
  BY <1>1 DEF Transferred, Patched, Truncated
<1>2. CASE cfg # Truncated /\ p \in OwnPatch
  <2>1. cfg'.own = cfg.own \cup {p} /\ cfg'.user = cfg.user
    BY <1>2 DEF Patched, TypeOK, Config
  <2>2. \A s \in Setting : s # p
    BY <1>2, InitConfigAssumption
  <2> QED BY <1>2, <2>1, <2>2 DEF Transferred
<1>3. CASE cfg # Truncated /\ p \notin OwnPatch
  <2>1. /\ cfg'.own = cfg.own
        /\ cfg'.user = IF value[p] = "plain" THEN cfg.user \cup {p} ELSE cfg.user \ {p}
    BY <1>3 DEF Patched, TypeOK, Config
  <2> QED BY <1>3, <2>1 DEF Transferred
<1> QED
  BY <1>1, <1>2, <1>3

LEMMA TransferredStays ==
    ASSUME Transferred, UNCHANGED <<cfg, before, value, patches>> PROVE Transferred'
BY DEF Transferred

\* A run that says it restored airflow.cfg has done so, and one that ended well
\* has set every line and kept every setting that it transfers.
THEOREM ConfigIsRight == Spec => []ConfigAfterRun
<1>1. Init => ConfigProgress
  BY DEF Init, ConfigProgress, Touching, After
<1>2. TypeOK /\ ConfigProgress /\ [Next]_vars => ConfigProgress'
  <2> SUFFICES ASSUME TypeOK, ConfigProgress, [Next]_vars PROVE ConfigProgress'
    OBVIOUS
  <2> USE TransferredStays DEF Touching, After
  <2>1. CASE Start \/ Kill
    BY <2>1 DEF Start, Kill, End, ConfigProgress
  <2>2. CASE Patch
    <3>1. CASE CreateConfig
      BY <3>1 DEF CreateConfig, Goto, End, ConfigProgress
    <3>2. CASE BackupConfig
      BY <3>2 DEF BackupConfig, Goto, End, ConfigProgress
    <3>3. CASE CheckVersion
      BY <3>3 DEF CheckVersion, Goto, ConfigProgress, Transferred
    <3>4. CASE RemoveConfig
      BY <3>4 DEF RemoveConfig, Goto, ConfigProgress
    <3>5. CASE RecreateConfig
      BY <3>5 DEF RecreateConfig, Goto, ConfigProgress, Transferred
    <3>6. ASSUME NEW p \in OwnPatch \cup Setting, ApplyPatch(p) PROVE ConfigProgress'
      <4>1. CASE at' = "restore"
        BY <3>6, <4>1 DEF ApplyPatch, Goto, ConfigProgress
      <4>2. CASE at' = "patch"
        <5>1. Transferred'
          BY <3>6, <4>2, PatchTransfers DEF ApplyPatch, Goto, ConfigProgress
        <5> QED BY <3>6, <4>2, <5>1 DEF ApplyPatch, Goto, ConfigProgress
      <4> QED BY <3>6, <4>1, <4>2 DEF ApplyPatch, Goto
    <3>7. CASE AllPatched
      BY <3>7 DEF AllPatched, Goto, ConfigProgress
    <3>8. CASE TruncateConfig
      BY <3>8 DEF TruncateConfig, Goto, ConfigProgress
    <3>9. CASE RestoreConfig
      BY <3>9 DEF RestoreConfig, ConfigProgress
    <3>10. CASE Finally
      BY <3>10 DEF Finally, Goto, ConfigProgress, TypeOK
    <3> QED BY <2>2, <3>1, <3>2, <3>3, <3>4, <3>5, <3>6, <3>7, <3>8, <3>9, <3>10
            DEF Patch
  <2>3. CASE Upgrade
    <3>1. /\ UNCHANGED <<cfg, before, value, patches>>
          /\ at \in After \ {"finally"}
          /\ \/ at' = "off" /\ outcome' \in {"ok", "failed"}
             \/ at' \in After \ {"finally"} /\ UNCHANGED outcome
      BY <2>3 DEF Upgrade, InitDb, OpenDag, CopyToDeprecated, IgnoreCopy, RewriteDag,
                  CopyDags, Goto, End
    <3>2. Transferred' /\ patches' = {} /\ outcome = "none"
      BY <3>1 DEF ConfigProgress
    <3>3. CASE at' = "off" /\ outcome' \in {"ok", "failed"}
      BY <3>2, <3>3 DEF ConfigProgress
    <3>4. CASE at' \in After \ {"finally"} /\ UNCHANGED outcome
      BY <3>2, <3>4 DEF ConfigProgress
    <3> QED BY <3>1, <3>3, <3>4
  <2>4. CASE UNCHANGED vars
    BY <2>4 DEF ConfigProgress
  <2>5. CASE Interrupt
    <3>1. /\ at \in {"remove", "patch", "restore", "copy back"} /\ at' = "finally"
          /\ outcome' = "failed"
      BY <2>5 DEF Interrupt
    <3> QED BY <3>1 DEF ConfigProgress
  <2> QED BY <2>1, <2>2, <2>3, <2>4, <2>5 DEF Next
<1>3. TypeOK /\ ConfigProgress => ConfigAfterRun
  BY DEF TypeOK, Config, ConfigProgress, ConfigAfterRun, Transferred
<1> QED BY <1>1, <1>2, <1>3, TypeCorrect, PTL DEF Spec

-----------------------------------------------------------------------------
(* The DAG files *)

Rewriting == {"save", "saving", "ignore", "write", "truncate"}

\* What the rewriting of the open file has done so far; with --upgrade, each file
\* is new, the open one, or still to be looked at.
DagProgress ==
    /\ outcome = "ok" => at = "off"
    /\ at \in {"save", "saving"} => dags[file] = "old"
    /\ at \in {"ignore", "write", "truncate"} => saved[file] = "old"
    /\ at \in {"write", "truncate"} => file \in ignored
    /\ \A f \in DagFile : dags[f] = "old" \/ saved[f] = "old"
    /\ \A f \in DagFile : dags[f] # "old" => f \in ignored
    /\ at \in Rewriting \cup {"upgrade"} /\ upgrade =>
          \A f \in DagFile : \/ [folder |-> "dags", name |-> f] \in paths
                             \/ dags[f] = "new"
                             \/ at # "upgrade" /\ f = file
    /\ at = "off" /\ outcome = "ok" /\ upgrade => \A f \in DagFile : dags[f] = "new"

\* No DAG file is lost, and a run with --upgrade that ended well has upgraded and
\* hidden each of them.
THEOREM DagsAreUpgraded == Spec => []DagsUpgraded
<1>1. Init => DagProgress
  BY DEF Init, DagProgress, Rewriting
<1>2. TypeOK /\ FileOpen /\ DagProgress /\ [Next]_vars => DagProgress'
  <2> SUFFICES ASSUME TypeOK, FileOpen, DagProgress, [Next]_vars PROVE DagProgress'
    OBVIOUS
  <2> USE DEF Rewriting
  <2>1. CASE Start \/ Kill \/ UNCHANGED vars
    BY <2>1 DEF Start, Kill, End, DagProgress
  <2>2. CASE Patch
    <3>1. /\ UNCHANGED <<dagFiles, upgrade>>
          /\ at' \notin Rewriting \cup {"upgrade"}
          /\ at # "off" /\ outcome' \in {outcome, "failed", "restored"}
      BY <2>2 DEF Patch, CreateConfig, BackupConfig, CheckVersion, RemoveConfig,
         RecreateConfig, ApplyPatch, AllPatched, TruncateConfig, RestoreConfig, Finally,
         Goto, End
    <3> QED BY <3>1 DEF DagProgress
  <2>3. CASE InitDb
    BY <2>3 DEF InitDb, PyFiles, Goto, End, DagProgress
  <2>4. ASSUME NEW x \in Path, OpenDag(x) PROVE DagProgress'
    BY <2>4 DEF OpenDag, Verdict, Path, Goto, End, DagProgress
  <2>5. CASE CopyToDeprecated
    BY <2>5 DEF TypeOK, FileOpen, CopyToDeprecated, Goto, DagProgress
  <2>6. CASE IgnoreCopy
    BY <2>6 DEF IgnoreCopy, Goto, DagProgress
  <2>7. CASE RewriteDag
    BY <2>7 DEF TypeOK, FileOpen, RewriteDag, Goto, DagProgress
  <2>8. CASE CopyDags
    BY <2>8 DEF CopyDags, End, DagProgress
  <2>9. CASE Interrupt
    BY <2>9 DEF Interrupt, DagProgress
  <2> QED BY <2>1, <2>2, <2>3, <2>4, <2>5, <2>6, <2>7, <2>8, <2>9 DEF Next, Upgrade
<1>3. DagProgress => DagsUpgraded
  BY DEF DagProgress, DagsUpgraded
<1> QED BY <1>1, <1>2, <1>3, TypeCorrect, FileOpenInvariance, PTL DEF Spec

=============================================================================
