----------------------------- MODULE InitConfig -----------------------------
(***************************************************************************)
(* cwl-airflow init (components/init/config.py): airflow.cfg is created or *)
(* patched under the protection of a backup, rewritten if it is older than *)
(* Airflow 2, and with --upgrade the DAG files of the old style are        *)
(* rewritten (overwrite_deprecated_dag, utilities/cwl.py).  "Safe to run   *)
(* several times": a run may fail or be killed between any two steps, and  *)
(* the command is given again.                                             *)
(*                                                                         *)
(* The user's file has each line that is patched; a patch touches a line   *)
(* of its own, so the order of the patches is left open.                   *)
(***************************************************************************)
EXTENDS Naturals

CONSTANTS
    OwnPatch,       \* the lines that CWL-Airflow sets
    Setting,        \* transferable_settings (dags_folder has its default value)
    OtherSetting,   \* what the user has set besides
    DagFile,        \* DAG files of the old style
    NoDagFile,
    Long,           \* those that are longer than what they are rewritten to
    MaxFailures,    \* bound: commands that fail
    MaxKills        \* bound: how often the command is killed

ASSUME InitConfigAssumption ==
    /\ OwnPatch \cap Setting = {} /\ OtherSetting \notin Setting
    /\ NoDagFile \notin DagFile /\ Long \subseteq DagFile
    /\ MaxFailures \in Nat /\ MaxKills \in Nat

VARIABLES
    cfg,            \* airflow.cfg
    mine,           \* the backup of the present run
    kept,           \* the backups that earlier runs have left
    before,         \* history: airflow.cfg when the present run read it
    value,          \* how the value of each transferable setting looks to sed
    db,             \* Airflow's database
    unrestored,     \* history: did a copy of the only backup fail?
    upgrade,        \* --upgrade
    at,             \* what the command is about to do
    outcome,        \* how the last run ended
    airflow_version_update,
    patches,        \* patches that are still to be applied
    paths,          \* files that upgrade_dags has still to look at
    file,           \* the one that is being rewritten
    dags,           \* each DAG file in dags_folder
    saved,          \* its copy in deprecated_dags
    ignored,        \* names in deprecated_dags/.airflowignore
    failures, kills

backups == <<mine, kept>>
dagFiles == <<dags, saved, ignored>>
local == <<airflow_version_update, patches, paths, file>>
lasting == <<value, db, unrestored>>
vars == <<cfg, backups, before, lasting, upgrade, at, outcome, local, dagFiles,
          failures, kills>>

-----------------------------------------------------------------------------
(* A configuration file: whether it has the [logging] section ("2"), which *)
(* lines CWL-Airflow has set, which settings are still the user's.         *)

Users == Setting \cup {OtherSetting}

Config == [version : {"1", "2", "none", "truncated"}, own : SUBSET OwnPatch,
           user : SUBSET Users]

NoFile == [version |-> "none", own |-> {}, user |-> {}]
Truncated == [version |-> "truncated", own |-> {}, user |-> {}]
Default == [version |-> "2", own |-> {}, user |-> {}]

\* The user's configuration is all there, but for the lines of CWL-Airflow.
Full(c) == c.user = Users

Path == [folder : {"dags", "deprecated_dags"}, name : DagFile]

\* airflow.cfg and its backups are files of these kinds, the command is at one
\* of its steps, and the counters are within their bounds.
TypeOK ==
    /\ cfg \in Config /\ mine \in Config /\ before \in Config
    /\ kept \subseteq Config
    /\ value \in [Setting -> {"plain", "has &", "has #"}]
    /\ db \in {"fine", "broken"} /\ unrestored \in BOOLEAN
    /\ upgrade \in BOOLEAN
    /\ at \in {"off", "create", "backup", "check", "remove", "recreate", "patch",
               "restore", "copy back", "finally", "db", "upgrade",
               "save", "saving", "ignore", "write", "truncate"}
    /\ outcome \in {"none", "ok", "failed", "restored", "killed"}
    /\ airflow_version_update \in {"unset", "yes", "no"}
    /\ patches \subseteq OwnPatch \cup Setting
    /\ paths \subseteq Path
    /\ file \in DagFile \cup {NoDagFile}
    /\ dags \in [DagFile -> {"old", "torn", "new"}]
    /\ saved \in [DagFile -> {"none", "partial", "old"}]
    /\ ignored \subseteq DagFile
    /\ failures \in 0..MaxFailures /\ kills \in 0..MaxKills

\* An installation with a user's configuration (without one, the first step
\* makes the default, and there is nothing to lose).
Init ==
    /\ cfg \in [version : {"1", "2"}, own : {{}}, user : {Users}]
    /\ mine = NoFile /\ kept = {} /\ before = NoFile
    /\ value \in [Setting -> {"plain", "has &", "has #"}]
    /\ db = "fine" /\ unrestored = FALSE
    /\ upgrade = FALSE
    /\ at = "off" /\ outcome = "none"
    /\ airflow_version_update = "unset"
    /\ patches = {} /\ paths = {} /\ file = NoDagFile
    /\ dags = [f \in DagFile |-> "old"]
    /\ saved = [f \in DagFile |-> "none"]
    /\ ignored = {}
    /\ failures = 0 /\ kills = 0

-----------------------------------------------------------------------------
(* Beginning and end of a run *)

Fail == failures < MaxFailures /\ failures' = failures + 1

Goto(step) == at' = step /\ UNCHANGED outcome

\* The run is over; its backup, if it is still there, stays.
End(result) ==
    /\ at' = "off"
    /\ outcome' = result
    /\ kept' = kept \cup ({mine} \ {NoFile})
    /\ mine' = NoFile

Start ==
    /\ at = "off"
    /\ at' = "create"
    /\ outcome' = "none"
    /\ upgrade' \in BOOLEAN
    /\ airflow_version_update' = "unset"
    /\ patches' = {} /\ paths' = {} /\ file' = NoDagFile
    /\ UNCHANGED <<cfg, backups, before, lasting, dagFiles, failures, kills>>

\* "airflow db init", if it is cut short, may leave a database that it can do
\* nothing with when it is run again.
CutShort == db' \in {db, "broken"}

Kill ==
    /\ at # "off" /\ kills < MaxKills
    /\ kills' = kills + 1
    /\ End("killed")
    /\ IF at = "db" THEN CutShort ELSE UNCHANGED db
    /\ UNCHANGED <<cfg, before, value, unrestored, upgrade, local, dagFiles, failures>>

-----------------------------------------------------------------------------
(* create_airflow_config, patch_airflow_config *)

\* airflow --help makes the file if there is none; sys.exit(1) if it fails.
CreateConfig ==
    /\ at = "create"
    /\ \/ /\ cfg' = IF cfg = NoFile THEN Default ELSE cfg
          /\ Goto("backup")
          /\ UNCHANGED <<backups, failures>>
       \/ Fail /\ End("failed") /\ UNCHANGED cfg
    /\ UNCHANGED <<before, lasting, upgrade, local, dagFiles, kills>>

\* conf.read and copyfile.  A truncated file may not parse; a copy that fails
\* half-way is an OSError, which leaves the function through "finally", where
\* airflow_version_update has no value yet, with the partial copy in place.
BackupConfig ==
    /\ at = "backup"
    /\ before' = cfg
    /\ \/ mine' = cfg /\ Goto("check") /\ UNCHANGED <<kept, failures>>
       \/ cfg = Truncated /\ End("failed") /\ UNCHANGED failures
       \/ /\ Fail
          /\ at' = "off" /\ outcome' = "failed"
          /\ kept' = kept \cup {Truncated}
          /\ UNCHANGED mine
    /\ UNCHANGED <<cfg, lasting, upgrade, local, dagFiles, kills>>

\* Mutant: every setting of the old file is transferred.
CheckAndTakeAll ==
    /\ at = "check"
    /\ \E update \in IF cfg.version = "2" THEN {"no"} ELSE {"yes", "no"} :
        /\ airflow_version_update' = update
        /\ patches' = OwnPatch \cup IF update = "yes" THEN cfg.user ELSE {}
        /\ Goto(IF update = "yes" THEN "remove" ELSE "patch")
    /\ UNCHANGED <<cfg, backups, before, lasting, upgrade, paths, file, dagFiles,
                   failures, kills>>

\* Has conf a [logging] section?  Not that of an old file; but conf is
\* Airflow's own parser, and keeps the sections of what it read before,
\* when Airflow was imported (external), so it may have one all the same.
CheckVersion ==
    /\ at = "check"
    /\ \E update \in IF cfg.version = "2" THEN {"no"} ELSE {"yes", "no"} :
        /\ airflow_version_update' = update
        /\ patches' = OwnPatch \cup IF update = "yes" THEN cfg.user \cap Setting ELSE {}
        /\ Goto(IF update = "yes" THEN "remove" ELSE "patch")
    /\ UNCHANGED <<cfg, backups, before, lasting, upgrade, paths, file, dagFiles,
                   failures, kills>>

RemoveConfig ==
    /\ at = "remove"
    /\ cfg' = NoFile
    /\ Goto("recreate")
    /\ UNCHANGED <<backups, before, lasting, upgrade, local, dagFiles, failures, kills>>

\* create_airflow_config again: its SystemExit is not among the exceptions
\* after which the backup is restored.
RecreateConfig ==
    /\ at = "recreate"
    /\ \/ cfg' = Default /\ Goto("patch") /\ UNCHANGED failures
       \/ Fail /\ at' = "finally" /\ outcome' = "failed" /\ UNCHANGED cfg
    /\ UNCHANGED <<backups, before, lasting, upgrade, local, dagFiles, kills>>

\* What sed makes of the file: "&" in a value stands for the line matched, so
\* that the setting is garbled; in a truncated file no line matches.
Patched(c, p) ==
    CASE c = Truncated -> c
      [] c # Truncated /\ p \in OwnPatch -> [c EXCEPT !.own = @ \cup {p}]
      [] OTHER -> [c EXCEPT !.user = IF value[p] = "plain" THEN @ \cup {p} ELSE @ \ {p}]

\* "#" in a value ends the expression of sed.
Rejected(p) == p \in Setting /\ value[p] = "has #"

\* Mutant: sed is run without check=True.
PatchUnchecked(p) ==
    /\ at = "patch" /\ p \in patches
    /\ patches' = patches \ {p}
    /\ \/ ~Rejected(p) /\ cfg' = Patched(cfg, p) /\ UNCHANGED failures
       \/ Rejected(p) /\ UNCHANGED <<cfg, failures>>
       \/ ~Rejected(p) /\ Fail /\ UNCHANGED cfg
    /\ UNCHANGED <<backups, before, lasting, upgrade, at, outcome,
                   airflow_version_update, paths, file, dagFiles, kills>>

\* sed -i replaces the file as a whole, or fails.
ApplyPatch(p) ==
    /\ at = "patch" /\ p \in patches
    /\ patches' = patches \ {p}
    /\ \/ ~Rejected(p) /\ cfg' = Patched(cfg, p) /\ Goto("patch") /\ UNCHANGED failures
       \/ Rejected(p) /\ Goto("restore") /\ UNCHANGED <<cfg, failures>>
       \/ ~Rejected(p) /\ Fail /\ Goto("restore") /\ UNCHANGED cfg
    /\ UNCHANGED <<backups, before, lasting, upgrade, airflow_version_update, paths,
                   file, dagFiles, kills>>

AllPatched ==
    /\ at = "patch" /\ patches = {}
    /\ Goto("finally")
    /\ UNCHANGED <<cfg, backups, before, lasting, upgrade, local, dagFiles, failures, kills>>

\* The handler: copyfile truncates airflow.cfg, then fills it.
TruncateConfig ==
    /\ at = "restore"
    /\ cfg' = Truncated
    /\ Goto("copy back")
    /\ UNCHANGED <<backups, before, lasting, upgrade, local, dagFiles, failures, kills>>

RestoreConfig ==
    /\ at = "copy back"
    /\ cfg' = mine
    /\ at' = "finally" /\ outcome' = "restored"
    /\ UNCHANGED <<backups, before, lasting, upgrade, local, dagFiles, failures, kills>>

\* Ctrl-C, or an OSError of remove and copyfile, is not among the exceptions that
\* are caught; airflow.cfg stays as it is then.
Interrupt ==
    /\ at \in {"remove", "patch", "restore", "copy back"}
    /\ Fail
    /\ at' = "finally" /\ outcome' = "failed"
    /\ unrestored' = (unrestored \/ (at = "copy back" /\ airflow_version_update # "yes"))
    /\ UNCHANGED <<cfg, backups, before, value, db, upgrade, local, dagFiles, kills>>

\* Mutant: the backup is removed in any case.
FinallyRemoves ==
    /\ at = "finally"
    /\ mine' = NoFile
    /\ Goto(IF outcome = "none" THEN "db" ELSE "off")
    /\ UNCHANGED <<cfg, kept, before, lasting, upgrade, local, dagFiles, failures, kills>>

\* The backup is removed unless the file was upgraded; then sys.exit(1) goes on,
\* if it was called.
Finally ==
    /\ at = "finally"
    /\ kept' = IF airflow_version_update = "yes" THEN kept \cup {mine} ELSE kept
    /\ mine' = NoFile
    /\ Goto(IF outcome = "none" THEN "db" ELSE "off")
    /\ UNCHANGED <<cfg, before, lasting, upgrade, local, dagFiles, failures, kills>>

-----------------------------------------------------------------------------
(* init_airflow_db, upgrade_dags, copy_dags *)


\* list_py_file_paths, before the first file is upgraded: DAG files, and the
\* copies in deprecated_dags that .airflowignore does not name.
PyFiles ==
    [folder : {"dags"}, name : DagFile] \cup
    [folder : {"deprecated_dags"}, name : {f \in DagFile \ ignored : saved[f] # "none"}]

\* If it fails, sys.exit(1), and "Delete airflow.db if SQLite was used".
InitDb ==
    /\ at = "db"
    /\ \/ /\ db = "fine"
          /\ Goto("upgrade")
          /\ paths' = IF upgrade THEN PyFiles ELSE {}
          /\ UNCHANGED <<backups, db, failures>>
       \/ db = "fine" /\ Fail /\ CutShort /\ End("failed") /\ UNCHANGED paths
       \/ db = "broken" /\ End("failed") /\ UNCHANGED <<paths, db, failures>>
    /\ UNCHANGED <<cfg, before, value, unrestored, upgrade, airflow_version_update,
                   patches, file, dagFiles, kills>>

\* What overwrite_deprecated_dag makes of a file.  A torn one has "dag.create()"
\* left, but no cwl_workflow to be found; a copy that is not complete may have
\* neither; the copy of a copy is one onto itself (SameFileError).
Verdict(x) ==
    CASE x.folder = "dags" /\ dags[x.name] = "new" -> {"skip"}
      [] x.folder = "dags" /\ dags[x.name] = "old" -> {"rewrite"}
      [] x.folder = "dags" /\ dags[x.name] = "torn" -> {"raise"}
      [] x.folder # "dags" /\ saved[x.name] = "partial" -> {"skip", "raise"}
      [] OTHER -> {"raise"}

\* A folder's files come before those of the folders in it.  The workflow of a
\* DAG may fail to load.
OpenDag(x) ==
    /\ at = "upgrade" /\ x \in paths
    /\ x.folder = "dags" \/ \A y \in paths : y.folder # "dags"
    /\ \/ /\ "skip" \in Verdict(x)
          /\ paths' = paths \ {x}
          /\ UNCHANGED <<backups, at, outcome, file, failures>>
       \/ /\ "rewrite" \in Verdict(x)
          /\ paths' = paths \ {x} /\ file' = x.name
          /\ Goto("save")
          /\ UNCHANGED <<backups, failures>>
       \/ /\ "raise" \in Verdict(x)
          /\ End("failed")
          /\ UNCHANGED <<paths, file, failures>>
       \/ Fail /\ End("failed") /\ UNCHANGED <<paths, file>>
    /\ UNCHANGED <<cfg, before, lasting, upgrade, airflow_version_update, patches,
                   dagFiles, kills>>

\* shutil.copy truncates the copy, then fills it.
CopyToDeprecated ==
    /\ \/ at = "save" /\ saved' = [saved EXCEPT ![file] = "partial"] /\ Goto("saving")
       \/ at = "saving" /\ saved' = [saved EXCEPT ![file] = "old"] /\ Goto("ignore")
    /\ UNCHANGED <<cfg, backups, before, lasting, upgrade, local, dags, ignored,
                   failures, kills>>

\* Mutant: .airflowignore is written only once.
IgnoreOnce ==
    /\ at = "ignore"
    /\ ignored' = IF ignored = {} THEN {file} ELSE ignored
    /\ Goto("write")
    /\ UNCHANGED <<cfg, backups, before, lasting, upgrade, local, dags, saved,
                   failures, kills>>

IgnoreCopy ==
    /\ at = "ignore"
    /\ ignored' = ignored \cup {file}
    /\ Goto("write")
    /\ UNCHANGED <<cfg, backups, before, lasting, upgrade, local, dags, saved,
                   failures, kills>>

\* The file is rewritten from its beginning; what is left of a longer one is cut
\* off in a step of its own.
RewriteDag ==
    /\ \/ /\ at = "write"
          /\ dags' = [dags EXCEPT ![file] = IF file \in Long THEN "torn" ELSE "new"]
          /\ Goto("truncate")
       \/ at = "truncate" /\ dags' = [dags EXCEPT ![file] = "new"] /\ Goto("upgrade")
    /\ UNCHANGED <<cfg, backups, before, lasting, upgrade, local, saved, ignored,
                   failures, kills>>

\* The package's own DAGs are copied, over what is there.
CopyDags ==
    /\ at = "upgrade" /\ paths = {}
    /\ \/ End("ok") /\ UNCHANGED failures
       \/ Fail /\ End("failed")
    /\ UNCHANGED <<cfg, before, lasting, upgrade, local, dagFiles, kills>>

-----------------------------------------------------------------------------
Patch ==
    \/ CreateConfig \/ BackupConfig \/ CheckVersion \/ RemoveConfig \/ RecreateConfig
    \/ \E p \in OwnPatch \cup Setting : ApplyPatch(p)
    \/ AllPatched \/ TruncateConfig \/ RestoreConfig \/ Finally

Upgrade ==
    \/ InitDb
    \/ \E x \in Path : OpenDag(x)
    \/ CopyToDeprecated \/ IgnoreCopy \/ RewriteDag
    \/ CopyDags

Next == Start \/ Kill \/ Interrupt \/ Patch \/ Upgrade

Spec == Init /\ [][Next]_vars

\* The steps of a program that is not killed are taken; the user gives the
\* command again (with or without --upgrade).
FairSpec == Spec /\ WF_vars(Start) /\ WF_vars(Patch \/ Upgrade)

-----------------------------------------------------------------------------
(* Properties *)

\* Whatever fails and whenever the command is killed, the configuration that the
\* user had is in airflow.cfg or in a backup.  patch_airflow_config removes the
\* first before the settings are transferred, and removes the second in a
\* "finally" that is passed on success and on failure.  It is lost in one way: the
\* copy that restores airflow.cfg fails when it has truncated it, and "finally"
\* removes the backup, as the file was not to be upgraded.
OriginalKept == Full(cfg) \/ Full(mine) \/ (\E c \in kept : Full(c)) \/ unrestored

\* A run that says it restored the file has done so, and a run that ended well
\* has set every line of CWL-Airflow and kept each of the settings it transfers,
\* unless sed garbled it: no failed sed goes unnoticed, although the patches are
\* applied to the file one by one, and to one that was made anew.
ConfigAfterRun ==
    at = "off" =>
        /\ outcome = "restored" => cfg = before
        /\ outcome = "ok" /\ cfg # Truncated =>
              /\ cfg.own = OwnPatch
              /\ \A s \in before.user \cap Setting : value[s] = "plain" => s \in cfg.user

\* No DAG file is lost: what it was is in dags_folder or in deprecated_dags; and
\* after a run with --upgrade that ended well every DAG is a new one and its copy
\* is hidden from Airflow, however many runs were cut short before.
DagsUpgraded ==
    /\ \A f \in DagFile : dags[f] = "old" \/ saved[f] = "old"
    /\ at = "off" /\ outcome = "ok" /\ upgrade =>
          \A f \in DagFile : dags[f] = "new" /\ f \in ignored


=============================================================================
