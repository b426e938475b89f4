------------------------------- MODULE Backup -------------------------------
(***************************************************************************)
(* Backup and restore, beside the exports whose rows are dumped: archives  *)
(* named by the second they were begun in, their checksum files, and the   *)
(* restore that replaces the database and swaps the assets directory.      *)
(*                                                                         *)
(* The database is the table of exports, an asset tree the set of its      *)
(* files; a tree is {} when empty and NULL when the directory is missing.  *)
(* The time of Exports is the second of a name.  Nothing keeps two restores*)
(* apart: they share .restore_stage and .pre_restore.  The temporary       *)
(* directory of a restore is its own and is not kept.                      *)
(***************************************************************************)
EXTENDS Exports

CONSTANTS
    Writer,   \* backups that may be under way: the job and manual ones
    Restorer, \* restores that may be under way
    Asset,    \* files of the assets directory
    Trees,    \* bound of a run: what the assets directory may contain
    Start     \* bound of a run: and what it may be at first

ASSUME BackupAssumption ==
    /\ Trees \subseteq SUBSET Asset /\ Start \subseteq (SUBSET Asset) \cup {NULL}
    /\ \A tree \in SUBSET Asset : tree # NULL
    /\ NULL \notin {"restored", "failed"}
    /\ \A db \in [Export -> ExportRow \cup {NULL}] : db # NULL

VARIABLES
    archives,  \* the backup directory, by second
    sums,      \* the .sha256 files
    writers,   \* where each backup is and what it has read
    restore,   \* where each restore is, or what the last one has reported
    assets, pre, stage,   \* the directory, .pre_restore, .restore_stage
    live,      \* what the assets directory should contain
    bare,      \* there was no assets directory at the start
    overlapped,\* two restores have been under way at once
    tainted    \* a restore was cut off, or an operation of one failed

backupVars == <<archives, sums, writers, restore, assets, pre, stage, live, bare, overlapped, tainted>>

allVars == <<exportVars, events, backupVars>>

Tree == (SUBSET Asset) \cup {NULL}

(* What an archive holds.  open: still written; mixed: two backups of one    *)
(* second may have written over each other; neither can be extracted.        *)
Contents == [state : {"open", "whole", "mixed"}, db : [Export -> ExportRow \cup {NULL}] \cup {NULL}, assets : Tree]

Open == [state |-> "open", db |-> NULL, assets |-> NULL]

Mixed == [Open EXCEPT !.state = "mixed"]

Idle == [at |-> "idle", second |-> 0, has |-> Open]

(* has: what was extracted.  broken: the database may not be what was dumped.*)
(* todo: assets still to stage.  found: the tree there was when it began.    *)
NoRestore == [at |-> "idle", has |-> Open, broken |-> FALSE, todo |-> {}, found |-> {}, report |-> NULL]

BackupTypeOK ==
    /\ ExportsTypeOK
    /\ \A s \in 0 .. MaxTime : archives[s] # NULL =>
         /\ archives[s].state \in {"open", "whole", "mixed"}
         /\ archives[s].assets \in Tree
         /\ (archives[s].state = "whole") = (archives[s].db # NULL)
    /\ \A w \in Writer : writers[w].at \in {"idle", "dump", "assets", "close", "sum"}
    /\ \A r \in Restorer :
         /\ restore[r].at \in {"idle", "database", "mkdir", "stage", "away", "in", "back", "remove", "verify"}
         /\ restore[r].broken \in BOOLEAN
         /\ restore[r].todo \subseteq Asset
         /\ restore[r].report \in {NULL, "restored", "failed"}
    /\ {assets, pre, stage} \subseteq Tree
    /\ live \in SUBSET Asset
    /\ {bare, overlapped, tainted} \subseteq BOOLEAN

BackupInit ==
    /\ ExportsInit
    /\ archives = [s \in 0 .. MaxTime |-> NULL]
    /\ sums = [s \in 0 .. MaxTime |-> NULL]
    /\ writers = [w \in Writer |-> Idle]
    /\ restore = [r \in Restorer |-> NoRestore]
    /\ assets \in Start
    /\ pre = NULL
    /\ stage = NULL
    /\ live = IF assets = NULL THEN {} ELSE assets
    /\ bare = (assets = NULL)
    /\ overlapped = FALSE
    /\ tainted = FALSE

-----------------------------------------------------------------------------
(* RunBackup *)

Writing(s) == \E w \in Writer : writers[w].at \in {"dump", "assets", "close"} /\ writers[w].second = s

(* os.Create empties what another backup of this second has written.         *)
BeginBackup(w) ==
    /\ writers[w].at = "idle"
    /\ Event
    /\ writers' = [writers EXCEPT ![w] = [at |-> "dump", second |-> now, has |-> Open]]
    /\ archives' = [archives EXCEPT ![now] = IF Writing(now) THEN Mixed ELSE Open]
    /\ UNCHANGED <<exportVars, sums, restore, assets, pre, stage, live, bare, overlapped, tainted>>

(* The archive is removed when the backup fails, whoever wrote it last.      *)
GiveUp(w) ==
    /\ Event
    /\ archives' = [archives EXCEPT ![writers[w].second] = NULL]
    /\ writers' = [writers EXCEPT ![w] = Idle]

DumpIgnoringErrors(w) ==                                           \* mutant
    /\ writers[w].at = "dump"
    /\ \/ Quiet /\ writers' = [writers EXCEPT ![w].at = "assets", ![w].has.db = rows]
       \/ Event /\ writers' = [writers EXCEPT ![w].at = "assets"]
    /\ UNCHANGED <<exportVars, archives, sums, restore, assets, pre, stage, live, bare, overlapped, tainted>>

Dump(w) ==
    /\ writers[w].at = "dump"
    /\ \/ /\ Quiet
          /\ writers' = [writers EXCEPT ![w].at = "assets", ![w].has.db = rows]
          /\ UNCHANGED archives
       \/ GiveUp(w)
    /\ UNCHANGED <<exportVars, sums, restore, assets, pre, stage, live, bare, overlapped, tainted>>

(* A directory that is missing is left out; after an error the backup goes   *)
(* on with what it has of the tree.                                          *)
AddAssets(w) ==
    /\ writers[w].at = "assets"
    /\ \/ Quiet /\ writers' = [writers EXCEPT ![w].at = "close", ![w].has.assets = assets]
       \/ /\ assets # NULL
          /\ Event
          /\ \E some \in (SUBSET assets) \cup {NULL} :
               writers' = [writers EXCEPT ![w].at = "close", ![w].has.assets = some]
    /\ UNCHANGED <<exportVars, archives, sums, restore, assets, pre, stage, live, bare, overlapped, tainted>>

Close(w) ==
    /\ writers[w].at = "close"
    /\ LET s == writers[w].second
           whole == [writers[w].has EXCEPT !.state = "whole"]
       IN \/ /\ Quiet
             /\ writers' = [writers EXCEPT ![w].at = "sum", ![w].has = whole]
             /\ archives' = IF archives[s] # Open THEN archives ELSE [archives EXCEPT ![s] = whole]
          \/ GiveUp(w)
    /\ UNCHANGED <<exportVars, sums, restore, assets, pre, stage, live, bare, overlapped, tainted>>

(* The sum of what this backup has written, wherever it ended up.            *)
WriteSum(w) ==
    /\ writers[w].at = "sum"
    /\ \/ Quiet /\ sums' = [sums EXCEPT ![writers[w].second] = writers[w].has]
       \/ Event /\ UNCHANGED sums
    /\ writers' = [writers EXCEPT ![w] = Idle]
    /\ UNCHANGED <<exportVars, archives, restore, assets, pre, stage, live, bare, overlapped, tainted>>

RunBackup(w) == Dump(w) \/ AddAssets(w) \/ Close(w) \/ WriteSum(w)

-----------------------------------------------------------------------------
(* RestoreFromBackup *)

MatchesSum(s) == sums[s] = NULL \/ sums[s] = archives[s]

UnderWay(r) == restore[r].at # "idle"

Loading(r) == restore[r].at = "database"

(* ListBackups lists every archive.  One with another sum, or that cannot be *)
(* extracted, is refused before anything has happened.                       *)
BeginRestore(r, s) ==
    /\ ~UnderWay(r)
    /\ archives[s] # NULL
    /\ Event
    /\ LET others == Restorer \ {r}
           accepted == MatchesSum(s) /\ archives[s].state = "whole"
           both == \E q \in others : Loading(q)
       IN /\ restore' = [q \in Restorer |->
               IF q # r
               THEN IF UnderWay(q) THEN [restore[q] EXCEPT !.broken = @ \/ (accepted /\ Loading(q))]
                    ELSE NoRestore
               ELSE IF accepted
               THEN [NoRestore EXCEPT !.at = "database", !.has = archives[s],
                                      !.broken = both, !.found = live]
               ELSE [NoRestore EXCEPT !.report = "failed"]]
          /\ overlapped' = (overlapped \/ (accepted /\ \E q \in others : UnderWay(q)))
    /\ UNCHANGED <<exportVars, archives, sums, writers, assets, pre, stage, live, bare, tainted>>

RestoreGoes(r, step) == restore' = [restore EXCEPT ![r].at = step]

Reports(r, report) == restore' = [restore EXCEPT ![r] = [NoRestore EXCEPT !.report = report]]

(* The rows become what the database makes of the dump.                      *)
Overwrite(new) ==
    /\ rows' = new
    /\ disturbed' = disturbed \cup { e \in Export : new[e] # rows[e] \/ Generating(e) \/ Removing(e) }
    /\ stranded' = stranded \cup { e \in Export : new[e] # rows[e] }

(* What may come of statements of two dumps that are executed side by side.  *)
Mixtures(db) == { new \in [Export -> ExportRow \cup {NULL}] :
                    \A e \in Export : new[e] \in {rows[e], db[e], NULL} }

(* psql goes on after a statement that failed and exits with success.        *)
RestoreDB(r) ==
    /\ Loading(r)
    /\ LET has == restore[r].has
           next == IF has.assets = NULL THEN "verify" ELSE "mkdir"
       IN \/ /\ Quiet /\ UNCHANGED tainted
             /\ RestoreGoes(r, next)
             /\ IF restore[r].broken THEN \E new \in Mixtures(has.db) : Overwrite(new)
                ELSE Overwrite(has.db)
          \/ /\ Event
             /\ tainted' = TRUE
             /\ \E new \in {rows, [e \in Export |-> NULL]} : Overwrite(new)
             /\ \/ restore' = [restore EXCEPT ![r].at = next, ![r].broken = TRUE]
                \/ Reports(r, "failed")
    /\ UNCHANGED <<now, files, gen, removal, archives, sums, writers, assets, pre, stage, live, bare, overlapped>>

(* copyDir walks over the archive's tree: first the directory, which an      *)
(* earlier restore may have left and another may be writing to, then file by *)
(* file.  After an error the assets are given up, which is only logged.      *)
StageGoes(r, todo) ==
    restore' = [restore EXCEPT ![r].todo = todo, ![r].at = IF todo = {} THEN "away" ELSE "stage"]

MakeStage(r) ==
    /\ restore[r].at = "mkdir"
    /\ \/ /\ Quiet /\ UNCHANGED tainted
          /\ stage' = IF stage = NULL THEN {} ELSE stage
          /\ StageGoes(r, restore[r].has.assets)
       \/ Event /\ tainted' = TRUE /\ UNCHANGED stage /\ RestoreGoes(r, "verify")
    /\ UNCHANGED <<exportVars, archives, sums, writers, assets, pre, live, bare, overlapped>>

(* Another restore may have swapped the stage in meanwhile: then there is no *)
(* directory to create the file in, unless the file has one of its own,      *)
(* which is made together with those above it.                               *)
StageAsset(r) ==
    /\ restore[r].at = "stage"
    /\ \E a \in restore[r].todo :
         LET with == IF stage = NULL THEN {a} ELSE stage \cup {a} IN
         \/ /\ Quiet /\ UNCHANGED tainted
            /\ stage' = with
            /\ StageGoes(r, restore[r].todo \ {a})
         \/ stage = NULL /\ Quiet /\ UNCHANGED <<stage, tainted>> /\ RestoreGoes(r, "verify")
         \/ /\ Event /\ tainted' = TRUE
            /\ stage' \in {stage, with}
            /\ RestoreGoes(r, "verify")
    /\ UNCHANGED <<exportVars, archives, sums, writers, assets, pre, live, bare, overlapped>>

(* os.Rename refuses a directory's name, empty or not.                       *)
Free(dir) == dir = NULL

RemoveOldFirst(r) ==                                               \* mutant
    /\ restore[r].at = "away"
    /\ assets' = NULL
    /\ RestoreGoes(r, "in")
    /\ UNCHANGED <<exportVars, events, archives, sums, writers, pre, stage, live, bare, overlapped, tainted>>

(* An error is ignored.                                                      *)
MoveAway(r) ==
    /\ restore[r].at = "away"
    /\ \/ /\ Quiet /\ UNCHANGED tainted
          /\ IF assets # NULL /\ Free(pre) THEN pre' = assets /\ assets' = NULL
             ELSE UNCHANGED <<assets, pre>>
       \/ Event /\ tainted' = TRUE /\ UNCHANGED <<assets, pre>>
    /\ RestoreGoes(r, "in")
    /\ UNCHANGED <<exportVars, archives, sums, writers, stage, live, bare, overlapped>>

SwapIn(r) ==
    /\ restore[r].at = "in"
    /\ \/ /\ Quiet /\ UNCHANGED tainted
          /\ IF stage # NULL /\ Free(assets)
             THEN assets' = stage /\ stage' = NULL /\ live' = stage /\ RestoreGoes(r, "remove")
             ELSE UNCHANGED <<assets, stage, live>> /\ RestoreGoes(r, "back")
       \/ Event /\ tainted' = TRUE /\ UNCHANGED <<assets, stage, live>> /\ RestoreGoes(r, "back")
    /\ UNCHANGED <<exportVars, archives, sums, writers, pre, bare, overlapped>>

(* The rollback: its error is ignored as well.                               *)
MoveBack(r) ==
    /\ restore[r].at = "back"
    /\ \/ /\ Quiet /\ UNCHANGED tainted
          /\ IF pre # NULL /\ Free(assets) THEN assets' = pre /\ pre' = NULL
             ELSE UNCHANGED <<assets, pre>>
       \/ Event /\ tainted' = TRUE /\ UNCHANGED <<assets, pre>>
    /\ RestoreGoes(r, "verify")
    /\ UNCHANGED <<exportVars, archives, sums, writers, stage, live, bare, overlapped>>

KeepOld(r) ==                                                      \* mutant
    /\ restore[r].at = "remove"
    /\ RestoreGoes(r, "verify")
    /\ UNCHANGED <<exportVars, events, archives, sums, writers, assets, pre, stage, live, bare, overlapped, tainted>>

RemoveOld(r) ==
    /\ restore[r].at = "remove"
    /\ \/ Quiet /\ pre' = NULL /\ UNCHANGED tainted
       \/ /\ pre # NULL /\ Event /\ tainted' = TRUE
          /\ \E some \in SUBSET pre : pre' = some
    /\ RestoreGoes(r, "verify")
    /\ UNCHANGED <<exportVars, archives, sums, writers, assets, stage, live, bare, overlapped>>

(* The request says whether the integrity is checked, and the check finds    *)
(* some of what is missing.                                                  *)
VerifyIntegrity(r) ==
    /\ restore[r].at = "verify"
    /\ \E verify \in BOOLEAN, missing \in {FALSE, restore[r].broken} :
         \/ /\ Quiet /\ UNCHANGED tainted
            /\ Reports(r, IF verify /\ missing THEN "failed" ELSE "restored")
         \/ verify /\ Event /\ tainted' = TRUE /\ Reports(r, "failed")
    /\ UNCHANGED <<exportVars, archives, sums, writers, assets, pre, stage, live, bare, overlapped>>

Restore(r) ==
    \/ RestoreDB(r) \/ MakeStage(r) \/ StageAsset(r)
    \/ MoveAway(r) \/ SwapIn(r) \/ MoveBack(r) \/ RemoveOld(r)
    \/ VerifyIntegrity(r)

-----------------------------------------------------------------------------
(* The assets directory is written by others than this program, while no     *)
(* restore is under way.                                                     *)
ChangeAssets(tree) ==
    /\ \A r \in Restorer : ~UnderWay(r)
    /\ assets # NULL
    /\ Event
    /\ assets' = tree
    /\ live' = tree
    /\ restore' = [r \in Restorer |-> NoRestore]
    /\ UNCHANGED <<exportVars, archives, sums, writers, pre, stage, bare, overlapped, tainted>>

(* The process ends and is started again; nothing is cleaned up.             *)
Crash ==
    /\ Event
    /\ ExportsCrash
    /\ writers' = [w \in Writer |-> Idle]
    /\ restore' = [r \in Restorer |-> NoRestore]
    /\ tainted' = (tainted \/ \E r \in Restorer : UnderWay(r))
    /\ UNCHANGED <<archives, sums, assets, pre, stage, live, bare, overlapped>>

BackupNext ==
    \/ ExportsNext /\ UNCHANGED backupVars
    \/ \E w \in Writer : BeginBackup(w) \/ RunBackup(w)
    \/ \E r \in Restorer, s \in 0 .. MaxTime : BeginRestore(r, s)
    \/ \E r \in Restorer : Restore(r)
    \/ \E tree \in Trees : ChangeAssets(tree)
    \/ Crash

(* The scheduler keeps running the cleanup job.                              *)
BackupSpec ==
    /\ BackupInit
    /\ [][BackupNext]_allVars
    /\ WF_allVars(ExportCleanup /\ UNCHANGED backupVars)
    /\ WF_allVars(Delete("cleanup") /\ UNCHANGED backupVars)

-----------------------------------------------------------------------------
(* Properties *)

(* The assets are never lost: whatever fails, wherever a restore is cut off, *)
(* and however two of them get in each other's way, all files of the current *)
(* tree are in the assets directory or beside it in .pre_restore.  Only      *)
(* where there was no directory at first can two restores lose it: one that  *)
(* had nothing to move away removes what the other has moved away.           *)
AssetsSurvive ==
    \/ live = {}
    \/ assets # NULL /\ live \subseteq assets
    \/ pre # NULL /\ live \subseteq pre
    \/ bare /\ overlapped

(* A restore tells the truth about the assets.  One that reports success has *)
(* put the archive's tree in place and has left nothing behind.  If any      *)
(* restore was cut off or had an operation fail, now or before, that tree    *)
(* may have more in it (an old stage is mixed into it), or nothing has been  *)
(* put in place (an old .pre_restore keeps every later restore from it; both *)
(* are only logged), but never a part of it.  Two restores at once break all *)
(* this: they mix their stages, and one may put in place what the other has  *)
(* staged half way, and both report success.                                 *)
RestoreTellsTheTruth ==
    [][\A r \in Restorer :
         UnderWay(r) /\ restore'[r].report = "restored" /\ ~overlapped =>
            LET tree == restore[r].has.assets IN
            /\ tree # NULL => \/ tree \subseteq live /\ assets = live
                              \/ live = restore[r].found
            /\ ~tainted => /\ tree # NULL => assets = tree
                           /\ pre = NULL /\ stage = NULL]_allVars
=============================================================================
