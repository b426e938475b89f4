------------------------------ MODULE Exports ------------------------------
(***************************************************************************)
(* Report exports: a row of report_exports and a file on disk for each,    *)
(* written by a goroutine that nobody waits for, removed by administrators *)
(* and by the cleanup job.  Every statement and file operation may fail; a *)
(* crash ends all of them, and the next start resumes none.                *)
(*                                                                         *)
(* What the environment does (requests, faults, crashes) is bounded by     *)
(* MaxEvents.                                                              *)
(***************************************************************************)
EXTENDS Integers, FiniteSets

CONSTANTS
    Export,
    Remover,     \* administrators' deletions that may be under way
    Retention,   \* the 7 days an export is kept, in units
    MaxTime,     \* bound of a run: the clock stops here
    MaxEvents,   \* bound of a run: events of the environment
    NULL

ASSUME ExportsAssumption ==
    /\ {Retention, MaxTime, MaxEvents} \subseteq Nat
    /\ "cleanup" \notin Remover

Remove == {"cleanup"} \cup Remover

VARIABLES
    now,
    rows,       \* report_exports
    files,      \* the export directory
    gen,        \* where the generation of each export is
    removal,    \* what each deletion removes, and where it is
    events,     \* what the environment has done
    disturbed,  \* exports that met a fault, a crash or a deletion half way
    stranded    \* exports whose file may be left when their row is deleted

exportVars == <<now, rows, files, gen, removal, disturbed, stranded>>

Status == {"QUEUED", "PROCESSING", "COMPLETED", "FAILED"}

(* path: file_path is set.  A row expires when completed.                    *)
ExportRow == [status : Status, path : BOOLEAN, expires : 0 .. MaxTime + Retention]

FileState == {"partial", "whole"}

ASSUME ExportsNull ==
    /\ NULL \notin Export
    /\ NULL \notin ExportRow
    /\ NULL \notin FileState

ExportsTypeOK ==
    /\ now \in 0 .. MaxTime
    /\ rows \in [Export -> ExportRow \cup {NULL}]
    /\ files \in [Export -> FileState \cup {NULL}]
    /\ gen \in [Export -> {"none", "started", "found", "marked", "created", "written", "failed", "done"}]
    /\ \A d \in Remove :
         /\ removal[d].at \in {"idle", "next", "file", "row"}
         /\ removal[d].todo \subseteq Export
         /\ removal[d].at \in {"file", "row"} => removal[d].e \in Export
    /\ events \in 0 .. MaxEvents
    /\ {disturbed, stranded} \subseteq SUBSET Export

NoRemoval == [at |-> "idle", todo |-> {}, e |-> NULL]

ExportsInit ==
    /\ now = 0
    /\ rows = [e \in Export |-> NULL]
    /\ files = [e \in Export |-> NULL]
    /\ gen = [e \in Export |-> "none"]
    /\ removal = [d \in Remove |-> NoRemoval]
    /\ events = 0
    /\ disturbed = {}
    /\ stranded = {}

Event == events < MaxEvents /\ events' = events + 1

Quiet == UNCHANGED events

Removing(e) == \E d \in Remove : removal[d].e = e

Generating(e) == gen[e] \notin {"none", "done"}

-----------------------------------------------------------------------------
(* GenerateExport *)

(* The handlers, each with a goroutine, and ScheduledReportJob: a row, then  *)
(* its generation.                                                           *)
CreateExport(e) ==
    /\ gen[e] = "none"
    /\ Event
    /\ rows' = [rows EXCEPT ![e] = [status |-> "QUEUED", path |-> FALSE, expires |-> 0]]
    /\ gen' = [gen EXCEPT ![e] = "started"]
    /\ UNCHANGED <<now, files, removal, disturbed, stranded>>

(* UpdateStatus: every column at once; no row is no error.                   *)
UpdateStatus(e, row) == rows' = IF rows[e] = NULL THEN rows ELSE [rows EXCEPT ![e] = row]

Goes(e, step) == gen' = [gen EXCEPT ![e] = step]

FailsAt(e, step) ==
    /\ Event
    /\ Goes(e, step)
    /\ disturbed' = disturbed \cup {e}

Find(e) ==
    /\ gen[e] = "started"
    /\ \/ Quiet /\ Goes(e, IF rows[e] = NULL THEN "done" ELSE "found") /\ UNCHANGED disturbed
       \/ FailsAt(e, "done")
    /\ UNCHANGED <<now, rows, files, removal, stranded>>

MarkProcessing(e) ==
    /\ gen[e] = "found"
    /\ \/ /\ Quiet /\ Goes(e, "marked") /\ UNCHANGED disturbed
          /\ UpdateStatus(e, [status |-> "PROCESSING", path |-> FALSE, expires |-> 0])
       \/ FailsAt(e, "done") /\ UNCHANGED rows
    /\ UNCHANGED <<now, files, removal, stranded>>

CreateFile(e) ==
    /\ gen[e] = "marked"
    /\ \/ /\ Quiet /\ Goes(e, "created") /\ UNCHANGED disturbed
          /\ files' = [files EXCEPT ![e] = "partial"]
       \/ FailsAt(e, "failed") /\ UNCHANGED files
    /\ UNCHANGED <<now, rows, removal, stranded>>

WriteIgnoringErrors(e) ==                                          \* mutant
    /\ gen[e] = "created"
    /\ \/ /\ Quiet /\ Goes(e, "written") /\ UNCHANGED disturbed
          /\ files' = [files EXCEPT ![e] = "whole"]
       \/ FailsAt(e, "written") /\ UNCHANGED files
    /\ UNCHANGED <<now, rows, removal, stranded>>

(* The query, the CSV, its checksum and size.  After an error (a page may    *)
(* ask for a report that does not exist) the file is removed, except when    *)
(* only its size could not be read.                                          *)
Write(e) ==
    /\ gen[e] = "created"
    /\ \/ /\ Quiet /\ Goes(e, "written") /\ UNCHANGED disturbed
          /\ files' = [files EXCEPT ![e] = "whole"]
       \/ FailsAt(e, "failed") /\ \E left \in {NULL, "whole"} : files' = [files EXCEPT ![e] = left]
    /\ UNCHANGED <<now, rows, removal, stranded>>

CompleteExport(e) ==
    /\ gen[e] = "written"
    /\ \/ /\ Quiet /\ Goes(e, "done") /\ UNCHANGED disturbed
          /\ UpdateStatus(e, [status |-> "COMPLETED", path |-> TRUE, expires |-> now + Retention])
       \/ FailsAt(e, "done") /\ UNCHANGED rows
    /\ UNCHANGED <<now, files, removal, stranded>>

(* failExport puts the message into checksum_sha256, 64 characters wide: a   *)
(* longer one is refused and the row stays PROCESSING.                       *)
FailExport(e) ==
    /\ gen[e] = "failed"
    /\ Goes(e, "done")
    /\ \/ UpdateStatus(e, [status |-> "FAILED", path |-> FALSE, expires |-> 0])
       \/ UNCHANGED rows
    /\ UNCHANGED <<now, files, removal, events, disturbed, stranded>>

Generate(e) ==
    Find(e) \/ MarkProcessing(e) \/ CreateFile(e) \/ Write(e) \/ CompleteExport(e) \/ FailExport(e)

-----------------------------------------------------------------------------
(* Delete, by hand or by the cleanup job *)

RemovalGoes(d, r) == removal' = [removal EXCEPT ![d] = r]

Request(d, e) ==
    /\ removal[d].at = "idle" /\ rows[e] # NULL
    /\ Event
    /\ RemovalGoes(d, [at |-> "next", todo |-> {e}, e |-> NULL])
    /\ UNCHANGED <<now, rows, files, gen, disturbed, stranded>>

Expired == { e \in Export : rows[e] # NULL /\ rows[e].status = "COMPLETED" /\ rows[e].expires < now }

ExportCleanup ==
    /\ removal["cleanup"].at = "idle" /\ Expired # {}
    /\ RemovalGoes("cleanup", [at |-> "next", todo |-> Expired, e |-> NULL])
    /\ UNCHANGED <<now, rows, files, gen, events, disturbed, stranded>>

(* The next export of the list; one that is gone is passed over.  Of one that*)
(* is not complete yet the file is not known, and will not be removed.       *)
FindNext(d) ==
    /\ removal[d].at = "next"
    /\ IF removal[d].todo = {} THEN RemovalGoes(d, NoRemoval) /\ UNCHANGED <<disturbed, stranded>>
       ELSE \E e \in removal[d].todo :
              LET rest == removal[d].todo \ {e}
                  early == IF rows[e] # NULL /\ Generating(e) THEN {e} ELSE {}
              IN /\ RemovalGoes(d, IF rows[e] = NULL THEN [at |-> "next", todo |-> rest, e |-> NULL]
                                   ELSE [at |-> IF rows[e].path THEN "file" ELSE "row",
                                         todo |-> rest, e |-> e])
                 /\ disturbed' = disturbed \cup early
                 /\ stranded' = stranded \cup early
    /\ UNCHANGED <<now, rows, files, gen, events>>

RemoveFileOrStop(d) ==                                             \* mutant
    /\ removal[d].at = "file"
    /\ LET e == removal[d].e IN
       \/ Quiet /\ files' = [files EXCEPT ![e] = NULL] /\ UNCHANGED <<disturbed, stranded>>
       \/ /\ Event /\ UNCHANGED files
          /\ disturbed' = disturbed \cup {e} /\ stranded' = stranded \cup {e}
    /\ RemovalGoes(d, [removal[d] EXCEPT !.at = IF files[removal[d].e] = NULL THEN "next" ELSE "row"])
    /\ UNCHANGED <<now, rows, gen>>

(* An error other than a missing file is only logged: the row goes, and      *)
(* nothing names the file any more.                                          *)
RemoveFile(d) ==
    /\ removal[d].at = "file"
    /\ LET e == removal[d].e IN
       \/ Quiet /\ files' = [files EXCEPT ![e] = NULL] /\ UNCHANGED <<disturbed, stranded>>
       \/ /\ Event /\ UNCHANGED files
          /\ disturbed' = disturbed \cup {e} /\ stranded' = stranded \cup {e}
    /\ RemovalGoes(d, [removal[d] EXCEPT !.at = "row"])
    /\ UNCHANGED <<now, rows, gen>>

DeleteRow(d) ==
    /\ removal[d].at = "row"
    /\ LET e == removal[d].e IN
       \/ Quiet /\ rows' = [rows EXCEPT ![e] = NULL] /\ UNCHANGED disturbed
       \/ Event /\ UNCHANGED rows /\ disturbed' = disturbed \cup {e}
    /\ RemovalGoes(d, [removal[d] EXCEPT !.at = "next", !.e = NULL])
    /\ UNCHANGED <<now, files, gen, stranded>>

Delete(d) == FindNext(d) \/ RemoveFile(d) \/ DeleteRow(d)

-----------------------------------------------------------------------------
(* A crash and the restart after it, as far as exports are concerned.        *)
ExportsCrash ==
    /\ disturbed' = disturbed \cup { e \in Export : Generating(e) \/ Removing(e) }
    /\ gen' = [e \in Export |-> IF Generating(e) THEN "done" ELSE gen[e]]
    /\ removal' = [d \in Remove |-> NoRemoval]
    /\ UNCHANGED <<now, rows, files, stranded>>

Tick ==
    /\ now < MaxTime
    /\ now' = now + 1
    /\ UNCHANGED <<rows, files, gen, removal, events, disturbed, stranded>>

ExportsNext ==
    \/ \E e \in Export : CreateExport(e) \/ Generate(e)
    \/ \E d \in Remover, e \in Export : Request(d, e)
    \/ ExportCleanup
    \/ \E d \in Remove : Delete(d)
    \/ Tick

-----------------------------------------------------------------------------
(* Properties *)

(* VerifyChecksum, of a row and a file.                                      *)
Verified(e) == files[e] = "whole"

(* Row and file agree.  A completed export whose file is there has all of it,*)
(* whatever happened.  Once nobody works on an export any more its row has   *)
(* its final status, a completed one has its file and no file is without a   *)
(* row, unless an operation failed, a crash cut it off or it was deleted     *)
(* before it was complete.                                                   *)
ExportsAccounted ==
    \A e \in Export :
        /\ rows[e] # NULL /\ rows[e].status = "COMPLETED" /\ files[e] # NULL => Verified(e)
        /\ ~Generating(e) /\ ~Removing(e) /\ e \notin disturbed =>
             IF rows[e] = NULL THEN files[e] = NULL
             ELSE /\ rows[e].status \in {"COMPLETED", "FAILED"}
                  /\ rows[e].status = "COMPLETED" => files[e] # NULL

(* What has expired is removed in the end, its row and its file: crashes,    *)
(* failed statements, files that are already gone and deletions by hand      *)
(* notwithstanding, since the cleanup job looks again as long as there is a  *)
(* row.  A file whose removal failed once is left when its row goes, and so  *)
(* is one whose row was read before it named the file, or was replaced by a  *)
(* restore.                                                                  *)
ExpiredIsRemoved ==
    \A e \in Export :
        e \in Expired ~> e \notin Expired /\ (files[e] = NULL \/ e \in stranded)
=============================================================================
