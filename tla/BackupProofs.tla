---------------------------- MODULE BackupProofs ----------------------------
(***************************************************************************)
(* Proofs about Backup and the Exports it contains, for any number of      *)
(* exports, deletions, backups, restores and assets.                       *)
(*                                                                         *)
(* Of the exports: generation never goes back, so what an old copy of the  *)
(* database says of a completed export stays true of its file; and whoever *)
(* works on an export that others work on, or fails, marks it as disturbed,*)
(* so that of the others every file is accounted for.  Of the assets: only *)
(* one restore is ever about to remove the old tree, and the current one is*)
(* in place then.                                                          *)
(***************************************************************************)
EXTENDS Backup, TLAPS

DB == [Export -> ExportRow \cup {NULL}]

GenStep == {"none", "started", "found", "marked", "created", "written", "failed", "done"}

ExportsShape ==
    /\ now \in 0 .. MaxTime
    /\ rows \in DB
    /\ files \in [Export -> FileState \cup {NULL}]
    /\ gen \in [Export -> GenStep]
    /\ removal \in [Remove -> [at : {"idle", "next", "file", "row"},
                               todo : SUBSET Export, e : Export \cup {NULL}]]
    /\ \A d \in Remove : removal[d].e # NULL <=> removal[d].at \in {"file", "row"}
    /\ events \in 0 .. MaxEvents
    /\ disturbed \subseteq Export

(* What a copy of report_exports, however old, says of generation and files. *)
SnapOK(db) ==
    \A e \in Export :
        /\ gen[e] = "none" => db[e] = NULL
        /\ db[e] # NULL => (db[e].status = "COMPLETED" => gen[e] = "done" /\ files[e] # "partial")

(* The file of an export on its way.                                         *)
FileOf(step) ==
    IF step = "created" THEN "partial"
    ELSE IF step = "written" THEN "whole" ELSE NULL

(* An export that nothing and nobody has interfered with.                    *)
Regular(e) ==
    /\ gen[e] # "failed"
    /\ gen[e] # "done" => (\A d \in Remove : removal[d].e # e) /\ files[e] = FileOf(gen[e])
    /\ gen[e] \notin {"none", "done"} => rows[e] # NULL
    /\ gen[e] = "done" =>
         /\ rows[e] = NULL => files[e] = NULL
         /\ rows[e] # NULL => /\ rows[e].status = "COMPLETED" /\ rows[e].path
                              /\ Removing(e) \/ files[e] # NULL
         /\ \A d \in Remove : removal[d].e = e /\ removal[d].at = "row" => files[e] = NULL

FilesInv ==
    \A e \in Export :
        /\ gen[e] = "written" => files[e] # "partial"
        /\ e \notin disturbed => Regular(e)

ExportsIInv == ExportsShape /\ SnapOK(rows) /\ FilesInv

(* What no step undoes.                                                      *)
Forward ==
    \A e \in Export :
        /\ gen'[e] = "none" => gen[e] = "none"
        /\ gen[e] = "done" => gen'[e] = "done"
        /\ gen[e] = "done" /\ files[e] # "partial" => files'[e] # "partial"

-----------------------------------------------------------------------------
LEMMA SnapStays ==
    ASSUME NEW db, SnapOK(db), Forward PROVE SnapOK(db)'
BY DEF SnapOK, Forward

LEMMA InitExports == ExportsInit => ExportsIInv
<1> SUFFICES ASSUME ExportsInit PROVE ExportsIInv
  OBVIOUS
<1>1. ExportsShape
  BY ExportsAssumption DEF ExportsInit, ExportsShape, DB, GenStep, NoRemoval
<1>2. SnapOK(rows)
  BY DEF ExportsInit, SnapOK
<1>3. FilesInv
  BY ExportsNull DEF ExportsInit, FilesInv, Regular, NoRemoval, FileOf
<1> QED BY <1>1, <1>2, <1>3 DEF ExportsIInv

(* A step of one export's generation leaves every other export alone.        *)
LEMMA OneExport ==
    ASSUME ExportsIInv, NEW e \in Export, Generating(e) \/ gen[e] = "none",
           NEW row \in ExportRow \cup {NULL}, NEW file \in FileState \cup {NULL}, NEW step \in GenStep,
           rows' = [rows EXCEPT ![e] = row],
           files' = [files EXCEPT ![e] = file],
           gen' = [gen EXCEPT ![e] = step],
           disturbed' \in {disturbed, disturbed \cup {e}},
           events' \in 0 .. MaxEvents,
           UNCHANGED <<now, removal>>,
           step # "none",
           row # NULL => (row.status = "COMPLETED" => step = "done" /\ file # "partial"),
           step = "written" => file # "partial",
           e \in disturbed' \/ Regular(e)'
    PROVE  ExportsIInv' /\ Forward
<1>1. ExportsShape'
  BY DEF ExportsIInv, ExportsShape, DB
<1>2. Forward
  BY DEF ExportsIInv, ExportsShape, Forward, Generating
<1>3. SnapOK(rows)'
  BY <1>2 DEF ExportsIInv, ExportsShape, SnapOK, DB, Forward
<1>4. FilesInv'
  <2> SUFFICES ASSUME NEW f \in Export
               PROVE  /\ gen'[f] = "written" => files'[f] # "partial"
                      /\ f \notin disturbed' => Regular(f)'
    BY DEF FilesInv
  <2>1. CASE f = e
    BY <2>1 DEF ExportsIInv, ExportsShape
  <2>2. CASE f # e
    <3>1. rows'[f] = rows[f] /\ files'[f] = files[f] /\ gen'[f] = gen[f] /\ (f \notin disturbed' => f \notin disturbed)
      BY <2>2 DEF ExportsIInv, ExportsShape, DB
    <3>2. Regular(f) => Regular(f)'
      BY <3>1 DEF Regular, Removing
    <3> QED BY <3>1, <3>2 DEF ExportsIInv, FilesInv
  <2> QED BY <2>1, <2>2
<1> QED BY <1>1, <1>2, <1>3, <1>4 DEF ExportsIInv

LEMMA OnItsWay ==
    ASSUME NEW e \in Export, e \in disturbed \/ Regular(e), gen[e] # "done",
           gen'[e] \notin {"none", "done", "failed"}, UNCHANGED removal, rows'[e] # NULL,
           files'[e] = FileOf(gen'[e])
    PROVE  e \in disturbed \/ Regular(e)'
BY DEF Regular

LEMMA Updated ==
    ASSUME ExportsShape, NEW e \in Export, NEW row \in ExportRow, UpdateStatus(e, row)
    PROVE  \E new \in ExportRow \cup {NULL} :
             /\ rows' = [rows EXCEPT ![e] = new] /\ rows'[e] = new
             /\ new \in {row, NULL} /\ (new = NULL <=> rows[e] = NULL)
<1>1. rows \in DB /\ rows = [rows EXCEPT ![e] = rows[e]] /\ row # NULL
  BY ExportsNull DEF ExportsShape, DB
<1>2. CASE rows[e] = NULL
  BY <1>1, <1>2 DEF UpdateStatus
<1>3. CASE rows[e] # NULL
  <2>1. rows' = [rows EXCEPT ![e] = row]
    BY <1>3 DEF UpdateStatus
  <2> QED BY <1>1, <1>3, <2>1 DEF DB
<1> QED BY <1>2, <1>3

(* Every statement of a generation, as OneExport takes it.                   *)
LEMMA GenerationStep ==
    ASSUME ExportsIInv, NEW e \in Export, CreateExport(e) \/ Generate(e)
    PROVE  ExportsIInv' /\ Forward
<1>1. /\ now \in 0 .. MaxTime /\ now + Retention \in 0 .. MaxTime + Retention
      /\ rows[e] \in ExportRow \cup {NULL} /\ files[e] \in FileState \cup {NULL}
      /\ rows = [rows EXCEPT ![e] = rows[e]] /\ files = [files EXCEPT ![e] = files[e]]
      /\ gen \in [Export -> GenStep]
      /\ events \in 0 .. MaxEvents /\ (events < MaxEvents => events + 1 \in 0 .. MaxEvents)
  BY ExportsAssumption DEF ExportsIInv, ExportsShape, DB
<1>2. SnapOK(rows) /\ (e \in disturbed \/ Regular(e)) /\ (gen[e] = "written" => files[e] # "partial")
  BY DEF ExportsIInv, FilesInv
<1>a. \A status \in Status, path \in BOOLEAN, expires \in 0 .. MaxTime + Retention :
        [status |-> status, path |-> path, expires |-> expires] \in ExportRow
  BY DEF ExportRow
<1>b. 0 \in 0 .. MaxTime + Retention
  BY ExportsAssumption
<1>c. rows[e] # NULL => rows[e].status # "COMPLETED" \/ gen[e] = "done"
  BY <1>2 DEF SnapOK
<1>3. CASE CreateExport(e)
  <2> DEFINE row == [status |-> "QUEUED", path |-> FALSE, expires |-> 0]
  <2>1. row \in ExportRow /\ row.status # "COMPLETED" /\ row # NULL
    BY <1>a, <1>b, ExportsNull DEF Status
  <2> HIDE DEF row
  <2>2. /\ rows' = [rows EXCEPT ![e] = row] /\ gen' = [gen EXCEPT ![e] = "started"]
        /\ files' = [files EXCEPT ![e] = files[e]] /\ events' \in 0 .. MaxEvents
        /\ UNCHANGED <<now, removal, disturbed>> /\ gen[e] = "none"
    BY <1>1, <1>3 DEF CreateExport, Event, row
  <2>3. e \in disturbed \/ files[e] = NULL
    BY <1>2, <2>2 DEF Regular, FileOf
  <2>4. e \in disturbed \/ Regular(e)'
    <3>1. rows'[e] = row /\ files'[e] = files[e] /\ gen'[e] = "started"
      BY <1>1, <2>2 DEF ExportsIInv, ExportsShape, DB
    <3> QED BY <1>2, <2>1, <2>2, <2>3, <3>1, OnItsWay DEF FileOf
  <2> QED BY <1>1, <2>1, <2>2, <2>4, OneExport DEF GenStep
<1>4. CASE Find(e)
  <2>1. PICK step \in {"done", "found"} :
          /\ gen[e] = "started" /\ gen' = [gen EXCEPT ![e] = step]
          /\ UNCHANGED <<now, rows, files, removal>> /\ events' \in 0 .. MaxEvents
          /\ \/ step = (IF rows[e] = NULL THEN "done" ELSE "found") /\ disturbed' = disturbed
             \/ step = "done" /\ disturbed' = disturbed \cup {e}
    BY <1>1, <1>4 DEF Find, Goes, FailsAt, Event, Quiet
  <2>2. gen'[e] = step
    BY <1>1, <2>1
  <2>3. e \in disturbed' \/ Regular(e)'
    <3>1. CASE e \in disturbed
      BY <2>1, <3>1
    <3>2. CASE e \notin disturbed
      <4>1. rows[e] # NULL
        BY <1>2, <2>1, <3>2 DEF Regular
      <4>2. CASE step = "found" /\ disturbed' = disturbed
        BY <1>2, <2>1, <2>2, <3>2, <4>1, <4>2, OnItsWay DEF FileOf, Regular
      <4> QED BY <2>1, <4>1, <4>2
    <3> QED BY <3>1, <3>2
  <2> QED BY <1>1, <1>c, <2>1, <2>3, OneExport DEF GenStep, Generating
<1>5. CASE MarkProcessing(e)
  <2> DEFINE row == [status |-> "PROCESSING", path |-> FALSE, expires |-> 0]
  <2>1. row \in ExportRow /\ row.status # "COMPLETED"
    BY <1>a, <1>b DEF Status
  <2> HIDE DEF row
  <2>2. /\ gen[e] = "found" /\ UNCHANGED <<now, files, removal>> /\ events' \in 0 .. MaxEvents
        /\ \/ gen' = [gen EXCEPT ![e] = "marked"] /\ UNCHANGED disturbed /\ UpdateStatus(e, row)
           \/ gen' = [gen EXCEPT ![e] = "done"] /\ disturbed' = disturbed \cup {e} /\ UNCHANGED rows
    BY <1>1, <1>5 DEF MarkProcessing, Goes, FailsAt, Event, Quiet, row
  <2>3. CASE gen' = [gen EXCEPT ![e] = "marked"] /\ UNCHANGED disturbed /\ UpdateStatus(e, row)
    <3>1. PICK new \in ExportRow \cup {NULL} :
            /\ rows' = [rows EXCEPT ![e] = new] /\ rows'[e] = new
            /\ new \in {row, NULL} /\ (new = NULL <=> rows[e] = NULL)
      BY <2>1, <2>3, Updated DEF ExportsIInv
    <3>2. gen'[e] = "marked"
      BY <1>1, <2>3
    <3>3. e \in disturbed' \/ Regular(e)'
      BY <1>2, <2>2, <2>3, <3>1, <3>2, OnItsWay DEF Regular, FileOf
    <3> QED BY <1>1, <2>1, <2>2, <2>3, <3>1, <3>3, OneExport DEF GenStep, Generating
  <2>4. CASE gen' = [gen EXCEPT ![e] = "done"] /\ disturbed' = disturbed \cup {e} /\ UNCHANGED rows
    BY <1>1, <1>c, <2>2, <2>4, OneExport DEF GenStep, Generating
  <2> QED BY <2>2, <2>3, <2>4
<1>6. CASE CreateFile(e)
  <2>1. /\ gen[e] = "marked" /\ UNCHANGED <<now, rows, removal>> /\ events' \in 0 .. MaxEvents
        /\ \/ /\ gen' = [gen EXCEPT ![e] = "created"] /\ UNCHANGED disturbed
              /\ files' = [files EXCEPT ![e] = "partial"]
           \/ gen' = [gen EXCEPT ![e] = "failed"] /\ disturbed' = disturbed \cup {e} /\ UNCHANGED files
    BY <1>1, <1>6 DEF CreateFile, Goes, FailsAt, Event, Quiet
  <2>2. CASE /\ gen' = [gen EXCEPT ![e] = "created"] /\ UNCHANGED disturbed
             /\ files' = [files EXCEPT ![e] = "partial"]
    <3>1. gen'[e] = "created" /\ files'[e] = "partial"
      BY <1>1, <2>2 DEF ExportsIInv, ExportsShape
    <3>2. e \in disturbed' \/ Regular(e)'
      BY <1>2, <2>1, <2>2, <3>1, OnItsWay DEF Regular, FileOf
    <3> QED BY <1>1, <1>c, <2>1, <2>2, <3>2, OneExport DEF GenStep, Generating, FileState
  <2>3. CASE gen' = [gen EXCEPT ![e] = "failed"] /\ disturbed' = disturbed \cup {e} /\ UNCHANGED files
    BY <1>1, <1>c, <2>1, <2>3, OneExport DEF GenStep, Generating
  <2> QED BY <2>1, <2>2, <2>3
<1>7. CASE Write(e)
  <2>1. /\ gen[e] = "created" /\ UNCHANGED <<now, rows, removal>> /\ events' \in 0 .. MaxEvents
        /\ \/ /\ gen' = [gen EXCEPT ![e] = "written"] /\ UNCHANGED disturbed
              /\ files' = [files EXCEPT ![e] = "whole"]
           \/ /\ gen' = [gen EXCEPT ![e] = "failed"] /\ disturbed' = disturbed \cup {e}
              /\ \E left \in {NULL, "whole"} : files' = [files EXCEPT ![e] = left]
    BY <1>1, <1>7 DEF Write, Goes, FailsAt, Event, Quiet
  <2>2. CASE /\ gen' = [gen EXCEPT ![e] = "written"] /\ UNCHANGED disturbed
             /\ files' = [files EXCEPT ![e] = "whole"]
    <3>1. gen'[e] = "written" /\ files'[e] = "whole"
      BY <1>1, <2>2 DEF ExportsIInv, ExportsShape
    <3>2. e \in disturbed' \/ Regular(e)'
      BY <1>2, <2>1, <2>2, <3>1, OnItsWay DEF Regular, FileOf
    <3> QED BY <1>1, <1>c, <2>1, <2>2, <3>2, OneExport DEF GenStep, Generating, FileState
  <2>3. CASE /\ gen' = [gen EXCEPT ![e] = "failed"] /\ disturbed' = disturbed \cup {e}
             /\ \E left \in {NULL, "whole"} : files' = [files EXCEPT ![e] = left]
    <3>1. PICK left \in {NULL, "whole"} : files' = [files EXCEPT ![e] = left]
      BY <2>3
    <3> QED BY <1>1, <1>c, <2>1, <2>3, <3>1, OneExport DEF GenStep, Generating, FileState
  <2> QED BY <2>1, <2>2, <2>3
<1>8. CASE CompleteExport(e)
  <2> DEFINE row == [status |-> "COMPLETED", path |-> TRUE, expires |-> now + Retention]
  <2>1. row \in ExportRow /\ row.status = "COMPLETED" /\ row.path
    BY <1>1, <1>a DEF Status
  <2> HIDE DEF row
  <2>2. /\ gen[e] = "written" /\ gen' = [gen EXCEPT ![e] = "done"]
        /\ UNCHANGED <<now, files, removal>> /\ events' \in 0 .. MaxEvents
        /\ \/ UNCHANGED disturbed /\ UpdateStatus(e, row)
           \/ disturbed' = disturbed \cup {e} /\ UNCHANGED rows
    BY <1>1, <1>8 DEF CompleteExport, Goes, FailsAt, Event, Quiet, row
  <2>3. CASE UNCHANGED disturbed /\ UpdateStatus(e, row)
    <3>1. PICK new \in ExportRow \cup {NULL} :
            /\ rows' = [rows EXCEPT ![e] = new] /\ rows'[e] = new
            /\ new \in {row, NULL} /\ (new = NULL <=> rows[e] = NULL)
      BY <2>1, <2>3, Updated DEF ExportsIInv
    <3>2. gen'[e] = "done"
      BY <1>1, <2>2
    <3>3. e \in disturbed' \/ Regular(e)'
      BY <1>2, <2>1, <2>2, <2>3, <3>1, <3>2, ExportsNull DEF Regular, FileOf, FileState
    <3> QED BY <1>1, <1>2, <2>2, <2>3, <3>1, <3>3, OneExport DEF GenStep, Generating
  <2>4. CASE disturbed' = disturbed \cup {e} /\ UNCHANGED rows
    BY <1>1, <1>2, <1>c, <2>2, <2>4, OneExport DEF GenStep, Generating
  <2> QED BY <2>2, <2>3, <2>4
<1>9. CASE FailExport(e)
  <2> DEFINE row == [status |-> "FAILED", path |-> FALSE, expires |-> 0]
  <2>1. row \in ExportRow /\ row.status # "COMPLETED"
    BY <1>a, <1>b DEF Status
  <2> HIDE DEF row
  <2>2. /\ gen[e] = "failed" /\ gen' = [gen EXCEPT ![e] = "done"]
        /\ UNCHANGED <<now, files, removal, events, disturbed>> /\ e \in disturbed
        /\ UpdateStatus(e, row) \/ UNCHANGED rows
    BY <1>2, <1>9 DEF FailExport, Goes, row, Regular
  <2>3. CASE UpdateStatus(e, row)
    <3>1. PICK new \in ExportRow \cup {NULL} :
            /\ rows' = [rows EXCEPT ![e] = new] /\ rows'[e] = new
            /\ new \in {row, NULL} /\ (new = NULL <=> rows[e] = NULL)
      BY <2>1, <2>3, Updated DEF ExportsIInv
    <3> QED BY <1>1, <2>1, <2>2, <3>1, OneExport DEF GenStep, Generating
  <2>4. CASE UNCHANGED rows
    BY <1>1, <1>c, <2>2, <2>4, OneExport DEF GenStep, Generating
  <2> QED BY <2>2, <2>3, <2>4
<1> QED BY <1>3, <1>4, <1>5, <1>6, <1>7, <1>8, <1>9 DEF Generate
-----------------------------------------------------------------------------
RemovalRecord ==
    { r \in [at : {"idle", "next", "file", "row"}, todo : SUBSET Export, e : Export \cup {NULL}] :
        r.e # NULL <=> r.at \in {"file", "row"} }

(* A step of one deletion, which touches at most one export.                 *)
LEMMA OneRemoval ==
    ASSUME ExportsIInv, NEW d \in Remove, NEW r \in RemovalRecord, NEW f \in Export,
           removal' = [removal EXCEPT ![d] = r],
           r.e \in {removal[d].e, f, NULL}, removal[d].e \in {f, NULL} \/ r.e = removal[d].e,
           r.e \notin {f, NULL} => r.at = removal[d].at,
           NEW row \in {rows[f], NULL}, rows' = [rows EXCEPT ![f] = row],
           NEW file \in {files[f], NULL}, files' = [files EXCEPT ![f] = file],
           disturbed' \in {disturbed, disturbed \cup {f}},
           events' \in 0 .. MaxEvents,
           UNCHANGED <<now, gen>>,
           f \in disturbed' \/ Regular(f)'
    PROVE  ExportsIInv' /\ Forward
<1>0. /\ rows \in DB /\ files \in [Export -> FileState \cup {NULL}] /\ gen \in [Export -> GenStep]
      /\ rows[f] \in ExportRow \cup {NULL} /\ files[f] \in FileState \cup {NULL}
      /\ disturbed \subseteq Export /\ now \in 0 .. MaxTime
      /\ removal \in [Remove -> [at : {"idle", "next", "file", "row"},
                                  todo : SUBSET Export, e : Export \cup {NULL}]]
      /\ \A x \in Remove : removal[x].e # NULL <=> removal[x].at \in {"file", "row"}
  BY DEF ExportsIInv, ExportsShape, DB
<1>1. ExportsShape'
  <2>1. /\ rows' \in DB /\ files' \in [Export -> FileState \cup {NULL}] /\ gen' \in [Export -> GenStep]
        /\ disturbed' \subseteq Export /\ now' \in 0 .. MaxTime
    BY <1>0 DEF DB
  <2>2. r \in [at : {"idle", "next", "file", "row"}, todo : SUBSET Export, e : Export \cup {NULL}]
        /\ (r.e # NULL <=> r.at \in {"file", "row"})
    BY DEF RemovalRecord
  <2> QED BY <1>0, <2>1, <2>2 DEF ExportsShape
<1>2. Forward
  BY <1>0, ExportsNull DEF Forward, FileState
<1>3. SnapOK(rows)'
  BY <1>0, <1>2 DEF ExportsIInv, SnapOK, DB, Forward
<1>4. FilesInv'
  <2> SUFFICES ASSUME NEW e \in Export
               PROVE  /\ gen'[e] = "written" => files'[e] # "partial"
                      /\ e \notin disturbed' => Regular(e)'
    BY DEF FilesInv
  <2>0. (gen[e] = "written" => files[e] # "partial") /\ (e \notin disturbed => Regular(e))
    BY DEF ExportsIInv, FilesInv
  <2>1. CASE e = f
    BY <1>0, <2>0, <2>1, ExportsNull DEF FileState
  <2>2. CASE e # f
    <3>1. rows'[e] = rows[e] /\ files'[e] = files[e] /\ gen'[e] = gen[e] /\ (e \notin disturbed' => e \notin disturbed)
      BY <1>0, <2>2 DEF DB
    <3>2. \A x \in Remove : /\ removal'[x].e = e <=> removal[x].e = e
                            /\ removal'[x].e = e => removal'[x].at = removal[x].at
      BY <1>0, <2>2, ExportsNull
    <3>3. Regular(e) => Regular(e)'
      BY <3>1, <3>2 DEF Regular, Removing
    <3> QED BY <2>0, <3>1, <3>3
  <2> QED BY <2>1, <2>2
<1> QED BY <1>1, <1>2, <1>3, <1>4 DEF ExportsIInv

(* A deletion that begins, or passes an export over, works on none.          *)
LEMMA NoneRemoved ==
    ASSUME ExportsIInv, NEW d \in Remove, removal[d].at \in {"idle", "next"},
           NEW r \in RemovalRecord, r.e = NULL, removal' = [removal EXCEPT ![d] = r],
           UNCHANGED <<now, rows, files, gen, disturbed>>, events' \in 0 .. MaxEvents
    PROVE  ExportsIInv' /\ Forward
<1>0. /\ removal[d].e = NULL
      /\ removal \in [Remove -> [at : {"idle", "next", "file", "row"},
                                  todo : SUBSET Export, e : Export \cup {NULL}]]
  BY DEF ExportsIInv, ExportsShape
<1>1. Forward
  BY DEF Forward
<1>2. ExportsShape'
  BY DEF ExportsIInv, ExportsShape, RemovalRecord
<1>3. SnapOK(rows)'
  BY DEF ExportsIInv, SnapOK
<1>4. FilesInv'
  <2>1. \A x \in Remove, e \in Export : removal'[x].e = e <=> removal[x].e = e
    BY <1>0, ExportsNull
  <2>2. \A x \in Remove, e \in Export : removal'[x].e = e => removal'[x].at = removal[x].at
    BY <1>0, ExportsNull
  <2>3. \A e \in Export : Regular(e) => Regular(e)'
    BY <2>1, <2>2 DEF Regular, Removing
  <2> QED BY <2>3 DEF ExportsIInv, FilesInv
<1> QED BY <1>1, <1>2, <1>3, <1>4 DEF ExportsIInv
LEMMA RequestStep ==
    ASSUME ExportsIInv,
           ExportCleanup \/ \E d \in Remover, e \in Export : Request(d, e)
    PROVE  ExportsIInv' /\ Forward
<1>0. events \in 0 .. MaxEvents /\ (events < MaxEvents => events + 1 \in 0 .. MaxEvents)
  BY ExportsAssumption DEF ExportsIInv, ExportsShape
<1>1. CASE ExportCleanup
  <2> DEFINE r == [at |-> "next", todo |-> Expired, e |-> NULL]
  <2>1. r \in RemovalRecord /\ r.e = NULL
    BY DEF RemovalRecord, Expired
  <2>2. /\ removal["cleanup"].at = "idle" /\ removal' = [removal EXCEPT !["cleanup"] = r]
        /\ UNCHANGED <<now, rows, files, gen, events, disturbed>> /\ "cleanup" \in Remove
    BY <1>1 DEF ExportCleanup, RemovalGoes, Remove
  <2> HIDE DEF r
  <2> QED BY <1>0, <2>1, <2>2, NoneRemoved
<1>2. ASSUME NEW d \in Remover, NEW e \in Export, Request(d, e) PROVE ExportsIInv' /\ Forward
  <2> DEFINE r == [at |-> "next", todo |-> {e}, e |-> NULL]
  <2>1. r \in RemovalRecord /\ r.e = NULL
    BY DEF RemovalRecord
  <2>2. /\ removal[d].at = "idle" /\ removal' = [removal EXCEPT ![d] = r]
        /\ UNCHANGED <<now, rows, files, gen, disturbed>> /\ events' \in 0 .. MaxEvents
        /\ d \in Remove
    BY <1>0, <1>2 DEF Request, RemovalGoes, Remove, Event
  <2> HIDE DEF r
  <2> QED BY <2>1, <2>2, NoneRemoved
<1> QED BY <1>1, <1>2

LEMMA FindNextStep ==
    ASSUME ExportsIInv, NEW d \in Remove, FindNext(d)
    PROVE  ExportsIInv' /\ Forward
<1>0. /\ removal[d].at = "next" /\ removal[d].todo \subseteq Export /\ removal[d].e = NULL
      /\ UNCHANGED <<now, rows, files, gen, events>> /\ events' \in 0 .. MaxEvents
      /\ rows \in DB /\ files \in [Export -> FileState \cup {NULL}]
  BY DEF FindNext, ExportsIInv, ExportsShape
<1>1. CASE removal[d].todo = {}
  <2>1. NoRemoval \in RemovalRecord /\ NoRemoval.e = NULL
    BY DEF RemovalRecord, NoRemoval
  <2> QED BY <1>0, <1>1, <2>1, NoneRemoved DEF FindNext, RemovalGoes
<1>2. CASE removal[d].todo # {}
  <2>1. PICK e \in removal[d].todo :
          LET rest == removal[d].todo \ {e} IN
          /\ RemovalGoes(d, IF rows[e] = NULL THEN [at |-> "next", todo |-> rest, e |-> NULL]
                            ELSE [at |-> IF rows[e].path THEN "file" ELSE "row",
                                  todo |-> rest, e |-> e])
          /\ disturbed' = disturbed \cup (IF rows[e] # NULL /\ Generating(e) THEN {e} ELSE {})
    BY <1>2 DEF FindNext
  <2>2. e \in Export /\ removal[d].todo \ {e} \subseteq Export
    BY <1>0
  <2>3. CASE rows[e] = NULL
    <3> DEFINE r == [at |-> "next", todo |-> removal[d].todo \ {e}, e |-> NULL]
    <3>1. r \in RemovalRecord /\ r.e = NULL
      BY <2>2 DEF RemovalRecord
    <3>2. removal' = [removal EXCEPT ![d] = r] /\ UNCHANGED disturbed
      BY <2>1, <2>3 DEF RemovalGoes
    <3> HIDE DEF r
    <3> QED BY <1>0, <3>1, <3>2, NoneRemoved
  <2>4. CASE rows[e] # NULL
    <3> DEFINE r == [at |-> IF rows[e].path THEN "file" ELSE "row",
                     todo |-> removal[d].todo \ {e}, e |-> e]
    <3>1. r \in RemovalRecord /\ r.e = e /\ (rows[e].path => r.at = "file")
      BY <2>2, ExportsNull DEF RemovalRecord
    <3>2. /\ removal' = [removal EXCEPT ![d] = r]
          /\ disturbed' = IF Generating(e) THEN disturbed \cup {e} ELSE disturbed
      BY <2>1, <2>4 DEF RemovalGoes
    <3> HIDE DEF r
    <3>3. e \in disturbed' \/ Regular(e)'
      <4>1. CASE Generating(e) \/ e \in disturbed
        BY <3>2, <4>1
      <4>2. CASE ~Generating(e) /\ e \notin disturbed
        <5>1. Regular(e) /\ gen[e] = "done"
          BY <2>2, <2>4, <4>2 DEF ExportsIInv, FilesInv, SnapOK, Generating
        <5>2. rows[e].status = "COMPLETED" /\ rows[e].path
          BY <2>4, <5>1 DEF Regular
        <5>3. removal'[d].e = e /\ removal'[d].at = "file"
          BY <3>1, <3>2, <5>2 DEF ExportsIInv, ExportsShape
        <5>4. \A x \in Remove \ {d} : removal'[x] = removal[x]
          BY <3>2 DEF ExportsIInv, ExportsShape
        <5>5. rows'[e] = rows[e] /\ files'[e] = files[e] /\ gen'[e] = gen[e]
          BY <1>0
        <5>6. Removing(e)'
          BY <5>3 DEF Removing
        <5>7. \A x \in Remove : removal'[x].e = e /\ removal'[x].at = "row" => files'[e] = NULL
          BY <5>1, <5>3, <5>4, <5>5 DEF Regular
        <5> QED BY <2>4, <5>1, <5>2, <5>5, <5>6, <5>7 DEF Regular
      <4> QED BY <4>1, <4>2
    <3>4. rows' = [rows EXCEPT ![e] = rows[e]] /\ files' = [files EXCEPT ![e] = files[e]]
      BY <1>0 DEF DB
    <3> QED BY <1>0, <2>2, <3>1, <3>2, <3>3, <3>4, OneRemoval
  <2> QED BY <2>3, <2>4
<1> QED BY <1>1, <1>2

LEMMA RemoveFileStep ==
    ASSUME ExportsIInv, NEW d \in Remove, RemoveFile(d)
    PROVE  ExportsIInv' /\ Forward
<1>a. PICK e \in Export : e = removal[d].e
  BY DEF ExportsIInv, ExportsShape, RemoveFile
<1>b. PICK r : r = [removal[d] EXCEPT !.at = "row"]
  OBVIOUS
<1>1. /\ removal[d].at = "file" /\ UNCHANGED <<now, rows, gen>>
      /\ removal' = [removal EXCEPT ![d] = r] /\ events' \in 0 .. MaxEvents
      /\ rows \in DB /\ files \in [Export -> FileState \cup {NULL}]
      /\ \/ files' = [files EXCEPT ![e] = NULL] /\ disturbed' = disturbed
         \/ UNCHANGED files /\ disturbed' = disturbed \cup {e}
  BY <1>a, <1>b, ExportsAssumption DEF ExportsIInv, ExportsShape, RemoveFile, RemovalGoes, Event, Quiet
<1>2. r \in RemovalRecord /\ r.e = e /\ removal'[d] = r
  BY <1>1, <1>a, <1>b DEF ExportsIInv, ExportsShape, RemovalRecord
<1>3. \A x \in Remove \ {d} : removal'[x] = removal[x]
  BY <1>1 DEF ExportsIInv, ExportsShape
<1>4. e \in disturbed \/ (Regular(e) /\ gen[e] = "done")
  BY <1>1, <1>a DEF ExportsIInv, FilesInv, Regular
<1>5. rows' = [rows EXCEPT ![e] = rows[e]]
  BY <1>1 DEF DB
<1>6. CASE files' = [files EXCEPT ![e] = NULL] /\ disturbed' = disturbed
  <2>1. files'[e] = NULL
    BY <1>1, <1>6
  <2>2. Removing(e)'
    BY <1>2 DEF Removing
  <2>3. e \in disturbed' \/ Regular(e)'
    BY <1>1, <1>4, <1>6, <2>1, <2>2 DEF Regular
  <2> QED BY <1>1, <1>2, <1>5, <1>6, <2>3, <1>a, OneRemoval
<1>7. CASE UNCHANGED files /\ disturbed' = disturbed \cup {e}
  <2>1. files' = [files EXCEPT ![e] = files[e]]
    BY <1>1, <1>7
  <2> QED BY <1>1, <1>2, <1>5, <1>7, <2>1, <1>a, OneRemoval
<1> QED BY <1>1, <1>6, <1>7

LEMMA DeleteRowStep ==
    ASSUME ExportsIInv, NEW d \in Remove, DeleteRow(d)
    PROVE  ExportsIInv' /\ Forward
<1>a. PICK e \in Export : e = removal[d].e
  BY DEF ExportsIInv, ExportsShape, DeleteRow
<1>b. PICK r : r = [removal[d] EXCEPT !.at = "next", !.e = NULL]
  OBVIOUS
<1>1. /\ removal[d].at = "row" /\ UNCHANGED <<now, files, gen>>
      /\ removal' = [removal EXCEPT ![d] = r] /\ events' \in 0 .. MaxEvents
      /\ rows \in DB /\ files \in [Export -> FileState \cup {NULL}]
      /\ \/ rows' = [rows EXCEPT ![e] = NULL] /\ disturbed' = disturbed
         \/ UNCHANGED rows /\ disturbed' = disturbed \cup {e}
  BY <1>a, <1>b, ExportsAssumption DEF ExportsIInv, ExportsShape, DeleteRow, RemovalGoes, Event, Quiet
<1>2. r \in RemovalRecord /\ r.e = NULL /\ r.at = "next" /\ removal'[d] = r
  BY <1>1, <1>a, <1>b DEF ExportsIInv, ExportsShape, RemovalRecord
<1>3. \A x \in Remove \ {d} : removal'[x] = removal[x]
  BY <1>1 DEF ExportsIInv, ExportsShape
<1>4. e \in disturbed \/ (Regular(e) /\ gen[e] = "done" /\ files[e] = NULL)
  BY <1>1, <1>a DEF ExportsIInv, FilesInv, Regular
<1>5. files' = [files EXCEPT ![e] = files[e]]
  BY <1>1
<1>6. CASE rows' = [rows EXCEPT ![e] = NULL] /\ disturbed' = disturbed
  <2>1. rows'[e] = NULL
    BY <1>1, <1>6 DEF DB
  <2>2. e \in disturbed' \/ Regular(e)'
    BY <1>1, <1>4, <1>6, <2>1 DEF Regular
  <2> QED BY <1>1, <1>2, <1>5, <1>6, <2>2, <1>a, OneRemoval
<1>7. CASE UNCHANGED rows /\ disturbed' = disturbed \cup {e}
  <2>1. rows' = [rows EXCEPT ![e] = rows[e]]
    BY <1>1, <1>7 DEF DB
  <2> QED BY <1>1, <1>2, <1>5, <1>7, <2>1, <1>a, OneRemoval
<1> QED BY <1>1, <1>6, <1>7

LEMMA ExportsStep ==
    ASSUME ExportsIInv, ExportsNext PROVE ExportsIInv' /\ Forward
<1>1. CASE Tick
  <2>1. ExportsShape'
    BY <1>1, ExportsAssumption DEF Tick, ExportsIInv, ExportsShape
  <2>2. UNCHANGED <<rows, files, gen, removal, disturbed>>
    BY <1>1 DEF Tick
  <2> QED BY <2>1, <2>2 DEF ExportsIInv, SnapOK, FilesInv, Regular, Removing, Forward
<1> QED BY <1>1, GenerationStep, RequestStep, FindNextStep, RemoveFileStep, DeleteRowStep
        DEF ExportsNext, Delete
LEMMA CrashStep ==
    ASSUME ExportsIInv, ExportsCrash, events' \in 0 .. MaxEvents
    PROVE  ExportsIInv' /\ Forward
<1>1. /\ now \in 0 .. MaxTime /\ rows \in DB /\ files \in [Export -> FileState \cup {NULL}]
      /\ gen \in [Export -> GenStep] /\ disturbed \subseteq Export
      /\ UNCHANGED <<now, rows, files>>
      /\ \A e \in Export : gen'[e] = (IF Generating(e) THEN "done" ELSE gen[e])
      /\ \A d \in Remove : removal'[d] = NoRemoval
  BY DEF ExportsIInv, ExportsShape, ExportsCrash
<1>2. ExportsShape'
  <2>1. gen' \in [Export -> GenStep] /\ disturbed' \subseteq Export
    BY <1>1 DEF ExportsCrash, GenStep
  <2>2. /\ removal' \in [Remove -> [at : {"idle", "next", "file", "row"},
                                    todo : SUBSET Export, e : Export \cup {NULL}]]
        /\ \A d \in Remove : removal'[d].e # NULL <=> removal'[d].at \in {"file", "row"}
    BY DEF ExportsCrash, NoRemoval
  <2> QED BY <1>1, <2>1, <2>2 DEF ExportsShape
<1>3. Forward
  BY <1>1 DEF Forward, Generating
<1>4. SnapOK(rows)'
  BY <1>1 DEF ExportsIInv, SnapOK, Generating
<1>5. FilesInv'
  <2> SUFFICES ASSUME NEW e \in Export
               PROVE  /\ gen'[e] = "written" => files'[e] # "partial"
                      /\ e \notin disturbed' => Regular(e)'
    BY DEF FilesInv
  <2>1. gen'[e] = "written" => files'[e] # "partial"
    BY <1>1 DEF Generating
  <2>2. ASSUME e \notin disturbed' PROVE Regular(e)'
    <3>1. ~Generating(e) /\ ~Removing(e) /\ e \notin disturbed
      BY <2>2 DEF ExportsCrash
    <3>2. Regular(e) /\ rows'[e] = rows[e] /\ files'[e] = files[e] /\ gen'[e] = gen[e]
      BY <1>1, <3>1 DEF ExportsIInv, FilesInv
    <3>3. \A d \in Remove : removal'[d].e # e
      BY <1>1, ExportsNull DEF NoRemoval
    <3> QED BY <3>1, <3>2, <3>3 DEF Regular, Removing
  <2> QED BY <2>1, <2>2
<1> QED BY <1>2, <1>3, <1>4, <1>5 DEF ExportsIInv

(* A restore marks every export it changes or that somebody works on.        *)
LEMMA OverwriteStep ==
    ASSUME ExportsIInv, NEW new \in DB, SnapOK(new), Overwrite(new),
           UNCHANGED <<now, files, gen, removal>>, events' \in 0 .. MaxEvents
    PROVE  ExportsIInv' /\ Forward
<1>1. Forward
  BY DEF Forward
<1>2. ExportsShape'
  BY DEF ExportsIInv, ExportsShape, Overwrite
<1>3. SnapOK(rows)'
  BY DEF SnapOK, Overwrite
<1>4. FilesInv'
  <2> SUFFICES ASSUME NEW e \in Export
               PROVE  /\ gen'[e] = "written" => files'[e] # "partial"
                      /\ e \notin disturbed' => Regular(e)'
    BY DEF FilesInv
  <2>1. ASSUME e \notin disturbed' PROVE Regular(e)'
    <3>1. e \notin disturbed /\ rows'[e] = rows[e]
      BY <2>1 DEF Overwrite
    <3> QED BY <3>1 DEF ExportsIInv, FilesInv, Regular, Removing
  <2> QED BY <2>1 DEF ExportsIInv, FilesInv
<1> QED BY <1>1, <1>2, <1>3, <1>4 DEF ExportsIInv

(* Nothing that a step of a backup alone does concerns the exports.          *)
LEMMA ExportsIdle ==
    ASSUME ExportsIInv, UNCHANGED exportVars, events' \in 0 .. MaxEvents
    PROVE  ExportsIInv' /\ Forward
BY DEF ExportsIInv, ExportsShape, SnapOK, FilesInv, Regular, Removing, Forward, exportVars

-----------------------------------------------------------------------------
(* Backups and restores *)

WriterRecord ==
    { w \in [at : {"idle", "dump", "assets", "close", "sum"}, second : 0 .. MaxTime, has : Contents] :
        w.at \in {"assets", "close", "sum"} => w.has.db \in DB }

(* A restore that holds assets has an archive's dump and tree, and has       *)
(* reported nothing.                                                         *)
RestoreRecord ==
    { r \in [at : {"idle", "database", "mkdir", "stage", "away", "in", "back", "remove", "verify"},
             has : Contents, broken : BOOLEAN, todo : SUBSET Asset, found : SUBSET Asset,
             report : {NULL, "restored", "failed"}] :
        /\ r.at = "database" => r.has.db \in DB
        /\ r.at \in {"mkdir", "stage", "away", "in", "back", "remove"} => r.has.assets # NULL
        /\ r.at # "idle" => r.report = NULL }

ArchiveRecord == { a \in Contents : a.state = "whole" <=> a.db # NULL }

(* An archive, or what a backup or a restore holds of one.                   *)
HasOK(has) == has.db # NULL => SnapOK(has.db)

ArchivesInv ==
    /\ archives \in [0 .. MaxTime -> ArchiveRecord \cup {NULL}]
    /\ \A s \in 0 .. MaxTime : archives[s] # NULL => HasOK(archives[s])

WritersInv ==
    /\ writers \in [Writer -> WriterRecord]
    /\ \A w \in Writer : HasOK(writers[w].has)

Holds(tree) == tree # NULL /\ live \subseteq tree

Alone == \A q, r \in Restorer : UnderWay(q) /\ UnderWay(r) => q = r

(* Where the files of the current tree are, while restores move them: what   *)
(* is removed is never the only directory that has them.                     *)
SwapInv ==
    /\ assets = NULL => Holds(pre) \/ (bare /\ live = {})
    /\ assets # NULL => live \subseteq assets
    /\ \A r \in Restorer : restore[r].at = "remove" => assets # NULL /\ (bare \/ pre # NULL)
    /\ \A q, r \in Restorer : restore[q].at = "remove" /\ restore[r].at = "remove" => q = r

TreesInv ==
    /\ assets \in Tree /\ pre \in Tree /\ stage \in Tree /\ live \in SUBSET Asset
    /\ bare \in BOOLEAN /\ overlapped \in BOOLEAN /\ tainted \in BOOLEAN
    /\ ~overlapped => Alone
    /\ (bare /\ overlapped) \/ SwapInv

RestoreInv ==
    /\ restore \in [Restorer -> RestoreRecord]
    /\ \A r \in Restorer : HasOK(restore[r].has)

IInv == ExportsIInv /\ ArchivesInv /\ WritersInv /\ RestoreInv /\ TreesInv

LEMMA HasStays ==
    ASSUME NEW has, HasOK(has), Forward PROVE HasOK(has)'
BY SnapStays DEF HasOK

LEMMA ContentsAre ==
    Contents = [state : {"open", "whole", "mixed"}, db : DB \cup {NULL}, assets : Tree]
BY DEF Contents, DB

LEMMA OpenOK ==
    /\ Open \in ArchiveRecord /\ Mixed \in ArchiveRecord /\ HasOK(Open) /\ HasOK(Mixed)
    /\ Idle \in WriterRecord /\ NoRestore \in RestoreRecord
<1>1. Open \in Contents /\ Open.db = NULL /\ Open.state = "open"
  BY ContentsAre DEF Open, Tree
<1>2. Mixed \in Contents /\ Mixed.db = NULL /\ Mixed.state = "mixed"
  BY <1>1, ContentsAre DEF Mixed
<1>3. Open \in ArchiveRecord /\ Mixed \in ArchiveRecord /\ HasOK(Open) /\ HasOK(Mixed)
  BY <1>1, <1>2 DEF ArchiveRecord, HasOK
<1>4. 0 \in 0 .. MaxTime
  BY ExportsAssumption
<1>5. Idle \in WriterRecord
  BY <1>1, <1>4 DEF Idle, WriterRecord
<1>6. NoRestore \in RestoreRecord
  BY <1>1 DEF NoRestore, RestoreRecord
<1> QED BY <1>3, <1>5, <1>6

LEMMA InitIInv == BackupInit => IInv
<1> SUFFICES ASSUME BackupInit PROVE IInv
  OBVIOUS
<1>1. ExportsIInv
  BY InitExports DEF BackupInit
<1>2. ArchivesInv
  BY DEF BackupInit, ArchivesInv
<1>3. WritersInv
  BY OpenOK DEF BackupInit, WritersInv, Idle
<1>4. RestoreInv
  BY OpenOK DEF BackupInit, RestoreInv, NoRestore
<1>5. TreesInv
  <2>1. \A r \in Restorer : restore[r].at = "idle"
    BY DEF BackupInit, NoRestore
  <2> QED BY <2>1, BackupAssumption DEF BackupInit, TreesInv, SwapInv, Tree, Alone, UnderWay
<1> QED BY <1>1, <1>2, <1>3, <1>4, <1>5 DEF IInv
LEMMA EventCounts ==
    ASSUME ExportsIInv, Event \/ Quiet PROVE events' \in 0 .. MaxEvents
BY ExportsAssumption DEF ExportsIInv, ExportsShape, Event, Quiet

LEMMA ArchivesStay ==
    ASSUME ArchivesInv, UNCHANGED archives, Forward PROVE ArchivesInv'
<1>1. ASSUME NEW s \in 0 .. MaxTime, archives'[s] # NULL PROVE HasOK(archives[s])'
  <2>1. PICK has : has = archives[s]
    OBVIOUS
  <2>2. HasOK(has)'
    BY <1>1, <2>1, HasStays DEF ArchivesInv
  <2> QED BY <2>1, <2>2 DEF HasOK
<1> QED BY <1>1 DEF ArchivesInv

LEMMA WritersStay ==
    ASSUME WritersInv, UNCHANGED writers, Forward PROVE WritersInv'
<1>1. ASSUME NEW w \in Writer PROVE HasOK(writers[w].has)'
  <2>1. PICK has : has = writers[w].has
    OBVIOUS
  <2>2. HasOK(has)'
    BY <2>1, HasStays DEF WritersInv
  <2> QED BY <2>1, <2>2 DEF HasOK
<1> QED BY <1>1 DEF WritersInv

LEMMA RestoresKeep ==
    ASSUME RestoreInv, Forward, restore' \in [Restorer -> RestoreRecord],
           \A r \in Restorer : restore'[r].has = restore[r].has \/ restore'[r].has = Open
    PROVE  RestoreInv'
<1>1. ASSUME NEW r \in Restorer PROVE HasOK(restore[r].has)'
  <2>1. CASE restore'[r].has = restore[r].has
    <3>1. PICK has : has = restore[r].has
      OBVIOUS
    <3>2. HasOK(has)'
      BY <3>1, HasStays DEF RestoreInv
    <3> QED BY <2>1, <3>1, <3>2 DEF HasOK
  <2>2. CASE restore'[r].has = Open
    BY <2>2 DEF HasOK, Open
  <2> QED BY <2>1, <2>2
<1> QED BY <1>1 DEF RestoreInv

LEMMA RestoresStay ==
    ASSUME RestoreInv, Forward, UNCHANGED restore PROVE RestoreInv'
BY RestoresKeep DEF RestoreInv

LEMMA TreesStay ==
    ASSUME TreesInv, UNCHANGED <<restore, assets, pre, stage, live, bare, overlapped, tainted>>
    PROVE  TreesInv'
BY DEF TreesInv, SwapInv, Holds, Alone, UnderWay

(* One backup writes its own record and at most one archive.                 *)
LEMMA OneBackup ==
    ASSUME IInv, NEW w \in Writer, NEW record \in WriterRecord, HasOK(record.has),
           writers' = [writers EXCEPT ![w] = record],
           NEW s \in 0 .. MaxTime, NEW archive \in ArchiveRecord \cup {NULL},
           archive # NULL => HasOK(archive),
           archives' \in {archives, [archives EXCEPT ![s] = archive]},
           Event \/ Quiet,
           UNCHANGED <<exportVars, restore, assets, pre, stage, live, bare, overlapped, tainted>>
    PROVE  IInv'
<1>1. ExportsIInv' /\ Forward
  BY EventCounts, ExportsIdle DEF IInv
<1>2. ArchivesInv'
  <2>1. archives' \in [0 .. MaxTime -> ArchiveRecord \cup {NULL}]
    BY DEF IInv, ArchivesInv
  <2>2. ASSUME NEW x \in 0 .. MaxTime, archives'[x] # NULL PROVE HasOK(archives[x])'
    <3>1. PICK has : has = archives'[x]
      OBVIOUS
    <3>2. HasOK(has)
      BY <2>2, <3>1 DEF IInv, ArchivesInv
    <3>3. HasOK(has)'
      BY <1>1, <3>2, HasStays
    <3> QED BY <3>1, <3>3 DEF HasOK
  <2> QED BY <2>1, <2>2 DEF ArchivesInv
<1>3. WritersInv'
  <2>1. writers' \in [Writer -> WriterRecord]
    BY DEF IInv, WritersInv
  <2>2. ASSUME NEW x \in Writer PROVE HasOK(writers[x].has)'
    <3>1. PICK has : has = writers'[x].has
      OBVIOUS
    <3>2. HasOK(has)
      BY <3>1 DEF IInv, WritersInv
    <3>3. HasOK(has)'
      BY <1>1, <3>2, HasStays
    <3> QED BY <3>1, <3>3 DEF HasOK
  <2> QED BY <2>1, <2>2 DEF WritersInv
<1>4. RestoreInv'
  BY <1>1, RestoresStay DEF IInv
<1>5. TreesInv'
  BY TreesStay DEF IInv
<1> QED BY <1>1, <1>2, <1>3, <1>4, <1>5 DEF IInv

LEMMA BackupStep ==
    ASSUME IInv, NEW w \in Writer, BeginBackup(w) \/ RunBackup(w)
    PROVE  IInv'
<1>1. /\ now \in 0 .. MaxTime /\ rows \in DB /\ SnapOK(rows) /\ assets \in Tree
      /\ archives \in [0 .. MaxTime -> ArchiveRecord \cup {NULL}]
      /\ writers \in [Writer -> WriterRecord] /\ HasOK(writers[w].has)
      /\ writers[w] \in WriterRecord /\ writers[w].second \in 0 .. MaxTime
      /\ writers = [writers EXCEPT ![w] = writers[w]]
  BY DEF IInv, ExportsIInv, ExportsShape, ArchivesInv, WritersInv, TreesInv, WriterRecord
<1>2. CASE BeginBackup(w)
  <2> DEFINE record == [at |-> "dump", second |-> now, has |-> Open]
             archive == IF Writing(now) THEN Mixed ELSE Open
  <2>1. Open \in Contents
    BY OpenOK DEF ArchiveRecord
  <2>2. record \in WriterRecord /\ record.has = Open
    BY <1>1, <2>1 DEF WriterRecord
  <2>3. archive \in ArchiveRecord /\ HasOK(archive)
    BY OpenOK
  <2>4. /\ writers' = [writers EXCEPT ![w] = record] /\ archives' = [archives EXCEPT ![now] = archive]
        /\ UNCHANGED <<exportVars, restore, assets, pre, stage, live, bare, overlapped, tainted>> /\ Event
    BY <1>2 DEF BeginBackup
  <2> HIDE DEF record, archive
  <2>5. HasOK(record.has)
    BY <2>2, OpenOK
  <2> QED BY <1>1, <2>2, <2>3, <2>4, <2>5, OneBackup
<1>g. ASSUME GiveUp(w), UNCHANGED <<exportVars, restore, assets, pre, stage, live, bare, overlapped, tainted>>
      PROVE  IInv'
  <2>1. HasOK(Idle.has)
    BY OpenOK DEF Idle
  <2> QED BY <1>1, <1>g, <2>1, OpenOK, OneBackup DEF GiveUp
<1>3. CASE Dump(w)
  <2>1. CASE GiveUp(w)
    BY <1>3, <1>g, <2>1 DEF Dump
  <2>2. CASE Quiet /\ writers' = [writers EXCEPT ![w].at = "assets", ![w].has.db = rows] /\ UNCHANGED archives
    <3> DEFINE has == [writers[w].has EXCEPT !.db = rows]
               record == [writers[w] EXCEPT !.at = "assets", !.has = has]
    <3>1. has \in Contents /\ has.db = rows
      BY <1>1, ContentsAre DEF WriterRecord
    <3>2. writers' = [writers EXCEPT ![w] = record]
      BY <2>2
    <3> HIDE DEF has
    <3>3. record \in WriterRecord /\ record.has = has
      BY <1>1, <3>1 DEF WriterRecord
    <3> HIDE DEF record
    <3>4. HasOK(record.has)
      BY <1>1, <3>1, <3>3 DEF HasOK
    <3> QED BY <1>1, <1>3, <2>2, <3>2, <3>3, <3>4, OneBackup DEF Dump
  <2> QED BY <1>3, <2>1, <2>2 DEF Dump
<1>4. CASE AddAssets(w)
  <2>1. PICK tree \in Tree :
          /\ writers' = [writers EXCEPT ![w].at = "close", ![w].has.assets = tree]
          /\ Event \/ Quiet
    BY <1>1, <1>4 DEF AddAssets, Tree
  <2> DEFINE has == [writers[w].has EXCEPT !.assets = tree]
             record == [writers[w] EXCEPT !.at = "close", !.has = has]
  <2>2. has \in Contents /\ has.db = writers[w].has.db
    BY <1>1, ContentsAre DEF WriterRecord
  <2>3. writers' = [writers EXCEPT ![w] = record]
    BY <2>1
  <2>4. writers[w].has.db \in DB
    BY <1>1, <1>4 DEF WriterRecord, AddAssets
  <2> HIDE DEF has
  <2>5. record \in WriterRecord /\ record.has = has
    BY <1>1, <2>2, <2>4 DEF WriterRecord
  <2> HIDE DEF record
  <2>6. HasOK(record.has)
    BY <1>1, <2>2, <2>5 DEF HasOK
  <2> QED BY <1>1, <1>4, <2>1, <2>3, <2>5, <2>6, OneBackup DEF AddAssets
<1>5. CASE Close(w)
  <2>1. CASE GiveUp(w)
    BY <1>5, <1>g, <2>1 DEF Close
  <2>2. CASE ~GiveUp(w)
    <3> DEFINE whole == [writers[w].has EXCEPT !.state = "whole"]
               record == [writers[w] EXCEPT !.at = "sum", !.has = whole]
    <3>1. /\ Quiet /\ writers' = [writers EXCEPT ![w] = record]
          /\ archives' \in {archives, [archives EXCEPT ![writers[w].second] = whole]}
      BY <1>5, <2>2 DEF Close
    <3>2. writers[w].has.db \in DB
      BY <1>1, <1>5 DEF WriterRecord, Close
    <3>3. whole \in Contents /\ whole.db = writers[w].has.db /\ whole.state = "whole"
      BY <1>1, ContentsAre DEF WriterRecord
    <3> HIDE DEF whole
    <3>4. whole \in ArchiveRecord /\ HasOK(whole)
      BY <1>1, <3>2, <3>3, BackupAssumption DEF ArchiveRecord, HasOK, DB
    <3>5. record \in WriterRecord /\ record.has = whole
      BY <1>1, <3>2, <3>3 DEF WriterRecord
    <3> HIDE DEF record
    <3> QED BY <1>1, <1>5, <3>1, <3>4, <3>5, OneBackup DEF Close
  <2> QED BY <2>1, <2>2
<1>6. CASE WriteSum(w)
  <2>1. HasOK(Idle.has) /\ (Event \/ Quiet)
    BY <1>6, OpenOK DEF Idle, WriteSum
  <2> QED BY <1>1, <1>6, <2>1, OpenOK, OneBackup DEF WriteSum
<1> QED BY <1>2, <1>3, <1>4, <1>5, <1>6 DEF RunBackup
-----------------------------------------------------------------------------
(* A step of one restore: the trees are left to the lemma that cites this.   *)
LEMMA OneRestore ==
    ASSUME IInv, Event \/ Quiet, UNCHANGED <<exportVars, archives, writers>>,
           NEW r \in Restorer, NEW record \in RestoreRecord,
           restore' = [restore EXCEPT ![r] = record],
           record.has = restore[r].has \/ record.has = Open,
           TreesInv'
    PROVE  IInv'
<1>1. ExportsIInv' /\ Forward
  BY EventCounts, ExportsIdle DEF IInv
<1>2. RestoreInv'
  BY <1>1, RestoresKeep DEF IInv, RestoreInv
<1> QED BY <1>1, <1>2, ArchivesStay, WritersStay DEF IInv

(* Where a restore that goes on is afterwards; the others are where they were. *)
MovesTo(r, step, todo) ==
    \E record \in RestoreRecord :
        /\ restore' = [restore EXCEPT ![r] = record]
        /\ record.at = step /\ record.todo = todo
        /\ record.has = restore[r].has /\ record.found = restore[r].found
        /\ restore'[r] = record
        /\ \A q \in Restorer \ {r} : restore'[q] = restore[q]

LEMMA Going ==
    ASSUME IInv, NEW r \in Restorer, UnderWay(r),
           NEW step \in {"mkdir", "away", "in", "back", "remove", "verify"}, RestoreGoes(r, step),
           step = "verify" \/ restore[r].has.assets # NULL
    PROVE  MovesTo(r, step, restore[r].todo)
<1> DEFINE record == [restore[r] EXCEPT !.at = step]
<1>1. restore \in [Restorer -> RestoreRecord]
  BY DEF IInv, RestoreInv
<1>2. restore' = [restore EXCEPT ![r] = record]
  BY DEF RestoreGoes
<1>3. record \in RestoreRecord /\ record.at = step /\ record.todo = restore[r].todo
      /\ record.has = restore[r].has /\ record.found = restore[r].found
  BY <1>1 DEF RestoreRecord, UnderWay
<1> HIDE DEF record
<1> QED BY <1>1, <1>2, <1>3 DEF MovesTo

LEMMA Staging ==
    ASSUME IInv, NEW r \in Restorer, UnderWay(r), restore[r].has.assets # NULL,
           NEW todo \in SUBSET Asset, StageGoes(r, todo)
    PROVE  MovesTo(r, IF todo = {} THEN "away" ELSE "stage", todo)
<1> DEFINE step == IF todo = {} THEN "away" ELSE "stage"
           record == [restore[r] EXCEPT !.at = step, !.todo = todo]
<1>1. restore \in [Restorer -> RestoreRecord]
  BY DEF IInv, RestoreInv
<1>2. restore' = [restore EXCEPT ![r] = record]
  BY DEF StageGoes
<1>3. record \in RestoreRecord /\ record.at = step /\ record.todo = todo
      /\ record.has = restore[r].has /\ record.found = restore[r].found
  BY <1>1 DEF RestoreRecord, UnderWay
<1> HIDE DEF record
<1> QED BY <1>1, <1>2, <1>3 DEF MovesTo

(* And of one that has ended.                                                *)
Ended(r) ==
    \E record \in RestoreRecord :
        /\ restore' = [restore EXCEPT ![r] = record]
        /\ record.at = "idle" /\ record.has = Open
        /\ restore'[r] = record
        /\ \A q \in Restorer \ {r} : restore'[q] = restore[q]

LEMMA Reporting ==
    ASSUME IInv, NEW r \in Restorer, NEW report \in {NULL, "restored", "failed"}, Reports(r, report)
    PROVE  Ended(r)
<1> DEFINE record == [NoRestore EXCEPT !.report = report]
<1>1. restore \in [Restorer -> RestoreRecord] /\ restore' = [restore EXCEPT ![r] = record]
  BY DEF IInv, RestoreInv, Reports
<1>2. record \in RestoreRecord /\ record.at = "idle" /\ record.has = Open
  BY OpenOK DEF RestoreRecord, NoRestore
<1> HIDE DEF record
<1> QED BY <1>1, <1>2 DEF Ended

LEMMA AloneStays ==
    ASSUME NEW r \in Restorer, UnderWay(r), Alone,
           \A q \in Restorer \ {r} : restore'[q] = restore[q]
    PROVE  Alone'
BY DEF Alone, UnderWay

(* A step of a restore that leaves the trees alone, and the step that removes*)
(* the old tree.                                                             *)
LEMMA TreesKept ==
    ASSUME TreesInv, NEW r \in Restorer, UnderWay(r),
           \A q \in Restorer \ {r} : restore'[q] = restore[q],
           restore'[r].at # "remove",
           UNCHANGED <<assets, live, bare, overlapped>>, stage' \in Tree, tainted' \in BOOLEAN,
           pre' \in Tree, restore[r].at = "remove" \/ pre' = pre
    PROVE  TreesInv'
<1>1. ~overlapped' => Alone'
  BY AloneStays DEF TreesInv
<1>2. ASSUME SwapInv PROVE SwapInv'
  <2>1. \A q \in Restorer : restore'[q].at = "remove" => q # r /\ restore[q].at = "remove"
    OBVIOUS
  <2>2. CASE restore[r].at = "remove"
    BY <1>2, <2>1, <2>2 DEF SwapInv
  <2>3. CASE restore[r].at # "remove"
    BY <1>2, <2>1, <2>3 DEF SwapInv, Holds
  <2> QED BY <2>2, <2>3
<1> QED BY <1>1, <1>2 DEF TreesInv

(* Which archive a restore begins with, or that it is refused.               *)
LEMMA BeginRestoreStep ==
    ASSUME IInv, NEW r \in Restorer, NEW s \in 0 .. MaxTime, BeginRestore(r, s)
    PROVE  IInv'
<1> DEFINE accepted == MatchesSum(s) /\ archives[s].state = "whole"
           both == \E q \in Restorer \ {r} : Loading(q)
<1>1. ExportsIInv' /\ Forward
  BY EventCounts, ExportsIdle DEF IInv, BeginRestore
<1>2. UNCHANGED <<archives, writers, assets, pre, stage, live, bare, tainted>>
  BY DEF BeginRestore
<1>3. /\ restore \in [Restorer -> RestoreRecord] /\ ~UnderWay(r) /\ archives[s] # NULL
      /\ \A q \in Restorer : HasOK(restore[q].has)
      /\ archives[s] \in ArchiveRecord /\ HasOK(archives[s])
      /\ live \in SUBSET Asset /\ NoRestore \in RestoreRecord /\ NoRestore.at = "idle"
  BY OpenOK DEF IInv, RestoreInv, ArchivesInv, TreesInv, BeginRestore, NoRestore
<1>4. /\ restore' = [q \in Restorer |->
               IF q # r
               THEN IF UnderWay(q) THEN [restore[q] EXCEPT !.broken = @ \/ (accepted /\ Loading(q))]
                    ELSE NoRestore
               ELSE IF accepted
               THEN [NoRestore EXCEPT !.at = "database", !.has = archives[s],
                                      !.broken = both, !.found = live]
               ELSE [NoRestore EXCEPT !.report = "failed"]]
      /\ overlapped' = (overlapped \/ (accepted /\ \E q \in Restorer \ {r} : UnderWay(q)))
  BY DEF BeginRestore
<1>5. both \in BOOLEAN /\ accepted \in BOOLEAN /\ \A q \in Restorer : Loading(q) \in BOOLEAN
  BY DEF Loading, MatchesSum
<1> HIDE DEF both
<1>6. ASSUME NEW q \in Restorer \ {r}
      PROVE  /\ restore'[q] \in RestoreRecord
             /\ restore'[q].has \in {restore[q].has, Open}
             /\ restore'[q].at \in {restore[q].at, "idle"}
  <2>1. CASE UnderWay(q)
    <3> DEFINE broken == restore[q].broken \/ (accepted /\ Loading(q))
    <3>1. restore'[q] = [restore[q] EXCEPT !.broken = broken]
      BY <1>4, <2>1
    <3>2. broken \in BOOLEAN
      OBVIOUS
    <3> HIDE DEF broken, accepted
    <3> QED BY <1>3, <3>1, <3>2 DEF RestoreRecord
  <2>2. CASE ~UnderWay(q)
    <3>1. restore'[q] = NoRestore
      BY <1>4, <2>2
    <3> QED BY <1>3, <3>1 DEF NoRestore
  <2> QED BY <2>1, <2>2
<1>7. /\ restore'[r] \in RestoreRecord
      /\ restore'[r].has \in {archives[s], Open}
      /\ restore'[r].at = IF accepted THEN "database" ELSE "idle"
  <2>1. CASE accepted
    <3>1. restore'[r] = [at |-> "database", has |-> archives[s], broken |-> both, todo |-> {},
                         found |-> live, report |-> NULL]
      BY <1>4, <2>1 DEF NoRestore
    <3>2. archives[s] \in Contents /\ archives[s].db \in DB
      BY <1>3, <2>1, ContentsAre DEF ArchiveRecord
    <3> HIDE DEF accepted
    <3> QED BY <1>3, <1>5, <2>1, <3>1, <3>2 DEF RestoreRecord
  <2>2. CASE ~accepted
    <3>1. restore'[r] = [at |-> "idle", has |-> Open, broken |-> FALSE, todo |-> {},
                         found |-> {}, report |-> "failed"]
      BY <1>4, <2>2 DEF NoRestore
    <3>2. Open \in Contents
      BY OpenOK DEF ArchiveRecord
    <3> HIDE DEF accepted
    <3> QED BY <2>2, <3>1, <3>2 DEF RestoreRecord
  <2> QED BY <2>1, <2>2
<1>8. RestoreInv'
  <2>1. restore' \in [Restorer -> RestoreRecord]
    <3>1. restore' = [q \in Restorer |-> restore'[q]]
      BY <1>4
    <3> QED BY <1>6, <1>7, <3>1
  <2>2. ASSUME NEW q \in Restorer PROVE HasOK(restore[q].has)'
    <3>1. PICK has : has = restore'[q].has
      OBVIOUS
    <3>2. HasOK(has)
      BY <1>3, <1>6, <1>7, <3>1, OpenOK
    <3>3. HasOK(has)'
      BY <1>1, <3>2, HasStays
    <3> QED BY <3>1, <3>3 DEF HasOK
  <2> QED BY <2>1, <2>2 DEF RestoreInv
<1>9. TreesInv'
  <2>1. ~overlapped' => Alone'
    <3> SUFFICES ASSUME ~overlapped', NEW p \in Restorer, NEW q \in Restorer,
                        UnderWay(p)', UnderWay(q)'
                 PROVE  p = q
      BY DEF Alone
    <3>1. Alone /\ (accepted => \A x \in Restorer \ {r} : ~UnderWay(x))
      BY <1>4 DEF IInv, TreesInv
    <3>2. \A x \in Restorer \ {r} : UnderWay(x)' => UnderWay(x)
      BY <1>6 DEF UnderWay
    <3>3. UnderWay(r)' => accepted
      BY <1>7 DEF UnderWay
    <3> HIDE DEF accepted
    <3> QED BY <3>1, <3>2, <3>3 DEF Alone
  <2>2. \A q \in Restorer : restore'[q].at = "remove" => restore[q].at = "remove"
    BY <1>6, <1>7
  <2>3. overlapped' \in BOOLEAN /\ (overlapped => overlapped')
    BY <1>4 DEF IInv, TreesInv
  <2>4. SwapInv => SwapInv'
    BY <1>2, <2>2 DEF SwapInv, Holds
  <2> QED BY <1>2, <2>1, <2>3, <2>4 DEF IInv, TreesInv
<1> QED BY <1>1, <1>2, <1>8, <1>9, ArchivesStay, WritersStay DEF IInv

(* The database becomes what the dump says, a mixture of the two, or what it *)
(* had, or nothing.                                                          *)
LEMMA RestoreDBStep ==
    ASSUME IInv, NEW r \in Restorer, RestoreDB(r) PROVE IInv'
<1> DEFINE has == restore[r].has
           next == IF has.assets = NULL THEN "verify" ELSE "mkdir"
<1>1. /\ restore \in [Restorer -> RestoreRecord] /\ restore[r] \in RestoreRecord /\ UnderWay(r)
      /\ has.db \in DB /\ HasOK(has) /\ SnapOK(rows) /\ rows \in DB /\ tainted \in BOOLEAN
      /\ restore[r].at = "database" /\ TreesInv
  BY DEF IInv, RestoreInv, RestoreDB, Loading, UnderWay, RestoreRecord, ExportsIInv, ExportsShape, TreesInv
<1>2. SnapOK(has.db) /\ [e \in Export |-> NULL] \in DB /\ SnapOK([e \in Export |-> NULL])
  BY <1>1, BackupAssumption DEF HasOK, DB, SnapOK
<1>3. \A new \in Mixtures(has.db) : new \in DB /\ SnapOK(new)
  BY <1>1, <1>2 DEF Mixtures, DB, SnapOK
<1>4. /\ events' \in 0 .. MaxEvents /\ tainted' \in BOOLEAN
      /\ UNCHANGED <<now, files, gen, removal, archives, writers, assets, pre, stage, live, bare, overlapped>>
      /\ \E new \in DB : SnapOK(new) /\ Overwrite(new)
  BY <1>1, <1>2, <1>3, EventCounts DEF RestoreDB, IInv
<1>5. ExportsIInv' /\ Forward
  BY <1>4, OverwriteStep DEF IInv
<1>6. PICK record \in RestoreRecord :
        /\ restore' = [restore EXCEPT ![r] = record]
        /\ record.has = restore[r].has \/ record.has = Open
        /\ record.at \in {"idle", "mkdir", "verify"}
        /\ restore'[r] = record
        /\ \A q \in Restorer \ {r} : restore'[q] = restore[q]
  <2>1. \/ RestoreGoes(r, next) \/ Reports(r, "failed")
        \/ restore' = [restore EXCEPT ![r].at = next, ![r].broken = TRUE]
    BY DEF RestoreDB
  <2>2. CASE Reports(r, "failed")
    BY <2>2, Reporting DEF Ended
  <2>3. CASE RestoreGoes(r, next)
    BY <1>1, <2>3, Going DEF MovesTo
  <2>4. CASE restore' = [restore EXCEPT ![r].at = next, ![r].broken = TRUE]
    <3> DEFINE record == [restore[r] EXCEPT !.at = next, !.broken = TRUE]
    <3>1. record \in RestoreRecord /\ record.has = restore[r].has /\ record.at = next
      BY <1>1 DEF RestoreRecord, UnderWay
    <3>2. restore' = [restore EXCEPT ![r] = record]
      BY <2>4
    <3> HIDE DEF record
    <3> QED BY <1>1, <3>1, <3>2
  <2> QED BY <2>1, <2>2, <2>3, <2>4
<1>7. TreesInv'
  BY <1>1, <1>4, <1>6, TreesKept DEF TreesInv
<1>8. RestoreInv'
  BY <1>1, <1>5, <1>6, RestoresKeep DEF IInv
<1> QED BY <1>4, <1>5, <1>7, <1>8, ArchivesStay, WritersStay DEF IInv

(* Staging, the renames and the removal, each by whichever restore is there: *)
(* what they move is somewhere before and after, whether or not they fail.   *)
LEMMA StageStep ==
    ASSUME IInv, NEW r \in Restorer, MakeStage(r) \/ StageAsset(r)
    PROVE  IInv'
<1>1. /\ TreesInv /\ UnderWay(r) /\ restore[r].at \in {"mkdir", "stage"}
      /\ restore[r].has.assets \in SUBSET Asset /\ restore[r].todo \in SUBSET Asset
      /\ restore[r].has.assets # NULL /\ NULL \notin SUBSET Asset
  BY BackupAssumption, ContentsAre
     DEF IInv, RestoreInv, RestoreRecord, MakeStage, StageAsset, UnderWay, Tree
<1>2. /\ UNCHANGED <<exportVars, archives, writers, assets, pre, live, bare, overlapped>>
      /\ stage' \in Tree /\ tainted' \in BOOLEAN /\ (Event \/ Quiet)
  BY <1>1 DEF MakeStage, StageAsset, TreesInv, Tree
<1>3. RestoreGoes(r, "verify") \/ \E todo \in SUBSET Asset : StageGoes(r, todo)
  BY <1>1 DEF MakeStage, StageAsset
<1>4. PICK step \in {"verify", "away", "stage"}, todo \in SUBSET Asset : MovesTo(r, step, todo)
  <2>1. CASE RestoreGoes(r, "verify")
    BY <1>1, <2>1, Going
  <2>2. CASE \E todo \in SUBSET Asset : StageGoes(r, todo)
    BY <1>1, <2>2, Staging
  <2> QED BY <1>3, <2>1, <2>2
<1>5. TreesInv'
  BY <1>1, <1>2, <1>4, TreesKept DEF MovesTo, TreesInv
<1> QED BY <1>2, <1>4, <1>5, OneRestore DEF MovesTo

LEMMA MoveAwayStep ==
    ASSUME IInv, NEW r \in Restorer, MoveAway(r) PROVE IInv'
<1>1. /\ TreesInv /\ UnderWay(r) /\ restore[r].at = "away" /\ restore[r].has.assets # NULL
      /\ NULL \notin SUBSET Asset
  BY BackupAssumption DEF IInv, RestoreInv, RestoreRecord, MoveAway, UnderWay
<1>2. /\ UNCHANGED <<exportVars, archives, writers, stage, live, bare, overlapped>>
      /\ tainted' \in BOOLEAN /\ (Event \/ Quiet) /\ RestoreGoes(r, "in")
      /\ \/ UNCHANGED <<assets, pre>>
         \/ assets # NULL /\ pre = NULL /\ pre' = assets /\ assets' = NULL
  BY <1>1 DEF MoveAway, TreesInv, Free
<1>3. PICK todo : MovesTo(r, "in", todo)
  BY <1>1, <1>2, Going
<1>4. TreesInv'
  <2>1. CASE UNCHANGED <<assets, pre>>
    BY <1>1, <1>2, <1>3, <2>1, TreesKept DEF MovesTo, TreesInv
  <2>2. CASE assets # NULL /\ pre = NULL /\ pre' = assets /\ assets' = NULL
    <3>1. ~overlapped' => Alone'
      BY <1>1, <1>2, <1>3, AloneStays DEF MovesTo, TreesInv
    <3>2. ASSUME SwapInv, ~(bare /\ overlapped) PROVE SwapInv'
      <4>1. \A q \in Restorer : restore[q].at # "remove"
        <5> SUFFICES ASSUME NEW q \in Restorer, restore[q].at = "remove" PROVE FALSE
          OBVIOUS
        <5>1. bare /\ q # r /\ UnderWay(q)
          BY <1>1, <2>2, <3>2 DEF SwapInv, UnderWay
        <5> QED BY <1>1, <3>2, <5>1 DEF TreesInv, Alone
      <4>2. \A q \in Restorer : restore'[q].at # "remove"
        BY <1>3, <4>1 DEF MovesTo
      <4> QED BY <1>1, <1>2, <2>2, <3>2, <4>2 DEF SwapInv, Holds, TreesInv, Tree
    <3> QED BY <1>1, <1>2, <2>2, <3>1, <3>2 DEF TreesInv, Tree
  <2> QED BY <1>2, <2>1, <2>2
<1> QED BY <1>2, <1>3, <1>4, OneRestore DEF MovesTo

LEMMA SwapInStep ==
    ASSUME IInv, NEW r \in Restorer, SwapIn(r) PROVE IInv'
<1>1. /\ TreesInv /\ UnderWay(r) /\ restore[r].at = "in" /\ restore[r].has.assets # NULL
      /\ NULL \notin SUBSET Asset
  BY BackupAssumption DEF IInv, RestoreInv, RestoreRecord, SwapIn, UnderWay
<1>2. /\ UNCHANGED <<exportVars, archives, writers, pre, bare, overlapped>>
      /\ tainted' \in BOOLEAN /\ (Event \/ Quiet)
      /\ \/ UNCHANGED <<assets, stage, live>> /\ RestoreGoes(r, "back")
         \/ /\ stage # NULL /\ assets = NULL /\ assets' = stage /\ stage' = NULL /\ live' = stage
            /\ RestoreGoes(r, "remove")
  BY <1>1 DEF SwapIn, TreesInv, Free
<1>3. CASE UNCHANGED <<assets, stage, live>> /\ RestoreGoes(r, "back")
  <2>1. PICK todo : MovesTo(r, "back", todo)
    BY <1>1, <1>3, Going
  <2>2. TreesInv'
    BY <1>1, <1>2, <1>3, <2>1, TreesKept DEF MovesTo, TreesInv
  <2> QED BY <1>2, <2>1, <2>2, OneRestore DEF MovesTo
<1>4. CASE /\ stage # NULL /\ assets = NULL /\ assets' = stage /\ stage' = NULL /\ live' = stage
           /\ RestoreGoes(r, "remove")
  <2>1. PICK todo : MovesTo(r, "remove", todo)
    BY <1>1, <1>4, Going
  <2>2. TreesInv'
    <3>1. ~overlapped' => Alone'
      BY <1>1, <1>2, <2>1, AloneStays DEF MovesTo, TreesInv
    <3>2. ASSUME SwapInv PROVE SwapInv'
      <4>1. (\A q \in Restorer : restore[q].at # "remove") /\ (bare \/ pre # NULL)
        BY <1>4, <3>2 DEF SwapInv, Holds
      <4>2. \A q \in Restorer : restore'[q].at = "remove" => q = r
        BY <2>1, <4>1 DEF MovesTo
      <4> QED BY <1>1, <1>2, <1>4, <4>1, <4>2 DEF SwapInv
    <3> QED BY <1>1, <1>2, <1>4, <3>1, <3>2 DEF TreesInv, Tree
  <2> QED BY <1>2, <2>1, <2>2, OneRestore DEF MovesTo
<1> QED BY <1>2, <1>3, <1>4

LEMMA MoveBackStep ==
    ASSUME IInv, NEW r \in Restorer, MoveBack(r) PROVE IInv'
<1>1. TreesInv /\ UnderWay(r) /\ restore[r].at = "back" /\ NULL \notin SUBSET Asset
  BY BackupAssumption DEF IInv, MoveBack, UnderWay
<1>2. /\ UNCHANGED <<exportVars, archives, writers, stage, live, bare, overlapped>>
      /\ tainted' \in BOOLEAN /\ (Event \/ Quiet) /\ RestoreGoes(r, "verify")
      /\ \/ UNCHANGED <<assets, pre>>
         \/ pre # NULL /\ assets = NULL /\ assets' = pre /\ pre' = NULL
  BY <1>1 DEF MoveBack, TreesInv, Free
<1>3. PICK todo : MovesTo(r, "verify", todo)
  BY <1>1, <1>2, Going
<1>4. TreesInv'
  <2>1. CASE UNCHANGED <<assets, pre>>
    BY <1>1, <1>2, <1>3, <2>1, TreesKept DEF MovesTo, TreesInv
  <2>2. CASE pre # NULL /\ assets = NULL /\ assets' = pre /\ pre' = NULL
    <3>1. ~overlapped' => Alone'
      BY <1>1, <1>2, <1>3, AloneStays DEF MovesTo, TreesInv
    <3>2. ASSUME SwapInv PROVE SwapInv'
      <4>1. live \subseteq pre /\ \A q \in Restorer : restore[q].at # "remove"
        BY <2>2, <3>2 DEF SwapInv, Holds
      <4>2. \A q \in Restorer : restore'[q].at # "remove"
        BY <1>3, <4>1 DEF MovesTo
      <4> QED BY <1>2, <2>2, <4>1, <4>2 DEF SwapInv
    <3> QED BY <1>1, <1>2, <2>2, <3>1, <3>2 DEF TreesInv, Tree
  <2> QED BY <1>2, <2>1, <2>2
<1> QED BY <1>2, <1>3, <1>4, OneRestore DEF MovesTo

LEMMA RemoveOldStep ==
    ASSUME IInv, NEW r \in Restorer, RemoveOld(r) PROVE IInv'
<1>1. TreesInv /\ UnderWay(r) /\ restore[r].at = "remove"
  BY DEF IInv, RemoveOld, UnderWay
<1>2. /\ UNCHANGED <<exportVars, archives, writers, assets, stage, live, bare, overlapped>>
      /\ tainted' \in BOOLEAN /\ (Event \/ Quiet) /\ RestoreGoes(r, "verify")
      /\ pre' \in Tree
  BY <1>1 DEF RemoveOld, TreesInv, Tree
<1>3. PICK todo : MovesTo(r, "verify", todo)
  BY <1>1, <1>2, Going
<1>4. TreesInv'
  BY <1>1, <1>2, <1>3, TreesKept DEF MovesTo, TreesInv
<1> QED BY <1>2, <1>3, <1>4, OneRestore DEF MovesTo

LEMMA VerifyStep ==
    ASSUME IInv, NEW r \in Restorer, VerifyIntegrity(r) PROVE IInv'
<1>1. TreesInv /\ UnderWay(r) /\ restore[r].at = "verify"
  BY DEF IInv, VerifyIntegrity, UnderWay
<1>2. /\ \E report \in {NULL, "restored", "failed"} : Reports(r, report)
      /\ UNCHANGED <<exportVars, archives, writers, assets, pre, stage, live, bare, overlapped>>
      /\ tainted' \in BOOLEAN /\ (Event \/ Quiet)
  BY <1>1 DEF VerifyIntegrity, TreesInv
<1>3. Ended(r)
  BY <1>2, Reporting
<1>4. TreesInv'
  BY <1>1, <1>2, <1>3, TreesKept DEF Ended, TreesInv
<1> QED BY <1>2, <1>3, <1>4, OneRestore DEF Ended

LEMMA ChangeAssetsStep ==
    ASSUME IInv, NEW tree \in Trees, ChangeAssets(tree) PROVE IInv'
<1>1. ExportsIInv' /\ Forward
  BY EventCounts, ExportsIdle DEF IInv, ChangeAssets
<1>2. \A r \in Restorer : restore'[r] = NoRestore /\ restore'[r].at = "idle" /\ restore'[r].has = Open
  BY DEF ChangeAssets, NoRestore
<1>3. restore' \in [Restorer -> RestoreRecord]
  BY OpenOK DEF ChangeAssets
<1>4. RestoreInv'
  BY <1>1, <1>2, <1>3, RestoresKeep DEF IInv
<1>5. TreesInv'
  <2>1. Alone'
    BY <1>2 DEF Alone, UnderWay
  <2> QED BY <1>2, <2>1, BackupAssumption DEF ChangeAssets, IInv, TreesInv, SwapInv, Tree
<1> QED BY <1>1, <1>4, <1>5, ArchivesStay, WritersStay DEF IInv, ChangeAssets

LEMMA BackupCrashStep ==
    ASSUME IInv, Crash PROVE IInv'
<1>1. ExportsIInv' /\ Forward
  BY CrashStep, EventCounts DEF IInv, Crash
<1>2. ArchivesInv'
  BY <1>1, ArchivesStay DEF IInv, Crash
<1>3. WritersInv'
  <2>1. \A w \in Writer : writers'[w] = Idle /\ HasOK(writers[w].has)'
    BY DEF Crash, Idle, HasOK, Open
  <2> QED BY <2>1, OpenOK DEF Crash, WritersInv
<1>4. \A r \in Restorer : restore'[r] = NoRestore /\ restore'[r].at = "idle" /\ restore'[r].has = Open
  BY DEF Crash, NoRestore
<1>5. RestoreInv'
  <2>1. restore' \in [Restorer -> RestoreRecord]
    BY OpenOK DEF Crash
  <2> QED BY <1>1, <1>4, <2>1, RestoresKeep DEF IInv
<1>6. TreesInv'
  <2>1. Alone' /\ tainted' \in BOOLEAN
    BY <1>4 DEF Alone, UnderWay, Crash, IInv, TreesInv
  <2>2. SwapInv => SwapInv'
    BY <1>4 DEF SwapInv, Holds, Crash
  <2> QED BY <2>1, <2>2 DEF Crash, IInv, TreesInv
<1> QED BY <1>1, <1>2, <1>3, <1>5, <1>6 DEF IInv

LEMMA StepIInv == IInv /\ [BackupNext]_allVars => IInv'
<1> SUFFICES ASSUME IInv, [BackupNext]_allVars PROVE IInv'
  OBVIOUS
<1>1. ASSUME ExportsIInv' /\ Forward, UNCHANGED backupVars PROVE IInv'
  BY <1>1, RestoresStay, ArchivesStay, WritersStay, TreesStay DEF IInv, backupVars
<1>2. CASE ExportsNext /\ UNCHANGED backupVars
  BY <1>1, <1>2, ExportsStep DEF IInv
<1>3. CASE UNCHANGED allVars
  <2>1. ExportsIInv' /\ Forward
    BY <1>3, ExportsIdle DEF IInv, allVars, ExportsIInv, ExportsShape
  <2> QED BY <1>1, <1>3, <2>1 DEF allVars
<1>4. CASE \E w \in Writer : BeginBackup(w) \/ RunBackup(w)
  BY <1>4, BackupStep
<1>5. CASE \E r \in Restorer, s \in 0 .. MaxTime : BeginRestore(r, s)
  BY <1>5, BeginRestoreStep
<1>6. CASE \E r \in Restorer : Restore(r)
  BY <1>6, RestoreDBStep, StageStep, MoveAwayStep, SwapInStep, MoveBackStep, RemoveOldStep, VerifyStep
     DEF Restore
<1>7. CASE \E tree \in Trees : ChangeAssets(tree)
  BY <1>7, ChangeAssetsStep
<1>8. CASE Crash
  BY <1>8, BackupCrashStep
<1> QED BY <1>2, <1>3, <1>4, <1>5, <1>6, <1>7, <1>8 DEF BackupNext

-----------------------------------------------------------------------------
(* The invariant, for any number of exports, deletions, backups, restores    *)
(* and assets.                                                               *)
THEOREM BackupCorrect == BackupSpec => []IInv
BY InitIInv, StepIInv, PTL DEF BackupSpec

(* Only exports are ever marked as stranded.                                 *)
StrandedInv == stranded \subseteq Export

LEMMA StepStranded == IInv /\ StrandedInv /\ [BackupNext]_allVars => StrandedInv'
<1> SUFFICES ASSUME IInv, StrandedInv, [BackupNext]_allVars PROVE StrandedInv'
  OBVIOUS
<1>1. \A d \in Remove : /\ removal[d].todo \subseteq Export
                        /\ removal[d].at = "file" => removal[d].e \in Export
  BY DEF IInv, ExportsIInv, ExportsShape
<1>2. CASE ExportsNext
  <2>1. ASSUME NEW d \in Remove, FindNext(d) PROVE StrandedInv'
    BY <1>1, <2>1 DEF FindNext, StrandedInv
  <2>2. ASSUME NEW d \in Remove, RemoveFile(d) PROVE StrandedInv'
    BY <1>1, <2>2 DEF RemoveFile, StrandedInv
  <2>3. ASSUME NEW d \in Remove, DeleteRow(d) PROVE StrandedInv'
    BY <2>3 DEF DeleteRow, StrandedInv
  <2>4. ASSUME NEW e \in Export, CreateExport(e) \/ Generate(e) PROVE StrandedInv'
    BY <2>4 DEF CreateExport, Generate, Find, MarkProcessing, CreateFile, Write, CompleteExport,
                FailExport, StrandedInv
  <2>5. CASE Tick \/ ExportCleanup \/ \E d \in Remover, e \in Export : Request(d, e)
    BY <2>5 DEF Tick, ExportCleanup, Request, StrandedInv
  <2> QED BY <1>2, <2>1, <2>2, <2>3, <2>4, <2>5 DEF ExportsNext, Delete
<1>3. ASSUME NEW r \in Restorer, RestoreDB(r) PROVE StrandedInv'
  <2>1. \E new : Overwrite(new)
    BY <1>3 DEF RestoreDB
  <2> QED BY <2>1 DEF Overwrite, StrandedInv
<1>4. ASSUME NEW r \in Restorer, Restore(r), ~RestoreDB(r) PROVE StrandedInv'
  BY <1>4 DEF Restore, MakeStage, StageAsset, MoveAway, SwapIn, MoveBack, RemoveOld, VerifyIntegrity,
              exportVars, StrandedInv
<1>5. ASSUME NEW w \in Writer, BeginBackup(w) \/ RunBackup(w) PROVE StrandedInv'
  BY <1>5 DEF BeginBackup, RunBackup, Dump, AddAssets, Close, WriteSum, exportVars, StrandedInv
<1>6. ASSUME NEW r \in Restorer, NEW s \in 0 .. MaxTime, BeginRestore(r, s) PROVE StrandedInv'
  BY <1>6 DEF BeginRestore, exportVars, StrandedInv
<1>7. ASSUME NEW tree \in Trees, ChangeAssets(tree) PROVE StrandedInv'
  BY <1>7 DEF ChangeAssets, exportVars, StrandedInv
<1>8. CASE Crash
  BY <1>8 DEF Crash, ExportsCrash, StrandedInv
<1>9. CASE UNCHANGED allVars
  BY <1>9 DEF allVars, exportVars, StrandedInv
<1> QED BY <1>2, <1>3, <1>4, <1>5, <1>6, <1>7, <1>8, <1>9 DEF BackupNext

(* Exports, archives, backups and restores keep their shape: an archive that *)
(* is whole always has a dump.                                               *)
THEOREM BackupTypeCorrect == BackupSpec => []BackupTypeOK
<1>1. IInv /\ StrandedInv => BackupTypeOK
  <2> SUFFICES ASSUME IInv, StrandedInv PROVE BackupTypeOK
    OBVIOUS
  <2>1. ExportsTypeOK
    <3>1. \A d \in Remove : removal[d].at \in {"file", "row"} => removal[d].e \in Export
      BY DEF IInv, ExportsIInv, ExportsShape
    <3> QED BY <3>1 DEF IInv, StrandedInv, ExportsIInv, ExportsShape, ExportsTypeOK, DB, GenStep
  <2>2. \A s \in 0 .. MaxTime : archives[s] # NULL =>
          /\ archives[s].state \in {"open", "whole", "mixed"}
          /\ archives[s].assets \in Tree
          /\ (archives[s].state = "whole") = (archives[s].db # NULL)
    BY ContentsAre DEF IInv, ArchivesInv, ArchiveRecord
  <2>3. \A w \in Writer : writers[w].at \in {"idle", "dump", "assets", "close", "sum"}
    BY DEF IInv, WritersInv, WriterRecord
  <2>4. \A r \in Restorer :
          /\ restore[r].at \in {"idle", "database", "mkdir", "stage", "away", "in", "back", "remove", "verify"}
          /\ restore[r].broken \in BOOLEAN
          /\ restore[r].todo \subseteq Asset
          /\ restore[r].report \in {NULL, "restored", "failed"}
    BY DEF IInv, RestoreInv, RestoreRecord
  <2> QED BY <2>1, <2>2, <2>3, <2>4 DEF IInv, TreesInv, BackupTypeOK
<1>2. BackupInit => StrandedInv
  BY DEF BackupInit, ExportsInit, StrandedInv
<1> QED BY <1>1, <1>2, StepStranded, BackupCorrect, PTL DEF BackupSpec

(* No failure, crash or order of restores loses the files of the current     *)
(* tree, not even restores at once unless there was no directory at first:   *)
(* they are in the assets directory or in .pre_restore.                      *)
THEOREM AssetsCorrect == BackupSpec => []AssetsSurvive
<1>1. IInv => AssetsSurvive
  BY DEF IInv, TreesInv, SwapInv, Holds, AssetsSurvive
<1> QED BY <1>1, BackupCorrect, PTL

(* Rows and files agree, whatever is generated, deleted, expired, crashed    *)
(* and restored: no completed row names a file that is not whole, and every  *)
(* export that nothing interfered with is accounted for.                     *)
THEOREM ExportsCorrect == BackupSpec => []ExportsAccounted
<1>1. IInv => ExportsAccounted
  <2> SUFFICES ASSUME IInv, NEW e \in Export
               PROVE  /\ rows[e] # NULL /\ rows[e].status = "COMPLETED" /\ files[e] # NULL => Verified(e)
                      /\ ~Generating(e) /\ ~Removing(e) /\ e \notin disturbed =>
                           IF rows[e] = NULL THEN files[e] = NULL
                           ELSE /\ rows[e].status \in {"COMPLETED", "FAILED"}
                                /\ rows[e].status = "COMPLETED" => files[e] # NULL
    BY DEF ExportsAccounted
  <2>1. files[e] \in FileState \cup {NULL} /\ SnapOK(rows) /\ (e \notin disturbed => Regular(e))
    BY DEF IInv, ExportsIInv, ExportsShape, FilesInv
  <2>2. rows[e] # NULL /\ rows[e].status = "COMPLETED" /\ files[e] # NULL => Verified(e)
    BY <2>1 DEF SnapOK, FileState, Verified
  <2>3. ASSUME ~Generating(e), ~Removing(e), e \notin disturbed
        PROVE  IF rows[e] = NULL THEN files[e] = NULL
               ELSE /\ rows[e].status \in {"COMPLETED", "FAILED"}
                    /\ rows[e].status = "COMPLETED" => files[e] # NULL
    <3>1. CASE gen[e] = "none"
      BY <2>1, <2>3, <3>1 DEF SnapOK, Regular, FileOf
    <3>2. CASE gen[e] = "done"
      BY <2>1, <2>3, <3>2 DEF Regular
    <3> QED BY <2>3, <3>1, <3>2 DEF Generating
  <2> QED BY <2>2, <2>3
<1> QED BY <1>1, BackupCorrect, PTL
-----------------------------------------------------------------------------
(* What a restore that has not met another one says of the trees: where it   *)
(* is, and if none was ever cut off or failed in a step, exactly.            *)
Told(r) ==
    LET res == restore[r]
        tree == res.has.assets IN
    /\ res.at \in {"stage", "away", "in"} => stage # NULL /\ tree \ res.todo \subseteq stage
    /\ res.at = "stage" => res.todo \subseteq tree
    /\ res.at \in {"away", "in"} => res.todo = {}
    /\ res.at \notin {"idle", "remove", "verify"} => live = res.found
    /\ res.at = "remove" => tree \subseteq live /\ assets = live
    /\ res.at = "verify" /\ tree # NULL => \/ tree \subseteq live /\ assets = live
                                           \/ live = res.found

Exact(r) ==
    LET res == restore[r]
        tree == res.has.assets IN
    /\ res.at # "back"
    /\ res.at \in {"database", "mkdir", "remove", "verify"} => stage = NULL
    /\ res.at \in {"stage", "away", "in"} => stage = tree \ res.todo
    /\ res.at \in {"database", "mkdir", "stage", "away", "verify"} => pre = NULL
    /\ res.at = "in" => assets = NULL
    /\ res.at \in {"remove", "verify"} /\ tree # NULL => assets = tree

NothingLeft == pre = NULL /\ stage = NULL

TruthInv ==
    ~overlapped =>
        /\ \A r \in Restorer : Told(r)
        /\ ~tainted => /\ \A r \in Restorer : Exact(r)
                       /\ (\A r \in Restorer : ~UnderWay(r)) => NothingLeft

LEMMA TruthKept ==
    ASSUME TruthInv, UNCHANGED <<restore, assets, pre, stage, live, overlapped, tainted>>
    PROVE  TruthInv'
BY DEF TruthInv, Told, Exact, NothingLeft, UnderWay

LEMMA InitTruth == BackupInit => TruthInv
BY DEF BackupInit, TruthInv, Told, Exact, NothingLeft, NoRestore

LEMMA IdleTruth ==
    ASSUME NEW r \in Restorer, ~UnderWay(r) PROVE Told(r) /\ Exact(r)
BY DEF UnderWay, Told, Exact

(* A step of one restore while no other is under way.                        *)
LEMMA OneTruth ==
    ASSUME TreesInv, TruthInv, NEW r \in Restorer, UnderWay(r),
           \A q \in Restorer \ {r} : restore'[q] = restore[q],
           UNCHANGED overlapped, tainted => tainted',
           ~overlapped /\ Told(r) => Told(r)',
           ~overlapped /\ ~tainted' /\ Told(r) /\ Exact(r) =>
               Exact(r)' /\ (UnderWay(r)' \/ NothingLeft')
    PROVE  TruthInv'
<1> SUFFICES ASSUME ~overlapped'
             PROVE  /\ \A q \in Restorer : Told(q)'
                    /\ ~tainted' => /\ \A q \in Restorer : Exact(q)'
                                    /\ (\A q \in Restorer : ~UnderWay(q)') => NothingLeft'
  BY DEF TruthInv
<1>1. ~overlapped /\ Told(r) /\ (~tainted' => Exact(r))
  BY DEF TruthInv
<1>2. ASSUME NEW q \in Restorer, q # r PROVE Told(q)' /\ Exact(q)'
  <2>1. restore'[q].at = "idle"
    BY <1>1, <1>2 DEF TreesInv, Alone, UnderWay
  <2> QED BY <2>1 DEF Told, Exact
<1> QED BY <1>1, <1>2

(* Facts about one restore's record that every step starts from.             *)
LEMMA RecordOf ==
    ASSUME IInv, NEW r \in Restorer
    PROVE  /\ restore[r] \in RestoreRecord /\ NULL \notin SUBSET Asset
           /\ restore[r].has.assets \in Tree /\ restore[r].todo \in SUBSET Asset
           /\ TreesInv
BY BackupAssumption, ContentsAre DEF IInv, RestoreInv, RestoreRecord

LEMMA BeginTruth ==
    ASSUME IInv, TruthInv, NEW r \in Restorer, NEW s \in 0 .. MaxTime, BeginRestore(r, s)
    PROVE  TruthInv'
<1> DEFINE accepted == MatchesSum(s) /\ archives[s].state = "whole"
<1>1. /\ restore \in [Restorer -> RestoreRecord] /\ ~UnderWay(r)
      /\ UNCHANGED <<assets, pre, stage, live, tainted>>
      /\ overlapped' = (overlapped \/ (accepted /\ \E q \in Restorer \ {r} : UnderWay(q)))
  BY DEF IInv, RestoreInv, BeginRestore
<1>2. /\ accepted => restore'[r].at = "database" /\ restore'[r].found = live
      /\ ~accepted => restore'[r].at = "idle"
  BY DEF BeginRestore, NoRestore
<1>3. ASSUME NEW q \in Restorer \ {r}
      PROVE  /\ restore'[q].at = restore[q].at
             /\ UnderWay(q) => /\ restore'[q].has = restore[q].has /\ restore'[q].todo = restore[q].todo
                               /\ restore'[q].found = restore[q].found
  <2>1. CASE UnderWay(q)
    <3>1. restore'[q] = [restore[q] EXCEPT !.broken = @ \/ (accepted /\ Loading(q))]
      BY <2>1 DEF BeginRestore
    <3> HIDE DEF accepted
    <3>2. restore[q] \in RestoreRecord
      BY <1>1
    <3> QED BY <3>1, <3>2 DEF RestoreRecord
  <2>2. CASE ~UnderWay(q)
    <3>1. restore'[q] = NoRestore
      BY <2>2 DEF BeginRestore
    <3> QED BY <2>2, <3>1 DEF NoRestore, UnderWay
  <2> QED BY <2>1, <2>2
<1> HIDE DEF accepted
<1> SUFFICES ASSUME ~overlapped'
             PROVE  /\ \A q \in Restorer : Told(q)'
                    /\ ~tainted' => /\ \A q \in Restorer : Exact(q)'
                                    /\ (\A q \in Restorer : ~UnderWay(q)') => NothingLeft'
  BY DEF TruthInv
<1>4. ~overlapped /\ (accepted => \A q \in Restorer : ~UnderWay(q))
  BY <1>1
<1>5. ASSUME NEW q \in Restorer \ {r} PROVE Told(q)' /\ (~tainted' => Exact(q)')
  <2>1. CASE UnderWay(q)
    BY <1>1, <1>3, <1>4, <2>1 DEF TruthInv, Told, Exact
  <2>2. CASE ~UnderWay(q)
    BY <1>3, <2>2 DEF UnderWay, Told, Exact
  <2> QED BY <2>1, <2>2
<1>6. Told(r)' /\ (~tainted' => Exact(r)')
  <2>1. CASE accepted
    BY <1>1, <1>2, <1>4, <2>1 DEF TruthInv, Told, Exact, NothingLeft
  <2>2. CASE ~accepted
    BY <1>2, <2>2 DEF Told, Exact
  <2> QED BY <2>1, <2>2
<1>7. ~tainted' /\ (\A q \in Restorer : ~UnderWay(q)') => NothingLeft'
  BY <1>1, <1>3, <1>4 DEF TruthInv, NothingLeft, UnderWay
<1> QED BY <1>5, <1>6, <1>7

LEMMA RestoreDBTruth ==
    ASSUME IInv, TruthInv, NEW r \in Restorer, RestoreDB(r) PROVE TruthInv'
<1> DEFINE next == IF restore[r].has.assets = NULL THEN "verify" ELSE "mkdir"
<1>1. /\ restore[r].at = "database" /\ UNCHANGED <<assets, pre, stage, live, overlapped>>
      /\ tainted => tainted'
      /\ \/ RestoreGoes(r, next)
         \/ tainted' /\ Reports(r, "failed")
         \/ restore' = [restore EXCEPT ![r].at = next, ![r].broken = TRUE]
  BY DEF RestoreDB, Loading
<1>2. /\ \A q \in Restorer \ {r} : restore'[q] = restore[q]
      /\ \/ restore'[r].at = "idle" /\ tainted'
         \/ /\ restore'[r].at = next
            /\ restore'[r].has = restore[r].has /\ restore'[r].found = restore[r].found
  <2>1. restore \in [Restorer -> RestoreRecord]
    BY DEF IInv, RestoreInv
  <2>2. CASE RestoreGoes(r, next)
    BY <2>1, <2>2 DEF RestoreGoes, RestoreRecord
  <2>3. CASE tainted' /\ Reports(r, "failed")
    BY <2>3, Reporting DEF Ended
  <2>4. CASE restore' = [restore EXCEPT ![r].at = next, ![r].broken = TRUE]
    BY <2>1, <2>4 DEF RestoreRecord
  <2> QED BY <1>1, <2>2, <2>3, <2>4
<1>3. ~overlapped /\ Told(r) => Told(r)'
  BY <1>1, <1>2 DEF Told
<1>4. ~tainted' /\ Told(r) /\ Exact(r) => Exact(r)' /\ (UnderWay(r)' \/ NothingLeft')
  BY <1>1, <1>2 DEF Told, Exact, UnderWay
<1> QED BY <1>1, <1>2, <1>3, <1>4, OneTruth DEF IInv, UnderWay

LEMMA MakeStageTruth ==
    ASSUME IInv, TruthInv, NEW r \in Restorer, MakeStage(r) PROVE TruthInv'
<1>1. /\ restore[r].at = "mkdir" /\ UnderWay(r) /\ restore[r].has.assets \in SUBSET Asset
      /\ NULL \notin SUBSET Asset
      /\ UNCHANGED <<assets, pre, live, overlapped>> /\ restore[r].has.assets # NULL
  BY RecordOf DEF MakeStage, RestoreRecord, UnderWay, Tree
<1>2. CASE tainted' /\ UNCHANGED stage /\ RestoreGoes(r, "verify")
  <2>1. PICK todo : MovesTo(r, "verify", todo)
    BY <1>1, <1>2, Going
  <2>2. Told(r) => Told(r)'
    BY <1>1, <1>2, <2>1 DEF Told, MovesTo
  <2> QED BY <1>1, <1>2, <2>1, <2>2, OneTruth DEF IInv, MovesTo
<1>3. CASE /\ UNCHANGED tainted /\ stage' = (IF stage = NULL THEN {} ELSE stage)
           /\ StageGoes(r, restore[r].has.assets)
  <2>1. MovesTo(r, IF restore[r].has.assets = {} THEN "away" ELSE "stage", restore[r].has.assets)
    BY <1>1, <1>3, Staging
  <2>2. Told(r) => Told(r)'
    BY <1>1, <1>3, <2>1 DEF Told, MovesTo
  <2>3. Told(r) /\ Exact(r) => Exact(r)' /\ UnderWay(r)'
    BY <1>1, <1>3, <2>1 DEF Told, Exact, MovesTo, UnderWay
  <2> QED BY <1>1, <1>3, <2>1, <2>2, <2>3, OneTruth DEF IInv, MovesTo
<1> QED BY <1>2, <1>3 DEF MakeStage

LEMMA StageAssetTruth ==
    ASSUME IInv, TruthInv, NEW r \in Restorer, StageAsset(r) PROVE TruthInv'
<1>1. /\ restore[r].at = "stage" /\ UnderWay(r) /\ restore[r].has.assets \in SUBSET Asset
      /\ NULL \notin SUBSET Asset /\ restore[r].todo \in SUBSET Asset /\ stage \in Tree
      /\ UNCHANGED <<assets, pre, live, overlapped>> /\ restore[r].has.assets # NULL
  BY RecordOf DEF StageAsset, RestoreRecord, UnderWay, Tree, TreesInv
<1>2. PICK a \in restore[r].todo :
        \/ /\ UNCHANGED tainted /\ stage' = (IF stage = NULL THEN {a} ELSE stage \cup {a})
           /\ StageGoes(r, restore[r].todo \ {a})
        \/ stage = NULL /\ UNCHANGED <<stage, tainted>> /\ RestoreGoes(r, "verify")
        \/ tainted' /\ RestoreGoes(r, "verify")
  BY DEF StageAsset
<1>3. CASE /\ UNCHANGED tainted /\ stage' = (IF stage = NULL THEN {a} ELSE stage \cup {a})
           /\ StageGoes(r, restore[r].todo \ {a})
  <2>1. MovesTo(r, IF restore[r].todo \ {a} = {} THEN "away" ELSE "stage", restore[r].todo \ {a})
    BY <1>1, <1>3, Staging
  <2>2. ASSUME Told(r) PROVE Told(r)'
    <3> DEFINE rest == restore[r].todo \ {a}
               tree == restore[r].has.assets
    <3>1. stage' \in SUBSET Asset /\ tree \ rest \subseteq stage' /\ rest \subseteq tree
      BY <1>1, <1>3, <2>2 DEF Told, Tree
    <3>2. /\ restore'[r].at = (IF rest = {} THEN "away" ELSE "stage") /\ restore'[r].todo = rest
          /\ restore'[r].has.assets = tree /\ restore'[r].found = restore[r].found /\ live' = restore[r].found
      BY <1>1, <2>1, <2>2 DEF MovesTo, Told
    <3> HIDE DEF rest, tree
    <3> QED BY <1>1, <3>1, <3>2 DEF Told
  <2>3. Told(r) /\ Exact(r) => Exact(r)' /\ UnderWay(r)'
    <3>1. Told(r) /\ Exact(r) => stage' = restore[r].has.assets \ (restore[r].todo \ {a})
      BY <1>1, <1>3 DEF Told, Exact
    <3> QED BY <1>1, <1>3, <2>1, <3>1 DEF Exact, MovesTo, UnderWay
  <2> QED BY <1>1, <1>3, <2>1, <2>2, <2>3, OneTruth DEF IInv, MovesTo
<1>4. CASE stage = NULL /\ UNCHANGED <<stage, tainted>> /\ RestoreGoes(r, "verify")
  <2>1. PICK todo : MovesTo(r, "verify", todo)
    BY <1>1, <1>4, Going
  <2>2. ~Told(r)
    BY <1>1, <1>4 DEF Told
  <2> QED BY <1>1, <1>4, <2>1, <2>2, OneTruth DEF IInv, MovesTo
<1>5. CASE tainted' /\ RestoreGoes(r, "verify")
  <2>1. PICK todo : MovesTo(r, "verify", todo)
    BY <1>1, <1>5, Going
  <2>2. Told(r) => Told(r)'
    BY <1>1, <1>5, <2>1 DEF Told, MovesTo
  <2> QED BY <1>1, <1>5, <2>1, <2>2, OneTruth DEF IInv, MovesTo
<1> QED BY <1>2, <1>3, <1>4, <1>5

LEMMA MoveAwayTruth ==
    ASSUME IInv, TruthInv, NEW r \in Restorer, MoveAway(r) PROVE TruthInv'
<1>1. /\ restore[r].at = "away" /\ UnderWay(r) /\ restore[r].has.assets # NULL
      /\ UNCHANGED <<stage, live, overlapped>> /\ RestoreGoes(r, "in") /\ (tainted => tainted')
      /\ tainted' \/ IF assets # NULL /\ pre = NULL THEN assets' = NULL ELSE UNCHANGED assets
  BY RecordOf DEF MoveAway, RestoreRecord, UnderWay, Free
<1>2. MovesTo(r, "in", restore[r].todo)
  BY <1>1, Going
<1>3. Told(r) => Told(r)'
  BY <1>1, <1>2 DEF Told, MovesTo
<1>4. ~tainted' /\ Told(r) /\ Exact(r) => Exact(r)' /\ UnderWay(r)'
  BY <1>1, <1>2 DEF Exact, MovesTo, UnderWay
<1> QED BY <1>1, <1>2, <1>3, <1>4, OneTruth DEF IInv, MovesTo

LEMMA SwapInTruth ==
    ASSUME IInv, TruthInv, NEW r \in Restorer, SwapIn(r) PROVE TruthInv'
<1>1. /\ restore[r].at = "in" /\ UnderWay(r) /\ restore[r].has.assets # NULL
      /\ UNCHANGED <<pre, overlapped>> /\ (tainted => tainted')
      /\ \/ /\ UNCHANGED <<assets, stage, live>> /\ RestoreGoes(r, "back")
            /\ tainted' \/ stage = NULL \/ assets # NULL
         \/ /\ assets' = stage /\ stage' = NULL /\ live' = stage /\ RestoreGoes(r, "remove")
  BY RecordOf DEF SwapIn, RestoreRecord, UnderWay, Free
<1>2. CASE /\ UNCHANGED <<assets, stage, live>> /\ RestoreGoes(r, "back")
           /\ tainted' \/ stage = NULL \/ assets # NULL
  <2>1. MovesTo(r, "back", restore[r].todo)
    BY <1>1, <1>2, Going
  <2>2. Told(r) => Told(r)'
    BY <1>1, <1>2, <2>1 DEF Told, MovesTo
  <2>3. Told(r) /\ Exact(r) => tainted'
    BY <1>1, <1>2 DEF Told, Exact
  <2> QED BY <1>1, <1>2, <2>1, <2>2, <2>3, OneTruth DEF IInv, MovesTo
<1>3. CASE assets' = stage /\ stage' = NULL /\ live' = stage /\ RestoreGoes(r, "remove")
  <2>1. MovesTo(r, "remove", restore[r].todo)
    BY <1>1, <1>3, Going
  <2>2. Told(r) => Told(r)'
    BY <1>1, <1>3, <2>1 DEF Told, MovesTo
  <2>3. Told(r) /\ Exact(r) => Exact(r)' /\ UnderWay(r)'
    BY <1>1, <1>3, <2>1 DEF Told, Exact, MovesTo, UnderWay
  <2> QED BY <1>1, <1>3, <2>1, <2>2, <2>3, OneTruth DEF IInv, MovesTo
<1> QED BY <1>1, <1>2, <1>3

LEMMA MoveBackTruth ==
    ASSUME IInv, TruthInv, NEW r \in Restorer, MoveBack(r) PROVE TruthInv'
<1>1. /\ restore[r].at = "back" /\ UnderWay(r) /\ RestoreGoes(r, "verify")
      /\ UNCHANGED <<stage, live, overlapped>> /\ (tainted => tainted')
  BY DEF MoveBack, UnderWay
<1>2. MovesTo(r, "verify", restore[r].todo)
  BY <1>1, Going
<1>3. (Told(r) => Told(r)') /\ ~Exact(r)
  BY <1>1, <1>2 DEF Told, Exact, MovesTo
<1> QED BY <1>1, <1>2, <1>3, OneTruth DEF IInv, MovesTo

LEMMA RemoveOldTruth ==
    ASSUME IInv, TruthInv, NEW r \in Restorer, RemoveOld(r) PROVE TruthInv'
<1>1. /\ restore[r].at = "remove" /\ UnderWay(r) /\ RestoreGoes(r, "verify")
      /\ UNCHANGED <<assets, stage, live, overlapped>> /\ (tainted => tainted')
      /\ tainted' \/ pre' = NULL
  BY DEF RemoveOld, UnderWay
<1>2. MovesTo(r, "verify", restore[r].todo)
  BY <1>1, Going
<1>3. Told(r) => Told(r)'
  BY <1>1, <1>2 DEF Told, MovesTo
<1>4. ~tainted' /\ Exact(r) => Exact(r)' /\ UnderWay(r)'
  BY <1>1, <1>2 DEF Exact, MovesTo, UnderWay
<1> QED BY <1>1, <1>2, <1>3, <1>4, OneTruth DEF IInv, MovesTo

LEMMA VerifyTruth ==
    ASSUME IInv, TruthInv, NEW r \in Restorer, VerifyIntegrity(r) PROVE TruthInv'
<1>1. /\ restore[r].at = "verify" /\ UnderWay(r) /\ (tainted => tainted')
      /\ \E report \in {NULL, "restored", "failed"} : Reports(r, report)
      /\ UNCHANGED <<assets, pre, stage, live, overlapped>>
  BY DEF VerifyIntegrity, UnderWay
<1>2. Ended(r)
  BY <1>1, Reporting
<1>3. Told(r)' /\ Exact(r)' /\ (Exact(r) => NothingLeft')
  BY <1>1, <1>2 DEF Told, Exact, NothingLeft, Ended
<1> QED BY <1>1, <1>2, <1>3, OneTruth DEF IInv, Ended

LEMMA StepTruth == IInv /\ TruthInv /\ [BackupNext]_allVars => TruthInv'
<1> SUFFICES ASSUME IInv, TruthInv, [BackupNext]_allVars PROVE TruthInv'
  OBVIOUS
<1>1. CASE (ExportsNext /\ UNCHANGED backupVars) \/ UNCHANGED allVars
  BY <1>1, TruthKept DEF allVars, backupVars
<1>2. CASE \E w \in Writer : BeginBackup(w) \/ RunBackup(w)
  BY <1>2, TruthKept DEF BeginBackup, RunBackup, Dump, AddAssets, Close, WriteSum
<1>3. CASE \E r \in Restorer, s \in 0 .. MaxTime : BeginRestore(r, s)
  BY <1>3, BeginTruth
<1>4. CASE \E r \in Restorer : Restore(r)
  BY <1>4, RestoreDBTruth, MakeStageTruth, StageAssetTruth, MoveAwayTruth, SwapInTruth, MoveBackTruth,
     RemoveOldTruth, VerifyTruth DEF Restore
<1>5. ASSUME NEW tree \in Trees, ChangeAssets(tree) PROVE TruthInv'
  <2>1. /\ \A r \in Restorer : restore'[r].at = "idle" /\ ~UnderWay(r)
        /\ UNCHANGED <<pre, stage, overlapped, tainted>>
    BY <1>5 DEF ChangeAssets, NoRestore
  <2> QED BY <2>1 DEF TruthInv, Told, Exact, NothingLeft
<1>6. CASE Crash
  <2>1. /\ \A r \in Restorer : restore'[r].at = "idle"
        /\ UNCHANGED <<pre, stage, overlapped>> /\ tainted' = (tainted \/ \E r \in Restorer : UnderWay(r))
    BY <1>6 DEF Crash, NoRestore
  <2> QED BY <2>1 DEF TruthInv, Told, Exact, NothingLeft
<1> QED BY <1>1, <1>2, <1>3, <1>4, <1>5, <1>6 DEF BackupNext

(* Success is reported by the last step of a restore only.                   *)
LEMMA WhoReports ==
    ASSUME IInv, [BackupNext]_allVars, NEW r \in Restorer, UnderWay(r), restore'[r].report = "restored"
    PROVE  restore[r].at = "verify"
<1>1. restore \in [Restorer -> RestoreRecord] /\ restore[r].report = NULL /\ NULL # "restored"
  BY BackupAssumption DEF IInv, RestoreInv, RestoreRecord, UnderWay
<1>2. CASE restore' = restore
  BY <1>1, <1>2
<1>3. ASSUME NEW q \in Restorer, NEW s \in 0 .. MaxTime, BeginRestore(q, s) PROVE FALSE
  <2>1. r # q /\ \E broken : restore'[r] = [restore[r] EXCEPT !.broken = broken]
    BY <1>3 DEF BeginRestore
  <2> QED BY <1>1, <2>1 DEF RestoreRecord
<1>4. ASSUME NEW q \in Restorer, Restore(q) PROVE restore[r].at = "verify"
  <2>1. CASE \E step : RestoreGoes(q, step)
    BY <1>1, <2>1 DEF RestoreGoes, RestoreRecord
  <2>2. CASE \E todo : StageGoes(q, todo)
    BY <1>1, <2>2 DEF StageGoes, RestoreRecord
  <2>3. CASE \E step : restore' = [restore EXCEPT ![q].at = step, ![q].broken = TRUE]
    BY <1>1, <2>3 DEF RestoreRecord
  <2>4. CASE Reports(q, "failed")
    BY <1>1, <2>4 DEF Reports, NoRestore
  <2>5. CASE VerifyIntegrity(q)
    BY <1>1, <2>5 DEF VerifyIntegrity, Reports
  <2> QED BY <1>4, <2>1, <2>2, <2>3, <2>4, <2>5
          DEF Restore, RestoreDB, MakeStage, StageAsset, MoveAway, SwapIn, MoveBack, RemoveOld
<1>5. ASSUME NEW tree \in Trees, ChangeAssets(tree) PROVE FALSE
  BY <1>1, <1>5 DEF ChangeAssets, NoRestore
<1>6. CASE Crash
  BY <1>1, <1>6 DEF Crash, NoRestore
<1>7. CASE \E w \in Writer : BeginBackup(w) \/ RunBackup(w)
  BY <1>2, <1>7 DEF BeginBackup, RunBackup, Dump, AddAssets, Close, WriteSum
<1> QED BY <1>2, <1>3, <1>4, <1>5, <1>6, <1>7 DEF BackupNext, backupVars, allVars

(* A restore that reports success has put the archive's tree in place, or    *)
(* left the tree there was; and where none was cut off or failed in a step   *)
(* it has put it in place and left nothing behind.  All this of restores     *)
(* that never overlapped.                                                    *)
THEOREM RestoreCorrect == BackupSpec => RestoreTellsTheTruth
<1> DEFINE Tells == \A r \in Restorer :
             UnderWay(r) /\ restore'[r].report = "restored" /\ ~overlapped =>
                LET tree == restore[r].has.assets IN
                /\ tree # NULL => \/ tree \subseteq live /\ assets = live
                                  \/ live = restore[r].found
                /\ ~tainted => /\ tree # NULL => assets = tree
                               /\ pre = NULL /\ stage = NULL
<1>1. IInv /\ TruthInv /\ [BackupNext]_allVars => [Tells]_allVars
  <2> SUFFICES ASSUME IInv, TruthInv, [BackupNext]_allVars PROVE Tells
    OBVIOUS
  <2> SUFFICES ASSUME NEW r \in Restorer, UnderWay(r), restore'[r].report = "restored", ~overlapped
               PROVE  LET tree == restore[r].has.assets IN
                      /\ tree # NULL => \/ tree \subseteq live /\ assets = live
                                        \/ live = restore[r].found
                      /\ ~tainted => /\ tree # NULL => assets = tree
                                     /\ pre = NULL /\ stage = NULL
    OBVIOUS
  <2>1. restore[r].at = "verify"
    BY WhoReports
  <2> QED BY <2>1 DEF TruthInv, Told, Exact
<1>2. BackupSpec => [](IInv /\ TruthInv)
  BY InitIInv, StepIInv, InitTruth, StepTruth, PTL DEF BackupSpec
<1>3. BackupSpec => [][Tells]_allVars
  BY <1>1, <1>2, PTL DEF BackupSpec
<1> QED BY <1>3 DEF RestoreTellsTheTruth
=============================================================================
