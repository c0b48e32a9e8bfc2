------------------------- MODULE PhotoshootPackages -------------------------
(***************************************************************************)
(* The photoshoot packages of a photographer: the count that his quota is  *)
(* checked against, the showcase photos, and the job that moves the files  *)
(* of a package from the disk of the server to the cloud.                  *)
(*                                                                         *)
(* A row names a file; whether it is looked for on the disk or in the      *)
(* cloud depends on the source status of its package.  A step is one       *)
(* awaited call.  The text and price of a package, the picture put under a *)
(* thumbnail's key and the status are left out: a request on a package     *)
(* that is disabled is refused, which is as if it had not been made.       *)
(***************************************************************************)
EXTENDS Integers, FiniteSets

CONSTANTS
  Procs,           \* requests in flight at once
  MaxPackageCount, \* User.maxPackageCount
  Attempts,        \* runs of a job before it is given up: 5 in the code
  MaxPackages, MaxFiles, \* bounds: packages and files
  Settings,        \* bounds: what is explored together, see setting
  MaxFailures      \* bound: jobs that fail for no reason of theirs, lost requests

PackageId == 1..MaxPackages
FileId == 1..MaxFiles

ASSUME PackagesAssumption ==
  /\ MaxPackageCount \in Nat /\ Attempts \in Nat \ {0}
  /\ MaxPackages \in Nat /\ MaxFiles \in Nat /\ MaxFailures \in Nat
  /\ Settings \subseteq [packages : 0..MaxPackages, files : 0..MaxFiles, edits : BOOLEAN]

VARIABLES
  setting,  \* never changes: how many packages and files, whether showcases are edited
  package,  \* the PhotoshootPackage table
  showcase, \* the PhotoshootPackageShowcasePhoto table
  file,     \* where there is a copy of each file
  count,    \* User.packageCount
  upload,   \* the UPLOAD_TO_CLOUD job of each package
  purge,    \* DELETE_TEMPORARY_PHOTO jobs
  req,      \* requests in flight
  failures  \* failures and lost requests so far

rowVars == <<package, showcase, count>>
jobVars == <<upload, purge>>
vars == <<setting, rowVars, file, jobVars, req, failures>>

FreePackage == [used |-> FALSE, source |-> "CLOUD", thumbnail |-> 0, deleted |-> FALSE]
\* A row is known by the file it was created for, and by whether the job created it.
NoRow == [id |-> 0, moved |-> FALSE, package |-> 0, file |-> 0]
Row == [id : FileId, moved : BOOLEAN, package : PackageId, file : FileId]
NoJob == [pc |-> "none", left |-> 0, files |-> {}]
Idle == [pc |-> "idle", package |-> 0, row |-> NoRow, source |-> "CLOUD"]

TypeOK ==
  /\ setting \in Settings
  /\ package \in [PackageId -> {FreePackage} \cup
       [used : {TRUE}, source : {"FILESYSTEM", "CLOUD"},
        thumbnail : FileId, deleted : BOOLEAN]]
  /\ showcase \subseteq Row
  /\ file \in [FileId -> SUBSET {"temporary", "named", "disk", "cloud"}]
  /\ count \in Nat
  /\ upload \in [PackageId ->
       [pc : {"none", "queued", "read", "uploaded", "switched"}, left : 0..Attempts,
        files : SUBSET FileId]]
  /\ purge \subseteq FileId
  /\ req \in [Procs ->
       [pc : {"idle", "create", "queue", "delete", "addShowcase", "dropFile", "dropRow",
              "replaceFile", "replaceRow"},
        package : PackageId \cup {0}, row : Row \cup {NoRow}, source : {"FILESYSTEM", "CLOUD"}]]
  /\ failures \in 0..MaxFailures

Init ==
  /\ setting \in Settings
  /\ package = [k \in PackageId |-> FreePackage]
  /\ showcase = {}
  /\ file = [f \in FileId |-> {}]
  /\ count = 0 /\ purge = {} /\ failures = 0
  /\ upload = [k \in PackageId |-> NoJob]
  /\ req = [p \in Procs |-> Idle]

-----------------------------------------------------------------------------
Live(k) == package[k].used /\ ~package[k].deleted
ShowcasesOf(k) == {r \in showcase : r.package = k}

\* The first n new files: their names, made by v4(), are never used again.
NewFiles(n) == {f \in 1..setting.files : file[f] = {} /\ Cardinality({g \in 1..(f - 1) : file[g] = {}}) < n}
FilesLeft(n) == Cardinality(NewFiles(n)) = n
Put(F, where) == file' = [f \in FileId |-> IF f \in F THEN file[f] \cup where ELSE file[f]]

\* A file starts on the disk, under a temporary name, or in the cloud under its own.
OnTheDisk == {"temporary", "disk"}
InTheCloud == {"named", "cloud"}

At(p, pc) == req[p].pc = pc
Begin(p, r) == At(p, "idle") /\ req' = [req EXCEPT ![p] = r]
Goto(p, pc) == req' = [req EXCEPT ![p].pc = pc]
Done(p) == req' = [req EXCEPT ![p] = Idle]

-----------------------------------------------------------------------------
(* Creating and deleting *)

\* create and filesystemCreate read the user and compare the count with the limit.
Create(p, source) ==
  /\ count < MaxPackageCount
  /\ Begin(p, [Idle EXCEPT !.pc = "create", !.source = source])
  /\ UNCHANGED <<setting, rowVars, file, jobVars, failures>>

\* One transaction: the package, a showcase photo, the count.  The files are there by
\* then: create has uploaded them, filesystemCreate was given them on the disk.
InsertPackage(p) ==
  /\ At(p, "create") /\ FilesLeft(2)
  /\ \E k \in 1..setting.packages, t, f \in NewFiles(2) :
       /\ ~package[k].used /\ \A l \in 1..(k - 1) : package[l].used
       /\ t < f
       /\ package' = [package EXCEPT ![k] =
            [used |-> TRUE, source |-> req[p].source, thumbnail |-> t, deleted |-> FALSE]]
       /\ showcase' = showcase \cup {[id |-> f, moved |-> FALSE, package |-> k, file |-> f]}
       /\ Put(NewFiles(2), IF req[p].source = "CLOUD" THEN InTheCloud ELSE OnTheDisk)
       /\ req' = [req EXCEPT ![p] = IF req[p].source = "CLOUD" THEN Idle
                                    ELSE [Idle EXCEPT !.pc = "queue", !.package = k]]
  /\ count' = count + 1
  /\ UNCHANGED <<setting, jobVars, failures>>

QueueUpload(p) ==
  /\ At(p, "queue")
  /\ upload' = [upload EXCEPT ![req[p].package] = [NoJob EXCEPT !.pc = "queued", !.left = Attempts]]
  /\ Done(p)
  /\ UNCHANGED <<setting, rowVars, file, purge, failures>>

\* By the photographer, or by a manager.
Delete(p, k) ==
  /\ Live(k)
  /\ Begin(p, [Idle EXCEPT !.pc = "delete", !.package = k])
  /\ UNCHANGED <<setting, rowVars, file, jobVars, failures>>

\* Mutant: a package that is deleted already is deleted again.
DeletePackageMutant(p) ==
  /\ At(p, "delete")
  /\ package' = [package EXCEPT ![req[p].package].deleted = TRUE]
  /\ count' = count - 1
  /\ Done(p)
  /\ UNCHANGED <<setting, showcase, file, jobVars, failures>>

\* PhotoshootRepository.delete updates a row that is not deleted and, nested in it, the
\* count; when a request in between has deleted the package the update fails.
DeletePackage(p) ==
  LET k == req[p].package IN
  /\ At(p, "delete")
  /\ \/ /\ Live(k)
        /\ package' = [package EXCEPT ![k].deleted = TRUE]
        /\ count' = count - 1
     \/ ~Live(k) /\ UNCHANGED <<package, count>>
  /\ Done(p)
  /\ UNCHANGED <<setting, showcase, file, jobVars, failures>>

-----------------------------------------------------------------------------
(* Showcase photos *)

CreateShowcase(p, k) ==
  /\ setting.edits
  /\ Live(k)
  /\ Begin(p, [Idle EXCEPT !.pc = "addShowcase", !.package = k])
  /\ UNCHANGED <<setting, rowVars, file, jobVars, failures>>

\* Uploaded to the cloud, whatever the source of the package.
AddShowcase(p) ==
  /\ At(p, "addShowcase") /\ FilesLeft(1)
  /\ \E f \in NewFiles(1) : showcase' = showcase \cup
       {[id |-> f, moved |-> FALSE, package |-> req[p].package, file |-> f]}
  /\ Put(NewFiles(1), InTheCloud)
  /\ Done(p)
  /\ UNCHANGED <<setting, package, count, jobVars, failures>>

\* replaceShowcase, deleteShowcase: the file read goes first.
EditShowcase(p, r, pc) ==
  /\ setting.edits
  /\ Live(r.package)
  /\ Begin(p, [Idle EXCEPT !.pc = pc, !.package = r.package, !.row = r])
  /\ UNCHANGED <<setting, rowVars, file, jobVars, failures>>

\* The cloud does not know temporary names; deleting what is not there succeeds.
DropFile(p) ==
  LET row == req[p].row
      InCloud == row.moved \/ "temporary" \notin file[row.file] IN
  /\ At(p, "dropFile") \/ At(p, "replaceFile")
  /\ file' = [file EXCEPT ![row.file] = IF InCloud THEN @ \ {"cloud"} ELSE @]
  /\ Goto(p, IF At(p, "dropFile") THEN "dropRow" ELSE "replaceRow")
  /\ UNCHANGED <<setting, rowVars, jobVars, failures>>

DropRow(p) ==
  /\ At(p, "dropRow")
  /\ showcase' = {r \in showcase : ~(r.id = req[p].row.id /\ r.moved = req[p].row.moved)}
  /\ Done(p)
  /\ UNCHANGED <<setting, package, count, file, jobVars, failures>>

\* Mutant: the row keeps the file that was deleted.
ReplaceRowMutant(p) ==
  /\ At(p, "replaceRow") /\ FilesLeft(1)
  /\ Put(NewFiles(1), InTheCloud)
  /\ Done(p)
  /\ UNCHANGED <<setting, rowVars, jobVars, failures>>

\* A new file, then its name in the row, if the row is still there.
ReplaceRow(p) ==
  LET row == req[p].row IN
  /\ At(p, "replaceRow") /\ FilesLeft(1)
  /\ \E f \in NewFiles(1) : showcase' =
       {IF r.id = row.id /\ r.moved = row.moved THEN [r EXCEPT !.file = f] ELSE r : r \in showcase}
  /\ Put(NewFiles(1), InTheCloud)
  /\ Done(p)
  /\ UNCHANGED <<setting, package, count, jobVars, failures>>

-----------------------------------------------------------------------------
(* The job that moves a package to the cloud *)

OnDisk(F) == \A f \in F : "disk" \in file[f]

\* Mutant: a job is run once.
FailedMutant(k) == upload' = [upload EXCEPT ![k] = NoJob]

\* An attempt fails: the queue runs the job again while attempts are left.
Failed(k) ==
  upload' = [upload EXCEPT ![k] =
    IF upload[k].left > 1
    THEN [NoJob EXCEPT !.pc = "queued", !.left = upload[k].left - 1] ELSE NoJob]

\* A deleted package is not found; one in the cloud is left alone.
UploadRead(k) ==
  /\ upload[k].pc = "queued"
  /\ \/ ~Live(k) /\ Failed(k)
     \/ Live(k) /\ package[k].source = "CLOUD" /\ upload' = [upload EXCEPT ![k] = NoJob]
     \/ /\ Live(k) /\ package[k].source = "FILESYSTEM"
        /\ upload' = [upload EXCEPT ![k].pc = "read",
             ![k].files = {package[k].thumbnail} \cup {r.file : r \in ShowcasesOf(k)}]
  /\ UNCHANGED <<setting, rowVars, file, purge, req, failures>>

\* Every file is read from the disk and copied to the cloud under a new name; copies of
\* an attempt that failed are of no use to anyone.
UploadFiles(k) ==
  /\ upload[k].pc = "read"
  /\ IF OnDisk(upload[k].files)
     THEN /\ Put(upload[k].files, {"cloud"})
          /\ upload' = [upload EXCEPT ![k].pc = "uploaded"]
     ELSE Failed(k) /\ UNCHANGED file
  /\ UNCHANGED <<setting, rowVars, purge, req, failures>>

\* One update: the names, the source status, and the showcase rows: all are deleted, and
\* one created for each file that was copied.
UploadSwitch(k) ==
  /\ upload[k].pc = "uploaded"
  /\ IF Live(k)
     THEN /\ package' = [package EXCEPT ![k].source = "CLOUD"]
          /\ showcase' = (showcase \ ShowcasesOf(k)) \cup
               {[id |-> f, moved |-> TRUE, package |-> k, file |-> f] :
                  f \in upload[k].files \ {package[k].thumbnail}}
          /\ upload' = [upload EXCEPT ![k].pc = "switched"]
     ELSE Failed(k) /\ UNCHANGED <<package, showcase>>
  /\ UNCHANGED <<setting, count, file, purge, req, failures>>

QueuePurge(k) ==
  /\ upload[k].pc = "switched"
  /\ purge' = purge \cup upload[k].files
  /\ upload' = [upload EXCEPT ![k] = NoJob]
  /\ UNCHANGED <<setting, rowVars, file, req, failures>>

DeleteFileSystemPhoto(f) ==
  /\ f \in purge
  /\ file' = [file EXCEPT ![f] = @ \ {"disk"}]
  /\ purge' = purge \ {f}
  /\ UNCHANGED <<setting, rowVars, upload, req, failures>>

\* A file or the cloud cannot be reached.
UploadFails(k) ==
  /\ upload[k].pc # "none" /\ failures < MaxFailures
  /\ failures' = failures + 1
  /\ Failed(k)
  /\ UNCHANGED <<setting, rowVars, file, purge, req>>

\* A request fails or is lost with the server; its statements so far stay.
FailRequest(p) ==
  /\ ~At(p, "idle") /\ failures < MaxFailures
  /\ failures' = failures + 1
  /\ Done(p)
  /\ UNCHANGED <<setting, rowVars, file, jobVars>>

-----------------------------------------------------------------------------
PhotographerAsks(p) ==
  \/ \E source \in {"FILESYSTEM", "CLOUD"} : Create(p, source)
  \/ \E k \in PackageId : Delete(p, k)

PhotographerShows(p) ==
  \E k \in PackageId :
    \/ CreateShowcase(p, k)
    \/ \E r \in ShowcasesOf(k) : EditShowcase(p, r, "dropFile") \/ EditShowcase(p, r, "replaceFile")

Step(p) ==
  \/ InsertPackage(p) \/ QueueUpload(p) \/ DeletePackage(p) \/ AddShowcase(p)
  \/ DropFile(p) \/ DropRow(p) \/ ReplaceRow(p)

UploadStep(k) == UploadRead(k) \/ UploadFiles(k) \/ UploadSwitch(k) \/ QueuePurge(k)

Next ==
  \/ \E p \in Procs : PhotographerAsks(p) \/ PhotographerShows(p) \/ Step(p) \/ FailRequest(p)
  \/ \E k \in PackageId :
       UploadStep(k) \/ UploadFails(k)
  \/ \E f \in FileId : DeleteFileSystemPhoto(f)

\* The queue keeps running its jobs; nothing is assumed of requests.
Spec == Init /\ [][Next]_vars /\ \A k \in PackageId : WF_vars(UploadStep(k))

-----------------------------------------------------------------------------
(* Properties *)

\* The count that the quota is checked against is the number of packages, however many
\* creations and deletions run together and fail.
CountMatches == TypeOK /\ count = Cardinality({k \in PackageId : Live(k)})

\* The files of a package are where its source status says, while they move and whatever
\* attempts of the job fail half-way: the thumbnail, and in the cloud the showcase photos, unless
\* a request is about to replace or delete the row whose file it has deleted, or was lost.
ThumbnailStored ==
  \A k \in PackageId : package[k].used =>
    (IF package[k].source = "CLOUD" THEN "cloud" ELSE "disk") \in file[package[k].thumbnail]
ShowcasesStored ==
  failures = 0 => \A r \in showcase : package[r.package].source = "CLOUD" =>
    \/ "cloud" \in file[r.file]
    \/ \E p \in Procs : req[p].row = r /\ (At(p, "dropRow") \/ At(p, "replaceRow"))
FilesStored == ThumbnailStored /\ ShowcasesStored

\* A package that waits for its upload gets to the cloud although attempts fail, unless
\* it is deleted, or a showcase photo was put into the cloud before its turn.
UploadSucceeds ==
  \A k \in PackageId : upload[k].pc = "queued" /\ upload[k].left = Attempts ~>
    \/ package[k].source = "CLOUD" \/ ~Live(k)
    \/ ~OnDisk({r.file : r \in ShowcasesOf(k)})
=============================================================================
