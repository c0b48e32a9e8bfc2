---------------------------- MODULE PhotosProofs ----------------------------
(***************************************************************************)
(* Proofs about Photos, for any number of photos, requests, jobs, attempts *)
(* and failures.  Its state is conquered in layers, each of them inductive *)
(* given those before it:                                                  *)
(*   Stored    types, what a request and a job know, where files are;      *)
(*   Bounded   which requests are at which step, and the sales they can    *)
(*             still add;                                                  *)
(*   Distinct  what an upload and the search for duplicates rest on;       *)
(*   SalesOK   what is on sale, with requests one at a time;               *)
(*   UsageOK   what a request still owes to the usage.                     *)
(* After the first layer a step is only known by what it does to the       *)
(* request (lemmas ...Fields, ...Begins) and to the rows (...Rows).        *)
(***************************************************************************)
EXTENDS Photos, FiniteSetTheorems, TLAPS

(***************************************************************************)
(* Types                                                                   *)
(***************************************************************************)
UsedPhoto ==
  [status : {"PENDING", "PARSED", "DUPLICATED", "BAN"}, content : Contents,
   hashed : BOOLEAN, original : {"disk", "cloud"}, marked : Place, watermark : BOOLEAN,
   visibility : {"PUBLIC", "PRIVATE"}, deleted : BOOLEAN]
PhotoType == {FreePhoto} \cup UsedPhoto
FileType == SUBSET {"disk", "cloud", "diskMark", "cloudMark"}
JobType ==
  [kind : {"none", "UPLOAD", "PROCESS"}, left : 0..Attempts,
   pc : {"none", "queued", "copied", "new", "duplicate", "written"}]
RequestType ==
  [pc : {"idle", "compare", "create", "raise", "queue", "deleteRow", "readUsage",
         "lower", "find", "mark", "markWrite", "sell", "stop", "hide", "update"},
   kind : {"none", "memory", "disk", "owner", "manager", "sell", "view"},
   photo : PhotoId \cup {0}, content : Contents \cup {None}, seen : BOOLEAN,
   place : Place, watermark : BOOLEAN \cup {None},
   visibility : {"PUBLIC", "PRIVATE", None}, usage : Int]

\* The variables no step's success depends on.
Plain ==
  /\ setting \in Settings
  /\ selling \in [PhotoId -> Nat]
  /\ usage \in Int
  /\ bans \subseteq PhotoId /\ unbans \subseteq PhotoId
  /\ failures \in 0..setting.failures

UsedPhotos == {f \in PhotoId : Used(f)}

\* What a request that has begun knows: the content it uploads, or the photo it is about.
RequestOK(r, U) ==
  /\ r \in RequestType
  /\ r.pc \in {"compare", "create"} => r.content \in Contents /\ r.kind \in {"memory", "disk"}
  /\ r.pc \notin {"idle", "compare", "create"} => r.photo \in U
RequestsOK ==
  /\ req \in [Procs -> RequestType]
  /\ \A p \in Procs : RequestOK(req[p], UsedPhotos)

\* A job is of a photo; by the time the row says so the file is in the cloud.
JobOK(f) ==
  /\ job[f].pc # "none" => Used(f)
  /\ JobAt(f, "UPLOAD", "copied") => "cloud" \in file[f]
  /\ JobAt(f, "UPLOAD", "written") => photo[f].original = "cloud"

\* The files on the disk are deleted once the row names the cloud.
FilesOK ==
  /\ photo \in [PhotoId -> PhotoType]
  /\ file \in [PhotoId -> FileType]
  /\ job \in [PhotoId -> JobType]
  /\ purges \subseteq PhotoId
  /\ \A f \in PhotoId : Used(f) => photo[f].original \in file[f]
  /\ \A f \in purges : Used(f) /\ photo[f].original = "cloud"
  /\ \A f \in PhotoId : JobOK(f)

Stored == Plain /\ RequestsOK /\ FilesOK

-----------------------------------------------------------------------------
(* Rows, jobs and requests *)

LEMMA UsedIsTyped ==
  ASSUME FilesOK, NEW f \in PhotoId, Used(f)
  PROVE  photo[f] \in UsedPhoto
  BY DEF FilesOK, PhotoType, Used, FreePhoto

LEMMA TypedIsUsed ==
  ASSUME NEW row \in UsedPhoto PROVE row.status # "UNUSED"
  BY DEF UsedPhoto

LEMMA IdleOK == \A U : RequestOK(Idle, U)
<1>1. Idle \in RequestType
  BY DEF Idle, RequestType, Place
<1> QED
  BY <1>1 DEF RequestOK, Idle

LEMMA RequestStep ==
  ASSUME RequestsOK, NEW p \in Procs, NEW r, RequestOK(r, UsedPhotos'),
         UsedPhotos \subseteq UsedPhotos', req' = [req EXCEPT ![p] = r]
  PROVE  RequestsOK'
<1>1. req' \in [Procs -> RequestType]
  BY DEF RequestsOK, RequestOK
<1>2. ASSUME NEW q \in Procs PROVE RequestOK(req'[q], UsedPhotos')
  <2>1. CASE q = p
    BY <2>1 DEF RequestsOK
  <2>2. CASE q # p
    <3>1. req'[q] = req[q] /\ RequestOK(req[q], UsedPhotos)
      BY <2>2 DEF RequestsOK
    <3> QED
      BY <3>1 DEF RequestOK
  <2> QED
    BY <2>1, <2>2
<1> QED
  BY <1>1, <1>2 DEF RequestsOK

LEMMA DoneOK ==
  ASSUME RequestsOK, NEW p \in Procs, UsedPhotos \subseteq UsedPhotos', Done(p)
  PROVE  RequestsOK'
  BY IdleOK, RequestStep DEF Done

LEMMA RequestsSame ==
  ASSUME RequestsOK, UsedPhotos \subseteq UsedPhotos', UNCHANGED req
  PROVE  RequestsOK'
  BY DEF RequestsOK, RequestOK

LEMMA FilesSame ==
  ASSUME UNCHANGED <<photo, file, job, purges>>
  PROVE  /\ UsedPhotos' = UsedPhotos
         /\ FilesOK => FilesOK'
  BY DEF FilesOK, UsedPhotos, Used, JobOK, JobAt

\* Of a row only columns are written, and its file is where it says.
LEMMA RowStep ==
  ASSUME FilesOK, NEW f \in PhotoId, Used(f), NEW row \in UsedPhoto,
         row.original \in {photo[f].original, "cloud"}, row.original \in file'[f],
         photo' = [photo EXCEPT ![f] = row],
         file' \in [PhotoId -> FileType], \A g \in PhotoId : file[g] \subseteq file'[g],
         UNCHANGED <<job, purges>>
  PROVE  FilesOK' /\ UsedPhotos' = UsedPhotos
<1>1. photo' \in [PhotoId -> PhotoType]
  BY DEF FilesOK, PhotoType
<1>2. photo'[f] = row /\ \A g \in PhotoId : g # f => photo'[g] = photo[g]
  BY DEF FilesOK
<1>3. \A g \in PhotoId : Used(g)' <=> Used(g)
  BY <1>2, TypedIsUsed DEF Used
<1>4. \A g \in PhotoId : Used(g)' => photo'[g].original \in file'[g]
  BY <1>2, <1>3 DEF FilesOK
<1>5. \A g \in purges' : Used(g)' /\ photo'[g].original = "cloud"
  BY <1>2, <1>3 DEF FilesOK
<1>6. \A g \in PhotoId : JobOK(g)'
  <2> SUFFICES ASSUME NEW g \in PhotoId PROVE JobOK(g)'
    OBVIOUS
  <2>1. JobOK(g)
    BY DEF FilesOK
  <2>2. photo[g].original = "cloud" => photo'[g].original = "cloud"
    BY <1>2
  <2> QED
    BY <1>3, <2>1, <2>2 DEF JobOK, JobAt
<1> QED
  BY <1>1, <1>3, <1>4, <1>5, <1>6 DEF FilesOK, UsedPhotos

LEMMA RowKept ==
  ASSUME FilesOK, NEW f \in PhotoId, Used(f), NEW row \in UsedPhoto,
         row.original = photo[f].original,
         photo' = [photo EXCEPT ![f] = row],
         UNCHANGED <<file, job, purges>>
  PROVE  FilesOK' /\ UsedPhotos' = UsedPhotos
  BY RowStep DEF FilesOK

\* A step of a job.
LEMMA JobStepOK ==
  ASSUME FilesOK, NEW f \in PhotoId, Used(f), NEW j \in JobType,
         j.kind = "UPLOAD" /\ j.pc = "copied" => "cloud" \in file'[f],
         j.kind = "UPLOAD" /\ j.pc = "written" => photo[f].original = "cloud",
         job' = [job EXCEPT ![f] = j],
         file' \in [PhotoId -> FileType], \A g \in PhotoId : file[g] \subseteq file'[g],
         UNCHANGED <<photo, purges>>
  PROVE  FilesOK' /\ UsedPhotos' = UsedPhotos
<1>1. job' \in [PhotoId -> JobType] /\ job'[f] = j /\ \A g \in PhotoId : g # f => job'[g] = job[g]
  BY DEF FilesOK
<1>2. \A g \in PhotoId : Used(g)' <=> Used(g)
  BY DEF Used
<1>3. ASSUME NEW g \in PhotoId PROVE JobOK(g)'
  <2>1. CASE g = f
    BY <1>1, <1>2, <2>1 DEF JobOK, JobAt
  <2>2. CASE g # f
    <3>1. JobOK(g)
      BY DEF FilesOK
    <3> QED
      BY <1>1, <1>2, <2>2, <3>1 DEF JobOK, JobAt
  <2> QED
    BY <2>1, <2>2
<1> QED
  BY <1>1, <1>2, <1>3 DEF FilesOK, UsedPhotos

LEMMA NoJobTyped == NoJob \in JobType /\ NoJob.pc = "none" /\ NoJob.kind = "none"
  BY PhotosAssumption DEF NoJob, JobType

LEMMA FailedTyped ==
  ASSUME NEW j \in JobType, j.left > 1
  PROVE  [j EXCEPT !.pc = "queued", !.left = @ - 1] \in JobType
<1>1. j.left - 1 \in 0..Attempts
  BY PhotosAssumption DEF JobType
<1> QED
  BY <1>1 DEF JobType

\* A job that fails is queued again or given up.
LEMMA FailedOK ==
  ASSUME FilesOK, NEW f \in PhotoId, job[f].pc # "none", Failed(f), UNCHANGED <<photo, file, purges>>
  PROVE  FilesOK' /\ UsedPhotos' = UsedPhotos
<1>0. Used(f) /\ job[f] \in JobType
  BY DEF FilesOK, JobOK
<1>1. CASE job[f].left > 1
  <2> DEFINE j == [job[f] EXCEPT !.pc = "queued", !.left = @ - 1]
  <2>1. j \in JobType /\ j.pc = "queued"
    BY <1>0, <1>1, FailedTyped DEF JobType
  <2>2. job' = [job EXCEPT ![f] = j]
    BY <1>1 DEF Failed
  <2> HIDE DEF j
  <2> QED
    BY <1>0, <2>1, <2>2, JobStepOK DEF FilesOK
<1>2. CASE ~(job[f].left > 1)
  <2>1. job' = [job EXCEPT ![f] = NoJob]
    BY <1>2 DEF Failed
  <2> QED
    BY <1>0, <2>1, NoJobTyped, JobStepOK DEF FilesOK
<1> QED
  BY <1>1, <1>2

LEMMA JobGotoOK ==
  ASSUME FilesOK, NEW f \in PhotoId, Used(f),
         NEW pc \in {"none", "queued", "copied", "new", "duplicate", "written"},
         JobGoto(f, pc), pc = "copied" => "cloud" \in file'[f],
         job[f].kind = "UPLOAD" /\ pc = "written" => photo[f].original = "cloud",
         file' \in [PhotoId -> FileType], \A g \in PhotoId : file[g] \subseteq file'[g],
         UNCHANGED <<photo, purges>>
  PROVE  FilesOK' /\ UsedPhotos' = UsedPhotos
<1> DEFINE j == [job[f] EXCEPT !.pc = pc]
<1>0. job[f] \in JobType
  BY DEF FilesOK
<1>1. j \in JobType /\ j.pc = pc /\ j.kind = job[f].kind
  BY <1>0 DEF JobType
<1>2. job' = [job EXCEPT ![f] = j]
  BY DEF JobGoto
<1> HIDE DEF j
<1> QED
  BY <1>1, <1>2, JobStepOK

-----------------------------------------------------------------------------
(* What the steps of a request share *)

LEMMA RequestAt ==
  ASSUME RequestsOK, NEW p \in Procs
  PROVE  /\ RequestOK(req[p], UsedPhotos) /\ req[p] \in RequestType
         /\ req[p].pc \notin {"idle", "compare", "create"} => req[p].photo \in PhotoId /\ Used(req[p].photo)
  BY DEF RequestsOK, RequestOK, UsedPhotos

LEMMA RequestOnly ==
  ASSUME Stored, NEW p \in Procs, NEW r, RequestOK(r, UsedPhotos), req' = [req EXCEPT ![p] = r],
         Plain', UNCHANGED <<photo, file, job, purges>>
  PROVE  Stored'
<1>1. FilesOK' /\ UsedPhotos' = UsedPhotos
  BY FilesSame DEF Stored
<1>2. RequestsOK'
  BY <1>1, RequestStep DEF Stored
<1> QED
  BY <1>1, <1>2 DEF Stored

LEMMA DoneOnly ==
  ASSUME Stored, NEW p \in Procs, Done(p), Plain', UNCHANGED <<photo, file, job, purges>>
  PROVE  Stored'
  BY IdleOK, RequestOnly DEF Done

Working == {"deleteRow", "readUsage", "lower", "find", "mark", "markWrite", "sell", "stop", "hide", "update"}

LEMMA GotoOK ==
  ASSUME NEW U, NEW r, RequestOK(r, U), r.pc # "idle",
         NEW pc \in Working \cup {"create", "queue"},
         pc # "create" => r.pc \notin {"idle", "compare", "create"},
         pc = "create" => r.pc = "compare"
  PROVE  RequestOK([r EXCEPT !.pc = pc], U)
<1> DEFINE s == [r EXCEPT !.pc = pc]
<1>1. r \in RequestType
  BY DEF RequestOK
<1>2. s \in RequestType
  BY <1>1 DEF RequestType, Working
<1>3. s.pc = pc /\ s.photo = r.photo /\ s.content = r.content /\ s.kind = r.kind
  BY <1>1 DEF RequestType
<1> HIDE DEF s
<1>4. RequestOK(s, U)
  BY <1>2, <1>3 DEF RequestOK, Working
<1> QED
  BY <1>4 DEF s

LEMMA GotoOnly ==
  ASSUME Stored, NEW p \in Procs, req[p].pc # "idle", NEW pc \in Working \cup {"create", "queue"},
         pc # "create" => req[p].pc \notin {"idle", "compare", "create"},
         pc = "create" => req[p].pc = "compare",
         Goto(p, pc), Plain', UNCHANGED <<photo, file, job, purges>>
  PROVE  Stored'
<1> DEFINE r == [req[p] EXCEPT !.pc = pc]
<1>1. RequestOK(r, UsedPhotos)
  BY RequestAt, GotoOK DEF Stored
<1>2. req' = [req EXCEPT ![p] = r]
  BY DEF Goto
<1> HIDE DEF r
<1> QED
  BY <1>1, <1>2, RequestOnly

\* A request that begins about a photo.
Begun(r, f) == r \in RequestType /\ r.pc \in Working /\ r.photo = f

LEMMA BeginOK ==
  ASSUME Stored, NEW p \in Procs, NEW f \in PhotoId, Used(f), NEW r, Begun(r, f),
         req' = [req EXCEPT ![p] = r], Plain', UNCHANGED <<photo, file, job, purges>>
  PROVE  Stored'
<1>1. RequestOK(r, UsedPhotos)
  BY DEF Begun, RequestOK, Working, UsedPhotos
<1> QED
  BY <1>1, RequestOnly

LEMMA IdleTyped == Idle \in RequestType
  BY DEF Idle, RequestType, Place

-----------------------------------------------------------------------------
(* Uploading *)

LEMMA UploadStored ==
  ASSUME Stored, NEW p \in Procs, NEW way \in {"memory", "disk"}, NEW c \in Contents, Upload(p, way, c)
  PROVE  Stored'
<1> DEFINE r == [Idle EXCEPT !.pc = "compare", !.kind = way, !.content = c]
<1>1. r \in RequestType /\ r.pc = "compare" /\ r.kind = way /\ r.content = c
  BY IdleTyped DEF Idle, RequestType
<1>2. req' = [req EXCEPT ![p] = r]
  BY DEF Upload, Begin
<1> HIDE DEF r
<1>3. RequestOK(r, UsedPhotos)
  BY <1>1 DEF RequestOK
<1>4. Plain'
  BY DEF Upload, Stored, Plain, jobVars
<1> QED
  BY <1>2, <1>3, <1>4, RequestOnly DEF Upload, jobVars

LEMMA CompareHashStored ==
  ASSUME Stored, NEW p \in Procs, CompareHash(p) PROVE Stored'
<1>1. Plain'
  BY DEF CompareHash, Stored, Plain, jobVars
<1>2. UNCHANGED <<photo, file, job, purges>> /\ req[p].pc = "compare"
  BY DEF CompareHash, jobVars, At
<1>3. CASE Done(p)
  BY <1>1, <1>2, <1>3, DoneOnly
<1>4. CASE Goto(p, "create")
  BY <1>1, <1>2, <1>4, GotoOnly
<1> QED
  BY <1>3, <1>4 DEF CompareHash

LEMMA CreatePhotoStored ==
  ASSUME Stored, NEW p \in Procs, CreatePhoto(p) PROVE Stored'
<1> DEFINE memory == req[p].kind = "memory"
           place == IF memory THEN "cloud" ELSE "disk"
<1>1. /\ req[p].pc = "create" /\ req[p] \in RequestType /\ req[p].content \in Contents
  BY RequestAt DEF CreatePhoto, At, Stored, RequestOK
<1>2. PICK f \in 1..setting.photos :
        /\ ~Used(f)
        /\ photo' = [photo EXCEPT ![f] =
             [FreePhoto EXCEPT !.status = IF memory THEN "PARSED" ELSE "PENDING",
                !.content = req[p].content, !.hashed = ~memory, !.original = place]]
        /\ file' = [file EXCEPT ![f] = {place}]
        /\ req' = [req EXCEPT ![p] = [@ EXCEPT !.pc = "raise", !.photo = f]]
  BY DEF CreatePhoto
<1>3. f \in PhotoId
  <2>1. setting.photos \in 0..MaxPhotos
    BY PhotosAssumption DEF Stored, Plain
  <2> QED
    BY <2>1, PhotosAssumption DEF PhotoId
<1> DEFINE row == [FreePhoto EXCEPT !.status = IF memory THEN "PARSED" ELSE "PENDING",
                     !.content = req[p].content, !.hashed = ~memory, !.original = place]
           r == [req[p] EXCEPT !.pc = "raise", !.photo = f]
<1>4. row \in UsedPhoto /\ row.original = place
  <2>1. row \in UsedPhoto
    <3>1. (IF memory THEN "PARSED" ELSE "PENDING") \in {"PENDING", "PARSED", "DUPLICATED", "BAN"}
      OBVIOUS
    <3>2. place \in {"disk", "cloud"} /\ (~memory) \in BOOLEAN
      OBVIOUS
    <3> HIDE DEF place, memory
    <3> QED
      BY <1>1, <3>1, <3>2 DEF FreePhoto, UsedPhoto, Place
  <2> HIDE DEF place, memory
  <2>2. row.original = place
    BY DEF FreePhoto
  <2> QED
    BY <2>1, <2>2
<1>5. r \in RequestType /\ r.pc = "raise" /\ r.photo = f
  BY <1>1, <1>3 DEF RequestType
<1>6. place \in {"disk", "cloud"}
  OBVIOUS
<1>7. photo' = [photo EXCEPT ![f] = row] /\ file' = [file EXCEPT ![f] = {place}] /\ req' = [req EXCEPT ![p] = r]
  BY <1>2
<1> HIDE DEF row, r, place, memory
<1>8. job' = job /\ purges' = purges
  BY DEF CreatePhoto, jobVars
<1>9. photo' \in [PhotoId -> PhotoType] /\ file' \in [PhotoId -> FileType]
  BY <1>4, <1>6, <1>7 DEF Stored, FilesOK, PhotoType, FileType
<1>10. photo'[f] = row /\ file'[f] = {place}
       /\ \A g \in PhotoId : g # f => photo'[g] = photo[g] /\ file'[g] = file[g]
  BY <1>3, <1>7 DEF Stored, FilesOK
<1>11. Used(f)' /\ \A g \in PhotoId : Used(g) => Used(g)' /\ photo'[g] = photo[g] /\ file'[g] = file[g]
  BY <1>2, <1>4, <1>10, TypedIsUsed DEF Used
<1>12. FilesOK'
  <2>1. \A g \in PhotoId : Used(g)' => photo'[g].original \in file'[g]
    <3> SUFFICES ASSUME NEW g \in PhotoId, Used(g)' PROVE photo'[g].original \in file'[g]
      OBVIOUS
    <3>1. CASE g = f
      BY <1>4, <1>10, <3>1
    <3>2. CASE g # f
      <4>1. Used(g)
        BY <1>10, <3>2 DEF Used
      <4> QED
        BY <4>1, <1>11 DEF Stored, FilesOK
    <3> QED
      BY <3>1, <3>2
  <2>2. \A g \in purges' : Used(g)' /\ photo'[g].original = "cloud"
    BY <1>8, <1>11 DEF Stored, FilesOK
  <2>3. \A g \in PhotoId : JobOK(g)'
    <3> SUFFICES ASSUME NEW g \in PhotoId PROVE JobOK(g)'
      OBVIOUS
    <3>1. JobOK(g)
      BY DEF Stored, FilesOK
    <3>2. CASE Used(g)
      BY <3>1, <3>2, <1>8, <1>11 DEF JobOK, JobAt
    <3>3. CASE ~Used(g)
      BY <3>1, <3>3, <1>8 DEF JobOK, JobAt
    <3> QED
      BY <3>2, <3>3
  <2>4. job' \in [PhotoId -> JobType] /\ purges' \subseteq PhotoId
    BY <1>8 DEF Stored, FilesOK
  <2> QED
    BY <1>9, <2>1, <2>2, <2>3, <2>4 DEF FilesOK
<1>13. UsedPhotos \subseteq UsedPhotos' /\ f \in UsedPhotos'
  BY <1>3, <1>11 DEF UsedPhotos
<1>14. RequestOK(r, UsedPhotos')
  BY <1>5, <1>13 DEF RequestOK
<1>15. RequestsOK'
  BY <1>7, <1>13, <1>14, RequestStep DEF Stored
<1>16. Plain'
  BY DEF CreatePhoto, Stored, Plain, jobVars
<1> QED
  BY <1>12, <1>15, <1>16 DEF Stored

LEMMA RaiseUsageStored ==
  ASSUME Stored, NEW p \in Procs, RaiseUsage(p) PROVE Stored'
<1>1. Plain'
  BY DEF RaiseUsage, Stored, Plain, jobVars
<1> QED
  BY <1>1, GotoOnly DEF RaiseUsage, jobVars, At

LEMMA QueueJobStored ==
  ASSUME Stored, NEW p \in Procs, QueueJob(p) PROVE Stored'
<1> DEFINE f == req[p].photo
           kind == IF req[p].kind = "memory" THEN "PROCESS" ELSE "UPLOAD"
           j == [kind |-> kind, pc |-> "queued", left |-> Attempts]
<1>1. f \in PhotoId /\ Used(f)
  BY RequestAt DEF QueueJob, At, Stored
<1>2. kind \in {"UPLOAD", "PROCESS"}
  OBVIOUS
<1>3. job' = [job EXCEPT ![f] = j]
  BY DEF QueueJob
<1> HIDE DEF f, kind
<1>4. j \in JobType /\ j.pc = "queued"
  BY <1>2, PhotosAssumption DEF JobType
<1> HIDE DEF j
<1>5. FilesOK' /\ UsedPhotos' = UsedPhotos
  BY <1>1, <1>3, <1>4, JobStepOK DEF QueueJob, Stored, FilesOK
<1>6. RequestsOK'
  BY <1>5, DoneOK DEF QueueJob, Stored
<1>7. Plain'
  BY DEF QueueJob, Stored, Plain
<1> QED
  BY <1>5, <1>6, <1>7 DEF Stored

-----------------------------------------------------------------------------
(* The jobs *)

LEMMA QueueOnly ==
  ASSUME Stored, FilesOK', UsedPhotos' = UsedPhotos, Plain', req' = req
  PROVE  Stored'
  BY RequestsSame DEF Stored

LEMMA UploadCopyStored ==
  ASSUME Stored, NEW f \in PhotoId, UploadCopy(f) PROVE Stored'
<1>1. Plain'
  BY DEF UploadCopy, Stored, Plain, jobVars
<1>2. Used(f) /\ job[f].pc # "none" /\ FilesOK
  BY DEF UploadCopy, JobAt, Stored, FilesOK, JobOK
<1>3. UNCHANGED <<photo, purges, req>>
  BY DEF UploadCopy
<1>4. CASE file' = [file EXCEPT ![f] = @ \cup {"cloud", "cloudMark"}] /\ JobGoto(f, "copied")
  <2>1. file' \in [PhotoId -> FileType] /\ "cloud" \in file'[f]
    BY <1>2, <1>4 DEF FilesOK, FileType
  <2>2. \A g \in PhotoId : file[g] \subseteq file'[g]
    BY <1>2, <1>4 DEF FilesOK
  <2>3. FilesOK' /\ UsedPhotos' = UsedPhotos
    BY <1>2, <1>3, <1>4, <2>1, <2>2, JobGotoOK
  <2> QED
    BY <1>1, <1>3, <2>3, QueueOnly
<1>5. CASE Failed(f) /\ UNCHANGED file
  BY <1>1, <1>2, <1>3, <1>5, FailedOK, QueueOnly
<1> QED
  BY <1>4, <1>5 DEF UploadCopy

LEMMA UploadWriteStored ==
  ASSUME Stored, NEW f \in PhotoId, UploadWrite(f) PROVE Stored'
<1>1. Plain'
  BY DEF UploadWrite, Stored, Plain, jobVars
<1>2. Used(f) /\ job[f].pc # "none" /\ FilesOK /\ "cloud" \in file[f]
  BY DEF UploadWrite, JobAt, Stored, FilesOK, JobOK
<1>3. UNCHANGED <<file, purges, req>>
  BY DEF UploadWrite
<1>4. CASE Failed(f) /\ UNCHANGED photo
  BY <1>1, <1>2, <1>3, <1>4, FailedOK, QueueOnly
<1>5. CASE /\ photo' = [photo EXCEPT ![f] = [@ EXCEPT !.status = "PARSED",
                                              !.original = "cloud", !.marked = "cloud"]]
           /\ JobGoto(f, "written")
  <2> DEFINE row == [photo[f] EXCEPT !.status = "PARSED", !.original = "cloud", !.marked = "cloud"]
             j == [job[f] EXCEPT !.pc = "written"]
  <2>1. photo[f] \in UsedPhoto
    BY <1>2, UsedIsTyped
  <2>2. row \in UsedPhoto /\ row.original = "cloud"
    BY <2>1 DEF UsedPhoto, Place
  <2>3. j \in JobType /\ j.pc = "written"
    BY <1>2 DEF FilesOK, JobType
  <2>4. photo' = [photo EXCEPT ![f] = row] /\ job' = [job EXCEPT ![f] = j]
    BY <1>5 DEF JobGoto
  <2> HIDE DEF row, j
  <2>5. photo' \in [PhotoId -> PhotoType] /\ job' \in [PhotoId -> JobType]
    BY <1>2, <2>2, <2>3, <2>4 DEF FilesOK, PhotoType
  <2>6. photo'[f] = row /\ job'[f] = j
        /\ \A g \in PhotoId : g # f => photo'[g] = photo[g] /\ job'[g] = job[g]
    BY <1>2, <2>4 DEF FilesOK
  <2>7. \A g \in PhotoId : Used(g)' <=> Used(g)
    BY <1>2, <2>2, <2>6, TypedIsUsed DEF Used
  <2>8. \A g \in PhotoId : Used(g)' => photo'[g].original \in file'[g]
    BY <1>2, <1>3, <2>2, <2>6, <2>7 DEF FilesOK
  <2>9. \A g \in purges' : Used(g)' /\ photo'[g].original = "cloud"
    BY <1>2, <1>3, <2>2, <2>6, <2>7 DEF FilesOK
  <2>10. ASSUME NEW g \in PhotoId PROVE JobOK(g)'
    <3>1. CASE g = f
      BY <3>1, <1>2, <2>2, <2>3, <2>6, <2>7 DEF JobOK, JobAt
    <3>2. CASE g # f
      <4>1. JobOK(g)
        BY <1>2 DEF FilesOK
      <4> QED
        BY <3>2, <4>1, <1>3, <2>6, <2>7 DEF JobOK, JobAt
    <3> QED
      BY <3>1, <3>2
  <2>11. FilesOK'
    BY <1>2, <1>3, <2>5, <2>8, <2>9, <2>10 DEF FilesOK
  <2>12. UsedPhotos' = UsedPhotos
    BY <2>7 DEF UsedPhotos
  <2> QED
    BY <1>1, <1>3, <2>11, <2>12, QueueOnly
<1> QED
  BY <1>4, <1>5 DEF UploadWrite

LEMMA UploadEndStored ==
  ASSUME Stored, NEW f \in PhotoId, UploadEnd(f) PROVE Stored'
<1>1. Plain'
  BY DEF UploadEnd, Stored, Plain, jobVars
<1>2. Used(f) /\ photo[f].original = "cloud" /\ FilesOK
  BY DEF UploadEnd, JobAt, Stored, FilesOK, JobOK
<1>3. UNCHANGED <<photo, file, req>> /\ purges' = purges \cup {f} /\ job' = [job EXCEPT ![f] = NoJob]
  BY DEF UploadEnd
<1>4. \A g \in PhotoId : (Used(g)' <=> Used(g)) /\ photo'[g] = photo[g] /\ file'[g] = file[g]
  BY <1>3 DEF Used
<1>5. job' \in [PhotoId -> JobType] /\ job'[f].pc = "none" /\ \A g \in PhotoId : g # f => job'[g] = job[g]
  BY <1>2, <1>3, NoJobTyped DEF FilesOK
<1>6. ASSUME NEW g \in PhotoId PROVE JobOK(g)'
  <2>1. JobOK(g)
    BY <1>2 DEF FilesOK
  <2> QED
    BY <1>4, <1>5, <2>1 DEF JobOK, JobAt
<1>7. \A g \in purges' : g \in PhotoId /\ Used(g)' /\ photo'[g].original = "cloud"
  BY <1>2, <1>3, <1>4 DEF FilesOK
<1>8. FilesOK'
  <2>1. \A g \in PhotoId : Used(g)' => photo'[g].original \in file'[g]
    BY <1>2, <1>4 DEF FilesOK
  <2>2. photo' \in [PhotoId -> PhotoType] /\ file' \in [PhotoId -> FileType] /\ purges' \subseteq PhotoId
    BY <1>2, <1>3, <1>7 DEF FilesOK
  <2> QED
    BY <1>5, <1>6, <1>7, <2>1, <2>2 DEF FilesOK
<1>9. UsedPhotos' = UsedPhotos
  BY <1>4 DEF UsedPhotos
<1> QED
  BY <1>1, <1>3, <1>8, <1>9, QueueOnly

LEMMA ProcessCompareStored ==
  ASSUME Stored, NEW f \in PhotoId, ProcessCompare(f) PROVE Stored'
<1>1. Plain'
  BY DEF ProcessCompare, Stored, Plain, jobVars
<1>2. Used(f) /\ job[f].pc # "none" /\ FilesOK /\ job[f].kind = "PROCESS"
  BY DEF ProcessCompare, JobAt, Stored, FilesOK, JobOK
<1>3. UNCHANGED <<photo, file, purges, req>>
  BY DEF ProcessCompare
<1>4. CASE Failed(f)
  BY <1>1, <1>2, <1>3, <1>4, FailedOK, QueueOnly
<1>5. ASSUME NEW pc \in {"new", "duplicate"}, JobGoto(f, pc) PROVE Stored'
  <2>1. file' \in [PhotoId -> FileType] /\ \A g \in PhotoId : file[g] \subseteq file'[g]
    BY <1>2, <1>3 DEF FilesOK
  <2>2. FilesOK' /\ UsedPhotos' = UsedPhotos
    BY <1>2, <1>3, <1>5, <2>1, JobGotoOK
  <2> QED
    BY <1>1, <1>3, <2>2, QueueOnly
<1> QED
  BY <1>4, <1>5 DEF ProcessCompare

LEMMA ProcessWriteStored ==
  ASSUME Stored, NEW f \in PhotoId, ProcessWrite(f) PROVE Stored'
<1>1. Plain'
  BY DEF ProcessWrite, Stored, Plain, jobVars
<1>2. Used(f) /\ job[f].pc # "none" /\ FilesOK /\ job[f].kind = "PROCESS"
  BY DEF ProcessWrite, JobAt, Stored, FilesOK, JobOK
<1>3. UNCHANGED <<file, purges, req>>
  BY DEF ProcessWrite
<1>4. CASE Failed(f) /\ UNCHANGED photo
  BY <1>1, <1>2, <1>3, <1>4, FailedOK, QueueOnly
<1>5. ASSUME NEW row \in UsedPhoto, row.original = photo[f].original,
             photo' = [photo EXCEPT ![f] = row], JobGoto(f, "written")
      PROVE  Stored'
  <2> DEFINE j == [job[f] EXCEPT !.pc = "written"]
  <2>1. j \in JobType /\ j.kind = "PROCESS" /\ job' = [job EXCEPT ![f] = j]
    BY <1>2, <1>5 DEF FilesOK, JobType, JobGoto
  <2> HIDE DEF j
  <2>5. photo' \in [PhotoId -> PhotoType] /\ job' \in [PhotoId -> JobType]
    BY <1>2, <1>5, <2>1 DEF FilesOK, PhotoType
  <2>6. photo'[f] = row /\ job'[f] = j
        /\ \A g \in PhotoId : g # f => photo'[g] = photo[g] /\ job'[g] = job[g]
    BY <1>2, <1>5, <2>1 DEF FilesOK
  <2>7. \A g \in PhotoId : (Used(g)' <=> Used(g)) /\ photo'[g].original = photo[g].original
    BY <1>2, <1>5, <2>6, TypedIsUsed DEF Used
  <2>8. \A g \in PhotoId : Used(g)' => photo'[g].original \in file'[g]
    BY <1>2, <1>3, <2>7 DEF FilesOK
  <2>9. \A g \in purges' : Used(g)' /\ photo'[g].original = "cloud"
    BY <1>2, <1>3, <2>7 DEF FilesOK
  <2>10. ASSUME NEW g \in PhotoId PROVE JobOK(g)'
    <3>1. CASE g = f
      BY <3>1, <1>2, <2>1, <2>6, <2>7 DEF JobOK, JobAt
    <3>2. CASE g # f
      <4>1. JobOK(g)
        BY <1>2 DEF FilesOK
      <4> QED
        BY <3>2, <4>1, <1>3, <2>6, <2>7 DEF JobOK, JobAt
    <3> QED
      BY <3>1, <3>2
  <2>11. FilesOK'
    BY <1>2, <1>3, <2>5, <2>8, <2>9, <2>10 DEF FilesOK
  <2>12. UsedPhotos' = UsedPhotos
    BY <2>7 DEF UsedPhotos
  <2> QED
    BY <1>1, <1>3, <2>11, <2>12, QueueOnly
<1>6. photo[f] \in UsedPhoto
  BY <1>2, UsedIsTyped
<1>7. CASE Live(f) /\ job[f].pc = "new"
  <2> DEFINE row == [photo[f] EXCEPT !.hashed = TRUE]
  <2>1. row \in UsedPhoto /\ row.original = photo[f].original
    BY <1>6 DEF UsedPhoto
  <2>2. photo' = [photo EXCEPT ![f] = row] /\ JobGoto(f, "written")
    BY <1>7 DEF ProcessWrite
  <2> HIDE DEF row
  <2> QED
    BY <1>5, <2>1, <2>2
<1>8. CASE Live(f) /\ job[f].pc # "new"
  <2> DEFINE row == [photo[f] EXCEPT !.status = "DUPLICATED", !.visibility = "PRIVATE"]
  <2>1. row \in UsedPhoto /\ row.original = photo[f].original
    BY <1>6 DEF UsedPhoto
  <2>2. photo' = [photo EXCEPT ![f] = row] /\ JobGoto(f, "written")
    BY <1>8 DEF ProcessWrite
  <2> HIDE DEF row
  <2> QED
    BY <1>5, <2>1, <2>2
<1> QED
  BY <1>4, <1>7, <1>8 DEF ProcessWrite

LEMMA ProcessEndStored ==
  ASSUME Stored, NEW f \in PhotoId, ProcessEnd(f) PROVE Stored'
<1>1. Plain'
  BY DEF ProcessEnd, Stored, Plain, jobVars
<1>2. Used(f) /\ FilesOK
  BY DEF ProcessEnd, JobAt, Stored, FilesOK, JobOK
<1>3. UNCHANGED <<photo, file, purges, req>> /\ job' = [job EXCEPT ![f] = NoJob]
  BY DEF ProcessEnd
<1>4. FilesOK' /\ UsedPhotos' = UsedPhotos
  BY <1>2, <1>3, NoJobTyped, JobStepOK DEF FilesOK
<1> QED
  BY <1>1, <1>3, <1>4, QueueOnly

LEMMA JobFailsStored ==
  ASSUME Stored, NEW f \in PhotoId, JobFails(f) PROVE Stored'
<1>1. Plain'
  <2>1. failures + 1 \in 0..setting.failures
    BY PhotosAssumption DEF JobFails, Stored, Plain
  <2> QED
    BY <2>1 DEF JobFails, Stored, Plain
<1>2. FilesOK' /\ UsedPhotos' = UsedPhotos
  BY FailedOK DEF JobFails, Stored
<1> QED
  BY <1>1, <1>2, QueueOnly DEF JobFails

LEMMA PurgeStored ==
  ASSUME Stored, NEW f \in PhotoId, Purge(f) PROVE Stored'
<1>1. Plain'
  BY DEF Purge, Stored, Plain, jobVars
<1>2. FilesOK /\ f \in purges /\ photo[f].original = "cloud"
  BY DEF Purge, Stored, FilesOK
<1>3. UNCHANGED <<photo, job, req>> /\ purges' = purges \ {f}
      /\ file' = [file EXCEPT ![f] = @ \ {"disk", "diskMark"}]
  BY DEF Purge
<1>4. file' \in [PhotoId -> FileType]
  BY <1>2, <1>3 DEF FilesOK, FileType
<1>5. \A g \in PhotoId : ("cloud" \in file[g] => "cloud" \in file'[g]) /\ (g # f => file'[g] = file[g])
  BY <1>2, <1>3 DEF FilesOK
<1>6. \A g \in PhotoId : Used(g)' => photo'[g].original \in file'[g]
  <2>1. \A g \in PhotoId : Used(g) => photo[g].original \in file[g]
    BY <1>2 DEF FilesOK
  <2> QED
    BY <1>2, <1>3, <1>5, <2>1 DEF Used
<1>7. \A g \in PhotoId : JobOK(g)'
  BY <1>2, <1>3, <1>5 DEF FilesOK, JobOK, JobAt, Used
<1>8. FilesOK' /\ UsedPhotos' = UsedPhotos
  BY <1>2, <1>3, <1>4, <1>6, <1>7 DEF FilesOK, UsedPhotos, Used
<1> QED
  BY <1>1, <1>3, <1>8, QueueOnly

-----------------------------------------------------------------------------
(* Bans *)

LEMMA SetStatusOK ==
  ASSUME Stored, NEW f \in PhotoId, NEW status \in {"BAN", "PARSED"}, SetStatus(f, status),
         Plain', UNCHANGED <<file, job, purges, req>>
  PROVE  Stored'
<1>1. FilesOK
  BY DEF Stored
<1>2. CASE Live(f)
  <2> DEFINE row == [photo[f] EXCEPT !.status = status]
  <2>0. Used(f)
    BY <1>2 DEF Live
  <2>1. row \in UsedPhoto /\ row.original = photo[f].original
    BY <1>1, <2>0, UsedIsTyped DEF UsedPhoto
  <2>2. photo' = [photo EXCEPT ![f] = row]
    BY <1>2 DEF SetStatus
  <2> HIDE DEF row
  <2>3. FilesOK' /\ UsedPhotos' = UsedPhotos
    BY <1>1, <2>0, <2>1, <2>2, RowKept
  <2> QED
    BY <2>3, QueueOnly
<1>3. CASE ~Live(f)
  <2>0. photo[f] \in PhotoType
    BY <1>1 DEF FilesOK
  <2>1. [photo[f] EXCEPT !.status = photo[f].status] = photo[f]
    BY <2>0 DEF PhotoType, UsedPhoto, FreePhoto
  <2>2. photo' = [photo EXCEPT ![f] = [photo[f] EXCEPT !.status = photo[f].status]]
    BY <1>3 DEF SetStatus
  <2>3. photo' = photo
    BY <1>1, <2>1, <2>2 DEF FilesOK
  <2> QED
    BY <2>3, <1>1, FilesSame, QueueOnly
<1> QED
  BY <1>2, <1>3

LEMMA BansStored ==
  ASSUME Stored, NEW f \in PhotoId, Ban(f) \/ Unban(f) \/ BanPhoto(f) \/ UnbanPhoto(f)
  PROVE  Stored'
<1>1. Plain'
  BY DEF Ban, Unban, BanPhoto, UnbanPhoto, Stored, Plain
<1>2. CASE Ban(f) \/ Unban(f)
  BY <1>1, <1>2, FilesSame, QueueOnly DEF Ban, Unban, Stored
<1>3. CASE BanPhoto(f)
  BY <1>1, <1>3, SetStatusOK DEF BanPhoto
<1>4. CASE UnbanPhoto(f)
  BY <1>1, <1>4, SetStatusOK DEF UnbanPhoto
<1> QED
  BY <1>2, <1>3, <1>4

-----------------------------------------------------------------------------
(* Deleting *)

LEMMA DeleteStored ==
  ASSUME Stored, NEW p \in Procs, NEW f \in PhotoId, NEW who \in {"owner", "manager"}, Delete(p, f, who)
  PROVE  Stored'
<1> DEFINE pc == IF who = "owner" THEN "deleteRow" ELSE "readUsage"
           r == [Idle EXCEPT !.pc = pc, !.kind = who, !.photo = f]
<1>1. pc \in {"deleteRow", "readUsage"} /\ req' = [req EXCEPT ![p] = r]
  BY DEF Delete, Begin
<1> HIDE DEF pc
<1>2. r \in RequestType
  BY <1>1, IdleTyped DEF RequestType
<1>3. r.pc = pc /\ r.photo = f
  BY DEF Idle
<1> HIDE DEF r
<1>4. Begun(r, f)
  BY <1>1, <1>2, <1>3 DEF Begun, Working
<1>5. Plain' /\ Used(f) /\ UNCHANGED <<photo, file, job, purges>>
  BY DEF Delete, Stored, Plain, jobVars, Live
<1> QED
  BY <1>1, <1>4, <1>5, BeginOK

\* A request goes on or ends after a write to a photo.
LEMMA GoesOn ==
  ASSUME Stored, FilesOK', UsedPhotos' = UsedPhotos, Plain', NEW p \in Procs,
         Done(p) \/ \E pc \in Working : Goto(p, pc) /\ req[p].pc \notin {"idle", "compare", "create"}
  PROVE  Stored'
<1>1. CASE Done(p)
  BY <1>1, DoneOK DEF Stored
<1>2. ASSUME NEW pc \in Working, Goto(p, pc), req[p].pc \notin {"idle", "compare", "create"}
      PROVE  RequestsOK'
  <2> DEFINE r == [req[p] EXCEPT !.pc = pc]
  <2>1. RequestOK(r, UsedPhotos)
    BY <1>2, RequestAt, GotoOK DEF Stored, Working
  <2>2. req' = [req EXCEPT ![p] = r]
    BY <1>2 DEF Goto
  <2> HIDE DEF r
  <2> QED
    BY <2>1, <2>2, RequestStep DEF Stored
<1> QED
  BY <1>1, <1>2 DEF Stored

LEMMA DeleteRowStored ==
  ASSUME Stored, NEW p \in Procs, DeleteRow(p) PROVE Stored'
<1> DEFINE f == req[p].photo
<1>1. f \in PhotoId /\ Used(f) /\ req[p].pc = "deleteRow" /\ FilesOK
  BY RequestAt DEF DeleteRow, At, Stored
<1>2. Plain'
  BY <1>1 DEF DeleteRow, Stored, Plain, jobVars
<1>3. CASE ~Live(f) /\ Done(p) /\ UNCHANGED <<photo, selling>>
  BY <1>2, <1>3, DoneOnly DEF DeleteRow, jobVars
<1>4. CASE /\ photo' = [photo EXCEPT ![f].deleted = TRUE]
           /\ IF req[p].kind = "owner" THEN Goto(p, "readUsage") ELSE Done(p)
  <2> DEFINE row == [photo[f] EXCEPT !.deleted = TRUE]
  <2>1. row \in UsedPhoto /\ row.original = photo[f].original
    BY <1>1, UsedIsTyped DEF UsedPhoto
  <2>2. photo' = [photo EXCEPT ![f] = row]
    BY <1>4
  <2> HIDE DEF row, f
  <2>3. FilesOK' /\ UsedPhotos' = UsedPhotos
    BY <1>1, <2>1, <2>2, RowKept DEF DeleteRow, jobVars
  <2>4. Done(p) \/ \E pc \in Working : Goto(p, pc) /\ req[p].pc \notin {"idle", "compare", "create"}
    BY <1>1, <1>4 DEF Working
  <2> QED
    BY <1>2, <2>3, <2>4, GoesOn
<1> QED
  BY <1>3, <1>4 DEF DeleteRow

LEMMA UsageStored ==
  ASSUME Stored, NEW p \in Procs, ReadUsage(p) \/ LowerUsage(p) PROVE Stored'
<1>1. CASE ReadUsage(p)
  <2> DEFINE r == [req[p] EXCEPT !.pc = "lower", !.usage = usage]
  <2>1. RequestOK(req[p], UsedPhotos) /\ req[p] \in RequestType /\ req[p].pc = "readUsage" /\ usage \in Int
    BY <1>1, RequestAt DEF ReadUsage, At, Stored, Plain
  <2>2. r \in RequestType /\ r.pc = "lower" /\ r.photo = req[p].photo
    BY <2>1 DEF RequestType
  <2>3. req' = [req EXCEPT ![p] = r]
    BY <1>1 DEF ReadUsage
  <2> HIDE DEF r
  <2>4. RequestOK(r, UsedPhotos)
    BY <2>1, <2>2 DEF RequestOK
  <2>5. Plain' /\ UNCHANGED <<photo, file, job, purges>>
    BY <1>1 DEF ReadUsage, Stored, Plain, jobVars
  <2> QED
    BY <2>3, <2>4, <2>5, RequestOnly
<1>2. CASE LowerUsage(p)
  <2>1. Plain' /\ UNCHANGED <<photo, file, job, purges>> /\ req[p].pc = "lower"
    BY <1>2 DEF LowerUsage, Stored, Plain, jobVars, At
  <2>2. CASE Done(p)
    BY <2>1, <2>2, DoneOnly
  <2>3. CASE Goto(p, "deleteRow")
    BY <2>1, <2>3, GotoOnly DEF Working
  <2> QED
    BY <1>2, <2>2, <2>3 DEF LowerUsage
<1> QED
  BY <1>1, <1>2

-----------------------------------------------------------------------------
(* Watermarks, selling and updating *)

LEMMA ReadForMarkStored ==
  ASSUME Stored, NEW p \in Procs, ReadForMark(p) PROVE Stored'
<1>1. Plain' /\ UNCHANGED <<photo, file, job, purges>> /\ req[p].pc = "mark"
  BY DEF ReadForMark, Stored, Plain, jobVars, At
<1>2. CASE Done(p)
  BY <1>1, <1>2, DoneOnly
<1>3. ASSUME NEW place \in {"disk", "cloud"},
             req' = [req EXCEPT ![p] = [req[p] EXCEPT !.pc = "markWrite", !.place = place]]
      PROVE  Stored'
  <2> DEFINE r == [req[p] EXCEPT !.pc = "markWrite", !.place = place]
  <2>1. RequestOK(req[p], UsedPhotos) /\ req[p] \in RequestType
    BY RequestAt DEF Stored
  <2>2. r \in RequestType /\ r.pc = "markWrite" /\ r.photo = req[p].photo
    BY <2>1 DEF RequestType, Place
  <2>3. req' = [req EXCEPT ![p] = r]
    BY <1>3
  <2> HIDE DEF r
  <2>4. RequestOK(r, UsedPhotos)
    BY <1>1, <2>1, <2>2 DEF RequestOK
  <2> QED
    BY <1>1, <2>3, <2>4, RequestOnly
<1> QED
  BY <1>2, <1>3 DEF ReadForMark

LEMMA WriteMarkStored ==
  ASSUME Stored, NEW p \in Procs, WriteMark(p) PROVE Stored'
<1> DEFINE f == req[p].photo
           row == [photo[f] EXCEPT !.marked = IF Live(f) THEN req[p].place ELSE @]
           mark == IF req[p].place = "disk" THEN "diskMark" ELSE "cloudMark"
<1>1. f \in PhotoId /\ Used(f) /\ req[p].pc = "markWrite" /\ FilesOK /\ req[p] \in RequestType
  BY RequestAt DEF WriteMark, At, Stored
<1>2. Plain' /\ UNCHANGED <<job, purges>>
  BY DEF WriteMark, Stored, Plain, jobVars
<1>3. photo[f] \in UsedPhoto /\ req[p].place \in Place /\ photo[f].original \in file[f]
  BY <1>1, UsedIsTyped DEF RequestType, FilesOK
<1>4. row \in UsedPhoto /\ row.original = photo[f].original
  <2>1. (IF Live(f) THEN req[p].place ELSE photo[f].marked) \in Place
    BY <1>3 DEF UsedPhoto
  <2> QED
    BY <1>3, <2>1 DEF UsedPhoto
<1>5. photo' = [photo EXCEPT ![f] = row] /\ file' = [file EXCEPT ![f] = @ \cup {mark}]
      /\ mark \in {"diskMark", "cloudMark"}
  BY DEF WriteMark
<1>6. Done(p) \/ \E pc \in Working : Goto(p, pc) /\ req[p].pc \notin {"idle", "compare", "create"}
  BY <1>1 DEF WriteMark, Working
<1> HIDE DEF f, row, mark
<1>7. file' \in [PhotoId -> FileType]
  BY <1>1, <1>5 DEF FilesOK, FileType
<1>8. \A g \in PhotoId : file[g] \subseteq file'[g]
  BY <1>1, <1>5 DEF FilesOK
<1>9. row.original \in file'[f]
  BY <1>1, <1>3, <1>4, <1>8
<1>10. FilesOK' /\ UsedPhotos' = UsedPhotos
  BY <1>1, <1>2, <1>4, <1>5, <1>7, <1>8, <1>9, RowStep
<1> QED
  BY <1>2, <1>6, <1>10, GoesOn

LEMMA ViewStored ==
  ASSUME Stored, NEW p \in Procs, NEW f \in PhotoId, View(p, f) PROVE Stored'
<1> DEFINE r == [Idle EXCEPT !.pc = "mark", !.kind = "view", !.photo = f]
<1>1. r \in RequestType
  BY IdleTyped DEF RequestType
<1>2. Begun(r, f)
  BY <1>1 DEF Begun, Working, Idle
<1>3. req' = [req EXCEPT ![p] = r]
  BY DEF View, Begin
<1> HIDE DEF r
<1>4. Plain' /\ Used(f) /\ UNCHANGED <<photo, file, job, purges>>
  BY DEF View, Stored, Plain, jobVars, Live
<1> QED
  BY <1>2, <1>3, <1>4, BeginOK

LEMMA SellPhotoStored ==
  ASSUME Stored, NEW p \in Procs, NEW f \in PhotoId, SellPhoto(p, f) PROVE Stored'
<1> DEFINE r == [Idle EXCEPT !.pc = "find", !.kind = "sell", !.photo = f, !.place = photo[f].marked]
<1>1. Plain' /\ Used(f) /\ UNCHANGED <<photo, file, job, purges>>
  BY DEF SellPhoto, Stored, Plain, jobVars, Live
<1>2. photo[f].marked \in Place
  BY <1>1, UsedIsTyped DEF UsedPhoto, Stored
<1>3. r \in RequestType
  BY <1>2, IdleTyped DEF RequestType
<1>4. Begun(r, f)
  BY <1>3 DEF Begun, Working, Idle
<1>5. req' = [req EXCEPT ![p] = r]
  BY DEF SellPhoto, Begin
<1> HIDE DEF r
<1> QED
  BY <1>1, <1>4, <1>5, BeginOK

LEMMA FindActiveStored ==
  ASSUME Stored, NEW p \in Procs, FindActive(p) PROVE Stored'
<1> DEFINE pc == IF req[p].place = "none" THEN "mark" ELSE "sell"
           seen == selling[req[p].photo] > 0
           r == [req[p] EXCEPT !.seen = seen, !.pc = pc]
<1>1. RequestOK(req[p], UsedPhotos) /\ req[p] \in RequestType /\ req[p].pc = "find"
  BY RequestAt DEF FindActive, At, Stored
<1>2. req' = [req EXCEPT ![p] = r] /\ pc \in {"mark", "sell"} /\ seen \in BOOLEAN
  BY DEF FindActive
<1>3. Plain' /\ UNCHANGED <<photo, file, job, purges>>
  BY DEF FindActive, Stored, Plain, jobVars
<1> HIDE DEF pc, seen
<1>4. r \in RequestType
  BY <1>1, <1>2 DEF RequestType
<1>5. r.pc = pc /\ r.photo = req[p].photo
  BY <1>1 DEF RequestType
<1> HIDE DEF r
<1>6. RequestOK(r, UsedPhotos)
  BY <1>1, <1>2, <1>4, <1>5 DEF RequestOK
<1> QED
  BY <1>2, <1>3, <1>6, RequestOnly

LEMMA PutOnSaleStored ==
  ASSUME Stored, NEW p \in Procs, PutOnSale(p) PROVE Stored'
<1> DEFINE f == req[p].photo
<1>1. f \in PhotoId /\ Used(f) /\ req[p].pc = "sell" /\ FilesOK
  BY RequestAt DEF PutOnSale, At, Stored
<1>2. Plain'
  <2>1. selling \in [PhotoId -> Nat]
    BY DEF Stored, Plain
  <2>2. selling' \in [PhotoId -> Nat]
    BY <1>1, <2>1 DEF PutOnSale
  <2> QED
    BY <2>2 DEF PutOnSale, Stored, Plain, jobVars
<1>3. UNCHANGED <<file, job, purges>> /\ Done(p)
  BY DEF PutOnSale, jobVars
<1>4. CASE UNCHANGED photo
  BY <1>2, <1>3, <1>4, DoneOnly
<1>5. CASE photo' = [photo EXCEPT ![f] = [@ EXCEPT !.watermark = TRUE, !.visibility = "PUBLIC"]]
  <2> DEFINE row == [photo[f] EXCEPT !.watermark = TRUE, !.visibility = "PUBLIC"]
  <2>1. row \in UsedPhoto /\ row.original = photo[f].original
    BY <1>1, UsedIsTyped DEF UsedPhoto
  <2>2. photo' = [photo EXCEPT ![f] = row]
    BY <1>5
  <2> HIDE DEF row, f
  <2>3. FilesOK' /\ UsedPhotos' = UsedPhotos
    BY <1>1, <1>3, <2>1, <2>2, RowKept
  <2> QED
    BY <1>2, <1>3, <2>3, GoesOn
<1> QED
  BY <1>4, <1>5 DEF PutOnSale

LEMMA StopStored ==
  ASSUME Stored, NEW p \in Procs, NEW f \in PhotoId, StopSellingPhoto(p, f) PROVE Stored'
<1> DEFINE r == [Idle EXCEPT !.pc = "stop", !.photo = f]
<1>1. r \in RequestType
  BY IdleTyped DEF RequestType
<1>2. Begun(r, f)
  BY <1>1 DEF Begun, Working, Idle
<1>3. req' = [req EXCEPT ![p] = r]
  BY DEF StopSellingPhoto, Begin
<1> HIDE DEF r
<1>4. Plain' /\ Used(f) /\ UNCHANGED <<photo, file, job, purges>>
  BY DEF StopSellingPhoto, Stored, Plain, jobVars, Live
<1> QED
  BY <1>2, <1>3, <1>4, BeginOK

LEMMA StopSalesStored ==
  ASSUME Stored, NEW p \in Procs, StopSales(p) PROVE Stored'
<1>1. req[p].photo \in PhotoId /\ req[p].pc = "stop"
  BY RequestAt DEF StopSales, At, Stored
<1>2. Plain' /\ UNCHANGED <<photo, file, job, purges>>
  BY <1>1 DEF StopSales, Stored, Plain, jobVars
<1> QED
  BY <1>1, <1>2, GotoOnly DEF StopSales, Working

\* Columns that are written, or none.
LEMMA WriteOK ==
  ASSUME Stored, NEW f \in PhotoId, NEW w \in BOOLEAN \cup {None},
         NEW v \in {"PUBLIC", "PRIVATE", None}, Write(f, w, v), UNCHANGED <<file, job, purges>>
  PROVE  FilesOK' /\ UsedPhotos' = UsedPhotos
<1>1. FilesOK
  BY DEF Stored
<1>2. CASE Live(f)
  <2> DEFINE row == [photo[f] EXCEPT !.watermark = IF w = None THEN @ ELSE w,
                                     !.visibility = IF v = None THEN @ ELSE v]
  <2>0. Used(f) /\ photo[f] \in UsedPhoto
    BY <1>1, <1>2, UsedIsTyped DEF Live
  <2>1. (IF w = None THEN photo[f].watermark ELSE w) \in BOOLEAN
    BY <2>0 DEF UsedPhoto
  <2>2. (IF v = None THEN photo[f].visibility ELSE v) \in {"PUBLIC", "PRIVATE"}
    BY <2>0 DEF UsedPhoto
  <2>3. row \in UsedPhoto /\ row.original = photo[f].original
    BY <2>0, <2>1, <2>2 DEF UsedPhoto
  <2>4. photo' = [photo EXCEPT ![f] = row]
    BY <1>2 DEF Write
  <2> HIDE DEF row
  <2> QED
    BY <1>1, <2>0, <2>3, <2>4, RowKept
<1>3. CASE ~Live(f)
  <2>1. photo' = photo
    BY <1>1, <1>3 DEF Write, FilesOK
  <2> QED
    BY <1>1, <2>1, FilesSame
<1> QED
  BY <1>2, <1>3

LEMMA HidePhotoStored ==
  ASSUME Stored, NEW p \in Procs, HidePhoto(p) PROVE Stored'
<1>1. req[p].photo \in PhotoId
  BY RequestAt DEF HidePhoto, At, Stored
<1>2. Plain'
  BY DEF HidePhoto, Stored, Plain, jobVars
<1>3. FilesOK' /\ UsedPhotos' = UsedPhotos
  BY <1>1, WriteOK DEF HidePhoto, jobVars
<1> QED
  BY <1>2, <1>3, GoesOn DEF HidePhoto

LEMMA UpdateStored ==
  ASSUME Stored, NEW p \in Procs, NEW f \in PhotoId, NEW w \in BOOLEAN \cup {None},
         NEW v \in {"PUBLIC", "PRIVATE", None}, UpdatePhoto(p, f, w, v) \/ ManagerUpdate(p, f, w, v)
  PROVE  Stored'
<1>1. Plain' /\ Used(f) /\ UNCHANGED <<photo, file, job, purges>>
  BY DEF UpdatePhoto, ManagerUpdate, Stored, Plain, jobVars, Live
<1>2. ASSUME NEW pc \in {"mark", "update"}, NEW kind \in {"owner", "manager"}, NEW seen \in BOOLEAN,
             NEW x \in {"PUBLIC", "PRIVATE", None},
             req' = [req EXCEPT ![p] =
               [Idle EXCEPT !.pc = pc, !.kind = kind, !.photo = f, !.seen = seen,
                            !.watermark = w, !.visibility = x]]
      PROVE  Stored'
  <2> DEFINE r == [Idle EXCEPT !.pc = pc, !.kind = kind, !.photo = f, !.seen = seen,
                               !.watermark = w, !.visibility = x]
  <2>1. r \in RequestType
    BY IdleTyped DEF RequestType
  <2>2. r.pc = pc /\ r.photo = f
    BY DEF Idle
  <2>3. req' = [req EXCEPT ![p] = r]
    BY <1>2
  <2> HIDE DEF r
  <2>4. Begun(r, f)
    BY <2>1, <2>2 DEF Begun, Working
  <2> QED
    BY <1>1, <2>3, <2>4, BeginOK
<1>3. CASE UpdatePhoto(p, f, w, v)
  <2> DEFINE pc == IF w = TRUE THEN "mark" ELSE "update"
             seen == selling[f] > 0
  <2>1. req' = [req EXCEPT ![p] =
               [Idle EXCEPT !.pc = pc, !.kind = "owner", !.photo = f, !.seen = seen,
                            !.watermark = w, !.visibility = v]]
    BY <1>3 DEF UpdatePhoto, Begin
  <2>2. pc \in {"mark", "update"} /\ seen \in BOOLEAN
    OBVIOUS
  <2> HIDE DEF pc, seen
  <2> QED
    BY <1>2, <2>1, <2>2
<1>4. CASE ManagerUpdate(p, f, w, v)
  <2> DEFINE x == IF selling[f] > 0 THEN None ELSE v
             seen == selling[f] > 0
  <2>1. req' = [req EXCEPT ![p] =
               [Idle EXCEPT !.pc = "update", !.kind = "manager", !.photo = f, !.seen = seen,
                            !.watermark = w, !.visibility = x]]
    BY <1>4 DEF ManagerUpdate, Begin
  <2>2. x \in {"PUBLIC", "PRIVATE", None} /\ seen \in BOOLEAN
    OBVIOUS
  <2> HIDE DEF x, seen
  <2> QED
    BY <1>2, <2>1, <2>2
<1> QED
  BY <1>3, <1>4

LEMMA WriteUpdateStored ==
  ASSUME Stored, NEW p \in Procs, WriteUpdate(p) PROVE Stored'
<1>1. req[p].photo \in PhotoId /\ req[p] \in RequestType
  BY RequestAt DEF WriteUpdate, At, Stored
<1>2. Plain' /\ UNCHANGED <<file, job, purges>> /\ Done(p)
  BY DEF WriteUpdate, Stored, Plain, jobVars
<1>3. req[p].watermark \in BOOLEAN \cup {None} /\ req[p].visibility \in {"PUBLIC", "PRIVATE", None}
  BY <1>1 DEF RequestType
<1>4. CASE UNCHANGED photo
  BY <1>2, <1>4, DoneOnly
<1>5. CASE Write(req[p].photo, req[p].watermark, req[p].visibility)
  <2>1. FilesOK' /\ UsedPhotos' = UsedPhotos
    BY <1>1, <1>2, <1>3, <1>5, WriteOK
  <2> QED
    BY <1>2, <2>1, GoesOn
<1> QED
  BY <1>4, <1>5 DEF WriteUpdate

LEMMA FailRequestStored ==
  ASSUME Stored, NEW p \in Procs, FailRequest(p) PROVE Stored'
<1>1. failures + 1 \in 0..setting.failures
  BY PhotosAssumption DEF FailRequest, Stored, Plain
<1>2. Plain' /\ UNCHANGED <<photo, file, job, purges>>
  BY <1>1 DEF FailRequest, Stored, Plain, jobVars
<1> QED
  BY <1>2, DoneOnly DEF FailRequest

LEMMA InitStored == Init => Stored
<1> SUFFICES ASSUME Init PROVE Stored
  OBVIOUS
<1>1. Plain
  BY PhotosAssumption DEF Init, Plain
<1>2. RequestsOK
  BY IdleOK, IdleTyped DEF Init, RequestsOK
<1>3. FilesOK
  BY NoJobTyped DEF Init, FilesOK, PhotoType, FileType, Used, FreePhoto, JobOK, JobAt
<1> QED
  BY <1>1, <1>2, <1>3 DEF Stored

LEMMA NextStored == Stored /\ [Next]_vars => Stored'
<1> SUFFICES ASSUME Stored, [Next]_vars PROVE Stored'
  OBVIOUS
<1>1. CASE UNCHANGED vars
  <2>1. Plain' /\ UNCHANGED <<photo, file, job, purges, req>>
    BY <1>1 DEF vars, jobVars, Stored, Plain
  <2> QED
    BY <2>1, FilesSame, QueueOnly DEF Stored
<1>2. ASSUME NEW p \in Procs, OwnerAsks(p) PROVE Stored'
  BY <1>2, UploadStored, DeleteStored, ViewStored, UpdateStored DEF OwnerAsks
<1>3. ASSUME NEW p \in Procs, OwnerSells(p) PROVE Stored'
  BY <1>3, SellPhotoStored, StopStored DEF OwnerSells
<1>4. ASSUME NEW p \in Procs, ManagerAsks(p) PROVE Stored'
  BY <1>4, DeleteStored, BansStored, UpdateStored DEF ManagerAsks
<1>5. ASSUME NEW p \in Procs, Step(p) PROVE Stored'
  BY <1>5, CompareHashStored, CreatePhotoStored, RaiseUsageStored, QueueJobStored, DeleteRowStored,
     UsageStored, ReadForMarkStored, WriteMarkStored, FindActiveStored, PutOnSaleStored,
     StopSalesStored, HidePhotoStored, WriteUpdateStored DEF Step
<1>6. ASSUME NEW f \in PhotoId, JobStep(f) PROVE Stored'
  BY <1>6, UploadCopyStored, UploadWriteStored, UploadEndStored, ProcessCompareStored,
     ProcessWriteStored, ProcessEndStored DEF JobStep
<1> QED
  BY <1>1, <1>2, <1>3, <1>4, <1>5, <1>6, FailRequestStored, JobFailsStored, PurgeStored, BansStored
  DEF Next

-----------------------------------------------------------------------------
(* What a step does to the requests *)

Others(p) == \A q \in Procs : q # p => req'[q] = req[q]

LEMMA GotoFields ==
  ASSUME RequestsOK, NEW p \in Procs, NEW pc, Goto(p, pc)
  PROVE  /\ Others(p) /\ req'[p].pc = pc /\ req'[p].photo = req[p].photo
         /\ req'[p].kind = req[p].kind /\ req'[p].seen = req[p].seen
         /\ req'[p].visibility = req[p].visibility /\ req'[p].usage = req[p].usage
         /\ req'[p].watermark = req[p].watermark
  BY DEF Goto, RequestsOK, RequestType, Others

LEMMA DoneFields ==
  ASSUME RequestsOK, NEW p \in Procs, Done(p)
  PROVE  Others(p) /\ req'[p] = Idle /\ req'[p].pc = "idle"
  BY DEF Done, RequestsOK, Others, Idle

LEMMA BeginFields ==
  ASSUME RequestsOK, NEW p \in Procs, NEW kind, NEW r, Begin(p, kind, r)
  PROVE  Others(p) /\ req'[p] = r /\ req[p].pc = "idle" /\ p \in setting.procs
  BY DEF Begin, RequestsOK, Others, At

LEMMA UploadBegins ==
  ASSUME RequestsOK, NEW p \in Procs, NEW way, NEW c, Upload(p, way, c)
  PROVE  Others(p) /\ req'[p].pc = "compare" /\ req'[p].kind = way /\ req[p].pc = "idle" /\ p \in setting.procs
<1> DEFINE r == [Idle EXCEPT !.pc = "compare", !.kind = way, !.content = c]
<1>1. Begin(p, "upload", r)
  BY DEF Upload
<1>2. r.pc = "compare" /\ r.kind = way
  BY DEF Idle
<1> HIDE DEF r
<1> QED
  BY <1>1, <1>2, BeginFields

LEMMA DeleteBegins ==
  ASSUME RequestsOK, NEW p \in Procs, NEW f, NEW who, Delete(p, f, who)
  PROVE  /\ Others(p) /\ req'[p].pc = (IF who = "owner" THEN "deleteRow" ELSE "readUsage")
         /\ req'[p].kind = who /\ req'[p].photo = f /\ req[p].pc = "idle" /\ p \in setting.procs
<1> DEFINE r == [Idle EXCEPT !.pc = IF who = "owner" THEN "deleteRow" ELSE "readUsage", !.kind = who, !.photo = f]
<1>1. Begin(p, "delete", r)
  BY DEF Delete
<1>2. r.pc = (IF who = "owner" THEN "deleteRow" ELSE "readUsage") /\ r.kind = who /\ r.photo = f
  BY DEF Idle
<1> HIDE DEF r
<1> QED
  BY <1>1, <1>2, BeginFields

LEMMA ViewBegins ==
  ASSUME RequestsOK, NEW p \in Procs, NEW f, View(p, f)
  PROVE  /\ Others(p) /\ req'[p].pc = "mark" /\ req'[p].kind = "view" /\ req'[p].photo = f
         /\ req[p].pc = "idle" /\ p \in setting.procs
<1> DEFINE r == [Idle EXCEPT !.pc = "mark", !.kind = "view", !.photo = f]
<1>1. Begin(p, "update", r)
  BY DEF View
<1>2. r.pc = "mark" /\ r.kind = "view" /\ r.photo = f
  BY DEF Idle
<1> HIDE DEF r
<1> QED
  BY <1>1, <1>2, BeginFields

LEMMA SellBegins ==
  ASSUME RequestsOK, NEW p \in Procs, NEW f, SellPhoto(p, f)
  PROVE  /\ Others(p) /\ req'[p].pc = "find" /\ req'[p].kind = "sell" /\ req'[p].photo = f
         /\ req[p].pc = "idle" /\ p \in setting.procs
<1> DEFINE r == [Idle EXCEPT !.pc = "find", !.kind = "sell", !.photo = f, !.place = photo[f].marked]
<1>1. Begin(p, "sell", r)
  BY DEF SellPhoto
<1>2. r.pc = "find" /\ r.kind = "sell" /\ r.photo = f
  BY DEF Idle
<1> HIDE DEF r
<1> QED
  BY <1>1, <1>2, BeginFields

LEMMA StopBegins ==
  ASSUME RequestsOK, NEW p \in Procs, NEW f, StopSellingPhoto(p, f)
  PROVE  /\ Others(p) /\ req'[p].pc = "stop" /\ req'[p].photo = f /\ req'[p].kind = "none"
         /\ req[p].pc = "idle" /\ p \in setting.procs
<1> DEFINE r == [Idle EXCEPT !.pc = "stop", !.photo = f]
<1>1. Begin(p, "sell", r)
  BY DEF StopSellingPhoto
<1>2. r.pc = "stop" /\ r.kind = "none" /\ r.photo = f
  BY DEF Idle
<1> HIDE DEF r
<1> QED
  BY <1>1, <1>2, BeginFields

LEMMA UpdateBegins ==
  ASSUME RequestsOK, NEW p \in Procs, NEW f, NEW w, NEW v, UpdatePhoto(p, f, w, v)
  PROVE  /\ Others(p) /\ req'[p].pc \in {"mark", "update"} /\ req'[p].photo = f
         /\ req'[p].kind = "owner" /\ req'[p].seen = (selling[f] > 0) /\ req'[p].visibility = v
         /\ req[p].pc = "idle" /\ p \in setting.procs
<1> DEFINE r == [Idle EXCEPT !.pc = IF w = TRUE THEN "mark" ELSE "update", !.kind = "owner", !.photo = f,
                          !.seen = selling[f] > 0, !.watermark = w, !.visibility = v]
<1>1. Begin(p, "update", r)
  BY DEF UpdatePhoto
<1>2. r.pc = (IF w = TRUE THEN "mark" ELSE "update") /\ r.kind = "owner" /\ r.photo = f
     /\ r.seen = (selling[f] > 0) /\ r.visibility = v
  BY DEF Idle
<1> HIDE DEF r
<1> QED
  BY <1>1, <1>2, BeginFields

LEMMA ManagerUpdateBegins ==
  ASSUME RequestsOK, NEW p \in Procs, NEW f, NEW w, NEW v, ManagerUpdate(p, f, w, v)
  PROVE  /\ Others(p) /\ req'[p].pc = "update" /\ req'[p].photo = f
         /\ req'[p].kind = "manager" /\ req'[p].seen = (selling[f] > 0)
         /\ req[p].pc = "idle" /\ p \in setting.procs
<1> DEFINE r == [Idle EXCEPT !.pc = "update", !.kind = "manager", !.photo = f, !.seen = selling[f] > 0,
                          !.watermark = w, !.visibility = IF selling[f] > 0 THEN None ELSE v]
<1>1. Begin(p, "update", r)
  BY DEF ManagerUpdate
<1>2. r.pc = "update" /\ r.kind = "manager" /\ r.photo = f /\ r.seen = (selling[f] > 0)
  BY DEF Idle
<1> HIDE DEF r
<1> QED
  BY <1>1, <1>2, BeginFields

LEMMA CreateFields ==
  ASSUME RequestsOK, NEW p \in Procs, CreatePhoto(p)
  PROVE  /\ Others(p) /\ req[p].pc = "create" /\ req'[p].pc = "raise" /\ req'[p].kind = req[p].kind
         /\ \E f \in 1..setting.photos :
              /\ ~Used(f) /\ req'[p].photo = f
              /\ photo' = [photo EXCEPT ![f] =
                   [FreePhoto EXCEPT !.status = IF req[p].kind = "memory" THEN "PARSED" ELSE "PENDING",
                      !.content = req[p].content, !.hashed = ~(req[p].kind = "memory"),
                      !.original = IF req[p].kind = "memory" THEN "cloud" ELSE "disk"]]
<1> DEFINE k == req[p].kind
<1>1. PICK f \in 1..setting.photos :
        /\ ~Used(f)
        /\ photo' = [photo EXCEPT ![f] =
             [FreePhoto EXCEPT !.status = IF k = "memory" THEN "PARSED" ELSE "PENDING",
                !.content = req[p].content, !.hashed = ~(k = "memory"),
                !.original = IF k = "memory" THEN "cloud" ELSE "disk"]]
        /\ req' = [req EXCEPT ![p] = [@ EXCEPT !.pc = "raise", !.photo = f]]
  BY DEF CreatePhoto
<1>2. req'[p] = [req[p] EXCEPT !.pc = "raise", !.photo = f] /\ Others(p) /\ req[p] \in RequestType
  BY <1>1 DEF RequestsOK, Others
<1>3. req'[p].pc = "raise" /\ req'[p].photo = f /\ req'[p].kind = req[p].kind
  BY <1>2 DEF RequestType
<1>4. req[p].pc = "create"
  BY DEF CreatePhoto, At
<1> QED
  BY <1>1, <1>2, <1>3, <1>4

LEMMA ReadUsageFields ==
  ASSUME RequestsOK, NEW p \in Procs, ReadUsage(p)
  PROVE  /\ Others(p) /\ req[p].pc = "readUsage" /\ req'[p].pc = "lower" /\ req'[p].usage = usage
         /\ req'[p].photo = req[p].photo /\ req'[p].kind = req[p].kind
<1>1. req'[p] = [req[p] EXCEPT !.pc = "lower", !.usage = usage] /\ Others(p) /\ req[p] \in RequestType
  BY DEF ReadUsage, RequestsOK, Others
<1>2. req[p].pc = "readUsage"
  BY DEF ReadUsage, At
<1>3. /\ req'[p].pc = "lower" /\ req'[p].usage = usage
      /\ req'[p].photo = req[p].photo /\ req'[p].kind = req[p].kind
  BY <1>1 DEF RequestType
<1> QED
  BY <1>1, <1>2, <1>3

LEMMA ReadForMarkFields ==
  ASSUME RequestsOK, NEW p \in Procs, ReadForMark(p)
  PROVE  /\ Others(p) /\ req[p].pc = "mark"
         /\ \/ req'[p].pc = "idle"
            \/ /\ req'[p].pc = "markWrite" /\ req'[p].kind = req[p].kind /\ req'[p].photo = req[p].photo
               /\ req'[p].seen = req[p].seen /\ req'[p].visibility = req[p].visibility
<1>0. req[p].pc = "mark"
  BY DEF ReadForMark, At
<1>1. CASE Done(p)
  BY <1>0, <1>1, DoneFields
<1>2. ASSUME NEW place, req' = [req EXCEPT ![p] = [req[p] EXCEPT !.pc = "markWrite", !.place = place]]
      PROVE  /\ Others(p) /\ req'[p].pc = "markWrite" /\ req'[p].kind = req[p].kind /\ req'[p].photo = req[p].photo
             /\ req'[p].seen = req[p].seen /\ req'[p].visibility = req[p].visibility
  <2>1. req'[p] = [req[p] EXCEPT !.pc = "markWrite", !.place = place] /\ Others(p) /\ req[p] \in RequestType
    BY <1>2 DEF RequestsOK, Others
  <2> QED
    BY <2>1 DEF RequestType
<1> QED
  BY <1>0, <1>1, <1>2 DEF ReadForMark

LEMMA FindActiveFields ==
  ASSUME RequestsOK, NEW p \in Procs, FindActive(p)
  PROVE  /\ Others(p) /\ req[p].pc = "find" /\ req'[p].pc \in {"mark", "sell"}
         /\ req'[p].kind = req[p].kind /\ req'[p].photo = req[p].photo
         /\ req'[p].seen = (selling[req[p].photo] > 0)
<1> DEFINE seen == selling[req[p].photo] > 0
           pc == IF req[p].place = "none" THEN "mark" ELSE "sell"
<1>1. req'[p] = [req[p] EXCEPT !.seen = seen, !.pc = pc] /\ Others(p) /\ req[p] \in RequestType
  BY DEF FindActive, RequestsOK, Others
<1>2. pc \in {"mark", "sell"}
  OBVIOUS
<1> HIDE DEF seen, pc
<1>3. req'[p].pc = pc /\ req'[p].seen = seen /\ req'[p].kind = req[p].kind /\ req'[p].photo = req[p].photo
  BY <1>1 DEF RequestType
<1> QED
  BY <1>1, <1>2, <1>3 DEF FindActive, At, seen

-----------------------------------------------------------------------------
(* How many sales of a photo are active *)

\* Requests that found no active sale of the photo and will add one.
Adds(r) == r.kind = "sell" /\ r.pc \in {"mark", "markWrite", "sell"} /\ ~r.seen
Adding(f) == {p \in Procs : Adds(req[p]) /\ req[p].photo = f}

SalesBounded ==
  \A f \in PhotoId : selling[f] + Cardinality(Adding(f)) <= Cardinality(Procs)

LEMMA ProcsFinite == IsFiniteSet(Procs) /\ Cardinality(Procs) \in Nat
  BY PhotosAssumption, FS_CardinalityType

LEMMA AddingCard ==
  ASSUME NEW S \in SUBSET Procs, NEW T \in SUBSET S
  PROVE  /\ IsFiniteSet(S) /\ Cardinality(S) \in Nat /\ Cardinality(T) \in Nat
         /\ Cardinality(T) <= Cardinality(S) /\ Cardinality(S) <= Cardinality(Procs)
<1>1. IsFiniteSet(S) /\ Cardinality(S) <= Cardinality(Procs)
  BY ProcsFinite, FS_Subset
<1>2. IsFiniteSet(T) /\ Cardinality(T) <= Cardinality(S)
  BY <1>1, FS_Subset
<1> QED
  BY <1>1, <1>2, FS_CardinalityType

LEMMA BoundKept ==
  ASSUME Stored, SalesBounded, selling' \in [PhotoId -> Nat], \A f \in PhotoId : selling'[f] <= selling[f],
         \A f \in PhotoId : Adding(f)' \subseteq Adding(f)
  PROVE  SalesBounded'
<1> SUFFICES ASSUME NEW f \in PhotoId PROVE selling'[f] + Cardinality(Adding(f)') <= Cardinality(Procs)
  BY DEF SalesBounded
<1>1. Adding(f) \in SUBSET Procs /\ Adding(f)' \in SUBSET Adding(f)
  BY DEF Adding
<1>2. Cardinality(Adding(f)') \in Nat /\ Cardinality(Adding(f)) \in Nat
      /\ Cardinality(Adding(f)') <= Cardinality(Adding(f))
  BY <1>1, AddingCard
<1>3. selling[f] \in Nat /\ selling'[f] \in Nat /\ selling'[f] <= selling[f]
  BY DEF Stored, Plain
<1>4. selling[f] + Cardinality(Adding(f)) <= Cardinality(Procs)
  BY DEF SalesBounded
<1> QED
  BY <1>2, <1>3, <1>4, ProcsFinite

LEMMA RequestBound ==
  ASSUME Stored, SalesBounded, NEW p \in Procs, Others(p),
         Adds(req'[p]) => Adds(req[p]) /\ req'[p].photo = req[p].photo,
         selling' \in [PhotoId -> Nat], \A f \in PhotoId : selling'[f] <= selling[f]
  PROVE  SalesBounded'
<1>1. \A f \in PhotoId : Adding(f)' \subseteq Adding(f)
  BY DEF Adding, Others, Adds
<1> QED
  BY <1>1, BoundKept

LEMMA SameSales ==
  ASSUME Stored, UNCHANGED selling
  PROVE  selling' \in [PhotoId -> Nat] /\ \A f \in PhotoId : selling'[f] <= selling[f]
<1>1. selling \in [PhotoId -> Nat]
  BY DEF Stored, Plain
<1> QED
  BY <1>1

LEMMA FewerSales ==
  ASSUME Stored, NEW f, selling' = [selling EXCEPT ![f] = 0]
  PROVE  selling' \in [PhotoId -> Nat] /\ \A g \in PhotoId : selling'[g] <= selling[g]
<1>1. selling \in [PhotoId -> Nat]
  BY DEF Stored, Plain
<1>2. \A g \in PhotoId : selling'[g] = 0 \/ selling'[g] = selling[g]
  BY <1>1
<1>3. selling' \in [PhotoId -> Nat]
  BY <1>1
<1>4. \A g \in PhotoId : selling[g] \in Nat
  BY <1>1
<1> QED
  BY <1>2, <1>3, <1>4

LEMMA IdleAdds == ~Adds(Idle)
  BY DEF Adds, Idle

LEMMA FindActiveBound ==
  ASSUME Stored, SalesBounded, NEW p \in Procs, FindActive(p) PROVE SalesBounded'
<1> SUFFICES ASSUME NEW f \in PhotoId PROVE selling'[f] + Cardinality(Adding(f)') <= Cardinality(Procs)
  BY DEF SalesBounded
<1>1. Others(p) /\ req'[p].photo = req[p].photo /\ req'[p].seen = (selling[req[p].photo] > 0)
  BY FindActiveFields DEF Stored
<1>2. selling'[f] = selling[f] /\ selling[f] \in Nat
  BY DEF FindActive, Stored, Plain
<1>3. selling[f] + Cardinality(Adding(f)) <= Cardinality(Procs)
  BY DEF SalesBounded
<1>4. CASE selling[f] = 0
  <2>1. Adding(f)' \in SUBSET Procs
    BY DEF Adding
  <2>2. Cardinality(Adding(f)') \in Nat /\ Cardinality(Adding(f)') <= Cardinality(Procs)
    BY <2>1, AddingCard
  <2> QED
    BY <1>2, <1>4, <2>2, ProcsFinite
<1>5. CASE selling[f] # 0
  <2>4. selling[f] > 0
    BY <1>2, <1>5
  <2>0. req[p].photo = f => req'[p].seen
    BY <1>1, <2>4, Zenon
  <2>1. Adding(f) \in SUBSET Procs /\ Adding(f)' \in SUBSET Adding(f)
    BY <1>1, <2>0 DEF Adding, Adds, Others
  <2>2. Cardinality(Adding(f)') \in Nat /\ Cardinality(Adding(f)) \in Nat
        /\ Cardinality(Adding(f)') <= Cardinality(Adding(f))
    BY <2>1, AddingCard
  <2> QED
    BY <1>2, <1>3, <2>2, ProcsFinite
<1> QED
  BY <1>4, <1>5

\* With another request that found an active sale, one is left; without, one of those that add is done.
LEMMA PutOnSaleBound ==
  ASSUME Stored, SalesBounded, NEW p \in Procs, req[p].kind = "sell", PutOnSale(p) PROVE SalesBounded'
<1> SUFFICES ASSUME NEW f \in PhotoId PROVE selling'[f] + Cardinality(Adding(f)') <= Cardinality(Procs)
  BY DEF SalesBounded
<1>1. Others(p) /\ req'[p] = Idle
  BY DoneFields DEF PutOnSale, Stored
<1>2. selling \in [PhotoId -> Nat] /\ selling[f] \in Nat
  BY DEF Stored, Plain
<1>3. selling[f] + Cardinality(Adding(f)) <= Cardinality(Procs)
  BY DEF SalesBounded
<1>4. Adding(f) \in SUBSET Procs /\ Adding(f)' = Adding(f) \ {p}
  BY <1>1, IdleAdds DEF Adding, Others
<1>5. IsFiniteSet(Adding(f)) /\ Cardinality(Adding(f)) \in Nat /\ Cardinality(Adding(f)') \in Nat
      /\ Cardinality(Adding(f)') <= Cardinality(Adding(f))
  BY <1>4, AddingCard
<1>6. CASE selling'[f] = selling[f]
  BY <1>2, <1>3, <1>5, <1>6, ProcsFinite
<1>7. CASE selling'[f] # selling[f]
  <2>1. req[p].photo = f /\ req[p].pc = "sell"
        /\ selling'[f] = IF req[p].seen THEN 1 ELSE selling[f] + 1
    BY <1>2, <1>7 DEF PutOnSale, At
  <2>2. CASE req[p].seen
    <3>1. Cardinality(Procs \ {p}) = Cardinality(Procs) - 1 /\ IsFiniteSet(Procs \ {p})
      BY ProcsFinite, FS_RemoveElement
    <3>2. Adding(f)' \in SUBSET (Procs \ {p})
      BY <1>4
    <3>3. Cardinality(Adding(f)') <= Cardinality(Procs \ {p})
      BY <3>1, <3>2, FS_Subset
    <3> QED
      BY <1>5, <2>1, <2>2, <3>1, <3>3, ProcsFinite
  <2>3. CASE ~req[p].seen
    <3>1. p \in Adding(f)
      BY <2>1, <2>3 DEF Adding, Adds
    <3>2. Cardinality(Adding(f)') = Cardinality(Adding(f)) - 1
      BY <1>4, <1>5, <3>1, FS_RemoveElement
    <3> QED
      BY <1>2, <1>3, <1>5, <2>1, <2>3, <3>2, ProcsFinite
  <2> QED
    BY <2>2, <2>3
<1> QED
  BY <1>6, <1>7

\* Which requests are at which step.
KindOK(r) ==
  /\ r.pc \in {"raise", "queue"} => r.kind \in {"memory", "disk"}
  /\ r.pc \in {"readUsage", "lower", "deleteRow"} => r.kind \in {"owner", "manager"}
  /\ r.pc \in {"find", "sell"} => r.kind = "sell"
  /\ r.pc \in {"mark", "markWrite"} => r.kind \in {"owner", "view", "sell"}
  /\ r.pc = "update" => r.kind \in {"owner", "manager"}
KindsOK == \A p \in Procs : KindOK(req[p]) /\ (req[p].pc # "idle" => p \in setting.procs)

Bounded == KindsOK /\ SalesBounded

LEMMA RequestBounded ==
  ASSUME Stored, Bounded, NEW p \in Procs, Others(p), KindOK(req'[p]),
         p \in setting.procs \/ req'[p].pc = "idle", setting' = setting,
         Adds(req'[p]) => Adds(req[p]) /\ req'[p].photo = req[p].photo,
         selling' \in [PhotoId -> Nat], \A f \in PhotoId : selling'[f] <= selling[f]
  PROVE  Bounded'
<1>1. SalesBounded'
  BY RequestBound DEF Bounded
<1>2. KindsOK'
  BY DEF Bounded, KindsOK, Others
<1> QED
  BY <1>1, <1>2 DEF Bounded

LEMMA DoneBounded ==
  ASSUME Stored, Bounded, NEW p \in Procs, Done(p), setting' = setting,
         selling' \in [PhotoId -> Nat], \A f \in PhotoId : selling'[f] <= selling[f]
  PROVE  Bounded'
<1>1. Others(p) /\ req'[p] = Idle /\ Idle.pc = "idle"
  BY DoneFields DEF Stored, Idle
<1>2. KindOK(Idle) /\ ~Adds(Idle)
  BY DEF KindOK, Adds, Idle
<1> QED
  BY <1>1, <1>2, RequestBounded

LEMMA RestBounded ==
  ASSUME Stored, Bounded, UNCHANGED <<setting, selling, req>>
  PROVE  Bounded'
<1>1. KindsOK'
  BY DEF Bounded, KindsOK
<1>2. \A f \in PhotoId : Adding(f)' \subseteq Adding(f)
  BY DEF Adding
<1> QED
  BY <1>1, <1>2, SameSales, BoundKept DEF Bounded

LEMMA AsksBounded ==
  ASSUME Stored, Bounded, NEW p \in Procs, OwnerAsks(p) \/ OwnerSells(p) \/ ManagerAsks(p)
  PROVE  Bounded'
<1>0. RequestsOK
  BY DEF Stored
<1>1. ASSUME NEW way \in {"memory", "disk"}, NEW c, Upload(p, way, c) PROVE Bounded'
  <2>1. /\ Others(p) /\ req'[p].pc = "compare" /\ p \in setting.procs
    BY <1>0, <1>1, UploadBegins
  <2>2. UNCHANGED <<setting, selling>>
    BY <1>1 DEF Upload
  <2> QED
    BY <2>1, <2>2, SameSales, RequestBounded DEF KindOK, Adds
<1>2. ASSUME NEW f, NEW who \in {"owner", "manager"}, Delete(p, f, who) PROVE Bounded'
  <2>1. /\ Others(p) /\ req'[p].pc \in {"deleteRow", "readUsage"} /\ req'[p].kind = who /\ p \in setting.procs
    BY <1>0, <1>2, DeleteBegins
  <2>2. UNCHANGED <<setting, selling>>
    BY <1>2 DEF Delete
  <2> QED
    BY <2>1, <2>2, SameSales, RequestBounded DEF KindOK, Adds
<1>3. ASSUME NEW f, View(p, f) PROVE Bounded'
  <2>1. /\ Others(p) /\ req'[p].pc = "mark" /\ req'[p].kind = "view" /\ p \in setting.procs
    BY <1>0, <1>3, ViewBegins
  <2>2. UNCHANGED <<setting, selling>>
    BY <1>3 DEF View
  <2> QED
    BY <2>1, <2>2, SameSales, RequestBounded DEF KindOK, Adds
<1>4. ASSUME NEW f, NEW w, NEW v, UpdatePhoto(p, f, w, v) PROVE Bounded'
  <2>1. /\ Others(p) /\ req'[p].pc \in {"mark", "update"} /\ req'[p].kind = "owner" /\ p \in setting.procs
    BY <1>0, <1>4, UpdateBegins
  <2>2. UNCHANGED <<setting, selling>>
    BY <1>4 DEF UpdatePhoto
  <2> QED
    BY <2>1, <2>2, SameSales, RequestBounded DEF KindOK, Adds
<1>5. ASSUME NEW f, NEW w, NEW v, ManagerUpdate(p, f, w, v) PROVE Bounded'
  <2>1. /\ Others(p) /\ req'[p].pc = "update" /\ req'[p].kind = "manager" /\ p \in setting.procs
    BY <1>0, <1>5, ManagerUpdateBegins
  <2>2. UNCHANGED <<setting, selling>>
    BY <1>5 DEF ManagerUpdate
  <2> QED
    BY <2>1, <2>2, SameSales, RequestBounded DEF KindOK, Adds
<1>6. ASSUME NEW f, SellPhoto(p, f) PROVE Bounded'
  <2>1. /\ Others(p) /\ req'[p].pc = "find" /\ req'[p].kind = "sell" /\ p \in setting.procs
    BY <1>0, <1>6, SellBegins
  <2>2. UNCHANGED <<setting, selling>>
    BY <1>6 DEF SellPhoto
  <2> QED
    BY <2>1, <2>2, SameSales, RequestBounded DEF KindOK, Adds
<1>7. ASSUME NEW f, StopSellingPhoto(p, f) PROVE Bounded'
  <2>1. /\ Others(p) /\ req'[p].pc = "stop" /\ p \in setting.procs
    BY <1>0, <1>7, StopBegins
  <2>2. UNCHANGED <<setting, selling>>
    BY <1>7 DEF StopSellingPhoto
  <2> QED
    BY <2>1, <2>2, SameSales, RequestBounded DEF KindOK, Adds
<1>8. ASSUME NEW f, Ban(f) \/ Unban(f) PROVE Bounded'
  BY <1>8, RestBounded DEF Ban, Unban
<1> QED
  BY <1>1, <1>2, <1>3, <1>4, <1>5, <1>6, <1>7, <1>8 DEF OwnerAsks, OwnerSells, ManagerAsks

LEMMA AtProcs ==
  ASSUME Bounded, NEW p \in Procs
  PROVE  KindOK(req[p]) /\ (req[p].pc # "idle" => p \in setting.procs)
  BY DEF Bounded, KindsOK

LEMMA GotoBounded ==
  ASSUME Stored, Bounded, NEW p \in Procs, NEW pc, Goto(p, pc), req[p].pc # "idle",
         KindOK(req'[p]),
         pc \in {"mark", "markWrite", "sell"} => req[p].pc \in {"mark", "markWrite", "sell"},
         setting' = setting, selling' \in [PhotoId -> Nat], \A f \in PhotoId : selling'[f] <= selling[f]
  PROVE  Bounded'
<1>1. /\ Others(p) /\ req'[p].pc = pc /\ req'[p].photo = req[p].photo
      /\ req'[p].kind = req[p].kind /\ req'[p].seen = req[p].seen
  BY GotoFields DEF Stored
<1>3. p \in setting.procs
  BY AtProcs
<1>4. Adds(req'[p]) => Adds(req[p]) /\ req'[p].photo = req[p].photo
  BY <1>1 DEF Adds
<1> QED
  BY <1>1, <1>3, <1>4, RequestBounded

LEMMA StepBounded ==
  ASSUME Stored, Bounded, NEW p \in Procs, Step(p)
  PROVE  Bounded'
<1>0. RequestsOK /\ KindOK(req[p]) /\ (req[p].pc # "idle" => p \in setting.procs)
  BY AtProcs DEF Stored
<1>1. CASE CompareHash(p)
  <2>1. UNCHANGED <<setting, selling>> /\ req[p].pc = "compare"
    BY <1>1 DEF CompareHash, At
  <2>2. CASE Done(p)
    BY <2>1, <2>2, SameSales, DoneBounded
  <2>3. CASE Goto(p, "create")
    <3>1. KindOK(req'[p])
      BY <1>0, <2>3, GotoFields DEF KindOK
    <3> QED
      BY <2>1, <2>3, <3>1, SameSales, GotoBounded
  <2> QED
    BY <1>1, <2>2, <2>3 DEF CompareHash
<1>2. CASE CreatePhoto(p)
  <2>1. UNCHANGED <<setting, selling>>
    BY <1>2 DEF CreatePhoto
  <2>2. Others(p) /\ req[p].pc = "create" /\ req'[p].pc = "raise" /\ req'[p].kind = req[p].kind
    BY <1>0, <1>2, CreateFields
  <2>3. req[p].kind \in {"memory", "disk"}
    BY <1>0, <2>2 DEF RequestsOK, RequestOK
  <2> QED
    BY <1>0, <2>1, <2>2, <2>3, SameSales, RequestBounded DEF KindOK, Adds
<1>3. CASE RaiseUsage(p)
  <2>1. UNCHANGED <<setting, selling>> /\ req[p].pc = "raise" /\ Goto(p, "queue")
    BY <1>3 DEF RaiseUsage, At
  <2>2. KindOK(req'[p])
    BY <1>0, <2>1, GotoFields DEF KindOK
  <2> QED
    BY <2>1, <2>2, SameSales, GotoBounded
<1>4. CASE QueueJob(p)
  BY <1>4, SameSales, DoneBounded DEF QueueJob
<1>5. CASE DeleteRow(p)
  <2>1. setting' = setting /\ req[p].pc = "deleteRow"
    BY <1>5 DEF DeleteRow, At
  <2>2. selling' \in [PhotoId -> Nat] /\ \A f \in PhotoId : selling'[f] <= selling[f]
    BY <1>5, SameSales, FewerSales DEF DeleteRow
  <2>3. CASE Done(p)
    BY <2>1, <2>2, <2>3, DoneBounded
  <2>4. CASE Goto(p, "readUsage")
    <3>1. KindOK(req'[p])
      BY <1>0, <2>1, <2>4, GotoFields DEF KindOK
    <3> QED
      BY <2>1, <2>2, <2>4, <3>1, GotoBounded
  <2> QED
    BY <1>5, <2>3, <2>4 DEF DeleteRow
<1>6. CASE ReadUsage(p)
  <2>1. UNCHANGED <<setting, selling>>
    BY <1>6 DEF ReadUsage
  <2>2. Others(p) /\ req[p].pc = "readUsage" /\ req'[p].pc = "lower" /\ req'[p].kind = req[p].kind
    BY <1>0, <1>6, ReadUsageFields
  <2> QED
    BY <1>0, <2>1, <2>2, SameSales, RequestBounded DEF KindOK, Adds
<1>7. CASE LowerUsage(p)
  <2>1. UNCHANGED <<setting, selling>> /\ req[p].pc = "lower"
    BY <1>7 DEF LowerUsage, At
  <2>2. CASE Done(p)
    BY <2>1, <2>2, SameSales, DoneBounded
  <2>3. CASE Goto(p, "deleteRow")
    <3>1. KindOK(req'[p])
      BY <1>0, <2>1, <2>3, GotoFields DEF KindOK
    <3> QED
      BY <2>1, <2>3, <3>1, SameSales, GotoBounded
  <2> QED
    BY <1>7, <2>2, <2>3 DEF LowerUsage
<1>8. CASE ReadForMark(p)
  <2>1. UNCHANGED <<setting, selling>>
    BY <1>8 DEF ReadForMark
  <2>2. /\ Others(p) /\ req[p].pc = "mark"
        /\ \/ req'[p].pc = "idle"
           \/ /\ req'[p].pc = "markWrite" /\ req'[p].kind = req[p].kind /\ req'[p].photo = req[p].photo
              /\ req'[p].seen = req[p].seen
    BY <1>0, <1>8, ReadForMarkFields
  <2>3. KindOK(req'[p])
    BY <1>0, <2>2 DEF KindOK
  <2>4. Adds(req'[p]) => Adds(req[p]) /\ req'[p].photo = req[p].photo
    BY <2>2 DEF Adds
  <2>5. p \in setting.procs
    BY <1>0, <2>2
  <2> QED
    BY <2>1, <2>2, <2>3, <2>4, <2>5, SameSales, RequestBounded
<1>9. CASE WriteMark(p)
  <2>1. UNCHANGED <<setting, selling>> /\ req[p].pc = "markWrite"
    BY <1>9 DEF WriteMark, At
  <2>2. CASE Done(p)
    BY <2>1, <2>2, SameSales, DoneBounded
  <2>3. CASE req[p].kind = "sell" /\ Goto(p, "sell")
    <3>1. KindOK(req'[p])
      BY <1>0, <2>1, <2>3, GotoFields DEF KindOK
    <3> QED
      BY <2>1, <2>3, <3>1, SameSales, GotoBounded
  <2>4. CASE req[p].kind \notin {"sell", "view"} /\ Goto(p, "update")
    <3>1. KindOK(req'[p])
      BY <1>0, <2>1, <2>4, GotoFields DEF KindOK
    <3> QED
      BY <2>1, <2>4, <3>1, SameSales, GotoBounded
  <2> QED
    BY <1>9, <2>2, <2>3, <2>4 DEF WriteMark
<1>10. CASE FindActive(p)
  <2>1. SalesBounded'
    BY <1>10, FindActiveBound DEF Bounded
  <2>2. /\ Others(p) /\ req[p].pc = "find" /\ req'[p].pc \in {"mark", "sell"} /\ req'[p].kind = req[p].kind
    BY <1>0, <1>10, FindActiveFields
  <2>3. KindOK(req'[p]) /\ p \in setting.procs /\ setting' = setting
    BY <1>0, <1>10, <2>2 DEF KindOK, FindActive
  <2>4. KindsOK'
    BY <2>2, <2>3 DEF Bounded, KindsOK, Others
  <2> QED
    BY <2>1, <2>4 DEF Bounded
<1>11. CASE PutOnSale(p)
  <2>0. req[p].kind = "sell"
    BY <1>0, <1>11 DEF PutOnSale, At, KindOK
  <2>1. SalesBounded'
    BY <1>11, <2>0, PutOnSaleBound DEF Bounded
  <2>2. Others(p) /\ req'[p] = Idle /\ setting' = setting
    BY <1>0, <1>11, DoneFields DEF PutOnSale
  <2>3. KindOK(Idle) /\ Idle.pc = "idle"
    BY DEF KindOK, Idle
  <2>4. KindsOK'
    BY <2>2, <2>3 DEF Bounded, KindsOK, Others
  <2> QED
    BY <2>1, <2>4 DEF Bounded
<1>12. CASE StopSales(p)
  <2>1. setting' = setting /\ req[p].pc = "stop" /\ Goto(p, "hide")
    BY <1>12 DEF StopSales, At
  <2>2. selling' \in [PhotoId -> Nat] /\ \A f \in PhotoId : selling'[f] <= selling[f]
    BY <1>12, FewerSales DEF StopSales
  <2>3. KindOK(req'[p])
    BY <1>0, <2>1, GotoFields DEF KindOK
  <2> QED
    BY <2>1, <2>2, <2>3, GotoBounded
<1>13. CASE HidePhoto(p) \/ WriteUpdate(p)
  BY <1>13, SameSales, DoneBounded DEF HidePhoto, WriteUpdate
<1> QED
  BY <1>1, <1>2, <1>3, <1>4, <1>5, <1>6, <1>7, <1>8, <1>9, <1>10, <1>11, <1>12, <1>13 DEF Step

LEMMA InitBounded == Init => Bounded
<1> SUFFICES ASSUME Init PROVE Bounded
  OBVIOUS
<1>1. \A p \in Procs : req[p] = Idle
  BY DEF Init
<1>2. KindOK(Idle) /\ Idle.pc = "idle" /\ ~Adds(Idle)
  BY DEF KindOK, Adds, Idle
<1>3. KindsOK
  BY <1>1, <1>2 DEF KindsOK
<1>4. \A f \in PhotoId : Adding(f) = {} /\ selling[f] = 0
  BY <1>1, <1>2 DEF Adding, Init
<1>5. SalesBounded
  BY <1>4, ProcsFinite, FS_EmptySet DEF SalesBounded
<1> QED
  BY <1>3, <1>5 DEF Bounded

LEMMA NextBounded == Stored /\ Bounded /\ [Next]_vars => Bounded'
<1> SUFFICES ASSUME Stored, Bounded, [Next]_vars PROVE Bounded'
  OBVIOUS
<1>1. CASE UNCHANGED vars
  BY <1>1, RestBounded DEF vars
<1>2. ASSUME NEW p \in Procs, FailRequest(p) PROVE Bounded'
  BY <1>2, SameSales, DoneBounded DEF FailRequest
<1>3. ASSUME NEW f \in PhotoId, JobStep(f) PROVE UNCHANGED <<setting, selling, req>>
  BY <1>3 DEF JobStep, UploadCopy, UploadWrite, UploadEnd, ProcessCompare, ProcessWrite, ProcessEnd
<1>4. ASSUME NEW f \in PhotoId, JobFails(f) \/ Purge(f) \/ BanPhoto(f) \/ UnbanPhoto(f)
      PROVE  UNCHANGED <<setting, selling, req>>
  BY <1>4 DEF JobFails, Purge, BanPhoto, UnbanPhoto
<1> QED
  BY <1>1, <1>2, <1>3, <1>4, RestBounded, AsksBounded, StepBounded DEF Next

\* Every row, file, job and request of a photo has its type, and no more sales of a photo are
\* active than requests can be in flight.
THEOREM PhotosTypeCorrect == Spec => []TypeOK
<1>1. Stored /\ Bounded => TypeOK
  <2> SUFFICES ASSUME Stored, Bounded PROVE TypeOK
    OBVIOUS
  <2>1. selling \in [PhotoId -> 0..Cardinality(Procs)]
    <3> SUFFICES ASSUME NEW f \in PhotoId PROVE selling[f] \in 0..Cardinality(Procs)
      BY DEF Stored, Plain
    <3>1. Adding(f) \in SUBSET Procs
      BY DEF Adding
    <3>2. Cardinality(Adding(f)) \in Nat
      BY <3>1, AddingCard
    <3>3. selling[f] \in Nat /\ selling[f] + Cardinality(Adding(f)) <= Cardinality(Procs)
      BY DEF Stored, Plain, Bounded, SalesBounded
    <3> QED
      BY <3>2, <3>3, ProcsFinite
  <2> QED
    BY <2>1 DEF Stored, Plain, FilesOK, RequestsOK, TypeOK, PhotoType, UsedPhoto, FileType, JobType, RequestType
<1>2. Spec => [](Stored /\ Bounded)
  BY InitStored, NextStored, InitBounded, NextBounded, PTL DEF Spec
<1> QED
  BY <1>1, <1>2, PTL

LEMMA AlwaysStored == Spec => []Stored
  BY InitStored, NextStored, PTL DEF Spec

\* Whatever fails half-way, in whatever order copies, writes and purges are done.
THEOREM PhotosOriginalStored == Spec => []OriginalStored
<1>1. Stored /\ TypeOK => OriginalStored
  BY DEF Stored, FilesOK, OriginalStored
<1> QED
  BY <1>1, AlwaysStored, PhotosTypeCorrect, PTL

-----------------------------------------------------------------------------
(* What a step does to the rows *)

\* Content and hash are left alone and the row is not marked as a duplicate.
Similar(g) ==
  /\ photo'[g].content = photo[g].content /\ photo'[g].hashed = photo[g].hashed
  /\ photo'[g].status = "DUPLICATED" => photo[g].status = "DUPLICATED"
SameLive(g) == Live(g)' <=> Live(g)
SameFace(g) == photo'[g].visibility = photo[g].visibility
Steady == \A g \in PhotoId : Similar(g) /\ SameLive(g) /\ SameFace(g)

LEMMA SteadyRow ==
  ASSUME Stored, NEW f \in PhotoId, Used(f), NEW row \in UsedPhoto,
         row.content = photo[f].content, row.hashed = photo[f].hashed,
         row.status = "DUPLICATED" => photo[f].status = "DUPLICATED",
         photo' = [photo EXCEPT ![f] = row]
  PROVE  /\ \A g \in PhotoId : Similar(g)
         /\ \A g \in PhotoId \ {f} : SameLive(g) /\ SameFace(g)
         /\ row.deleted = photo[f].deleted => SameLive(f)
         /\ row.visibility = photo[f].visibility => SameFace(f)
         /\ photo'[f] = row
<1>1. photo'[f] = row /\ \A g \in PhotoId \ {f} : photo'[g] = photo[g]
  BY DEF Stored, FilesOK
<1>2. row.status # "UNUSED"
  BY TypedIsUsed
<1> QED
  BY <1>1, <1>2 DEF Similar, SameLive, SameFace, Live, Used

LEMMA SteadySame ==
  ASSUME UNCHANGED photo PROVE Steady
  BY DEF Steady, Similar, SameLive, SameFace, Live, Used

LEMMA UploadWriteRows ==
  ASSUME Stored, NEW f \in PhotoId, UploadWrite(f) PROVE Steady
<1>1. CASE UNCHANGED photo
  BY <1>1, SteadySame
<1>2. CASE Live(f) /\ photo' = [photo EXCEPT ![f] = [@ EXCEPT !.status = "PARSED",
                                              !.original = "cloud", !.marked = "cloud"]]
  <2> DEFINE row == [photo[f] EXCEPT !.status = "PARSED", !.original = "cloud", !.marked = "cloud"]
  <2>1. Used(f) /\ photo[f] \in UsedPhoto
    BY <1>2, UsedIsTyped DEF Live, Stored
  <2>2. row \in UsedPhoto /\ row.content = photo[f].content /\ row.hashed = photo[f].hashed
        /\ row.deleted = photo[f].deleted /\ row.visibility = photo[f].visibility
        /\ row.status = "PARSED"
    BY <2>1 DEF UsedPhoto, Place
  <2>3. photo' = [photo EXCEPT ![f] = row]
    BY <1>2
  <2> HIDE DEF row
  <2> QED
    BY <2>1, <2>2, <2>3, SteadyRow DEF Steady
<1> QED
  BY <1>1, <1>2 DEF UploadWrite

LEMMA SetStatusRows ==
  ASSUME Stored, NEW f \in PhotoId, NEW status \in {"BAN", "PARSED"}, SetStatus(f, status) PROVE Steady
<1>1. CASE ~Live(f)
  <2>1. photo[f] \in PhotoType
    BY DEF Stored, FilesOK
  <2>2. [photo[f] EXCEPT !.status = photo[f].status] = photo[f]
    BY <2>1 DEF PhotoType, UsedPhoto, FreePhoto
  <2>3. photo' = [photo EXCEPT ![f] = [photo[f] EXCEPT !.status = photo[f].status]]
    BY <1>1 DEF SetStatus
  <2>4. photo' = photo
    BY <2>2, <2>3 DEF Stored, FilesOK
  <2> QED
    BY <2>4, SteadySame
<1>2. CASE Live(f)
  <2> DEFINE row == [photo[f] EXCEPT !.status = status]
  <2>1. Used(f) /\ photo[f] \in UsedPhoto
    BY <1>2, UsedIsTyped DEF Live, Stored
  <2>2. row \in UsedPhoto /\ row.content = photo[f].content /\ row.hashed = photo[f].hashed
        /\ row.deleted = photo[f].deleted /\ row.visibility = photo[f].visibility
        /\ row.status = status
    BY <2>1 DEF UsedPhoto
  <2>3. photo' = [photo EXCEPT ![f] = row]
    BY <1>2 DEF SetStatus
  <2> HIDE DEF row
  <2> QED
    BY <2>1, <2>2, <2>3, SteadyRow DEF Steady
<1> QED
  BY <1>1, <1>2

LEMMA WriteMarkRows ==
  ASSUME Stored, NEW p \in Procs, WriteMark(p) PROVE Steady
<1> DEFINE f == req[p].photo
           row == [photo[f] EXCEPT !.marked = IF Live(f) THEN req[p].place ELSE @]
<1>1. f \in PhotoId /\ Used(f) /\ req[p].place \in Place
  BY RequestAt DEF WriteMark, At, Stored, RequestType
<1>2. photo[f] \in UsedPhoto
  BY <1>1, UsedIsTyped DEF Stored
<1>3. (IF Live(f) THEN req[p].place ELSE photo[f].marked) \in Place
  BY <1>1, <1>2 DEF UsedPhoto
<1>4. row \in UsedPhoto
  BY <1>2, <1>3 DEF UsedPhoto
<1>5. row.content = photo[f].content /\ row.hashed = photo[f].hashed
      /\ row.deleted = photo[f].deleted /\ row.visibility = photo[f].visibility
      /\ row.status = photo[f].status
  BY <1>2 DEF UsedPhoto
<1>6. photo' = [photo EXCEPT ![f] = row]
  BY DEF WriteMark
<1> HIDE DEF row, f
<1> QED
  BY <1>1, <1>4, <1>5, <1>6, SteadyRow DEF Steady

LEMMA DeleteRowRows ==
  ASSUME Stored, NEW p \in Procs, DeleteRow(p)
  PROVE  \E f \in PhotoId :
           /\ f = req[p].photo
           /\ \A g \in PhotoId : Similar(g) /\ SameFace(g)
           /\ \A g \in PhotoId \ {f} : SameLive(g)
           /\ ~Live(f)'
<1>1. req[p].photo \in PhotoId /\ Used(req[p].photo)
  BY RequestAt DEF DeleteRow, At, Stored
<1>0. PICK f \in PhotoId : f = req[p].photo
  BY <1>1
<1> DEFINE row == [photo[f] EXCEPT !.deleted = TRUE]
<1>2. CASE ~Live(f) /\ UNCHANGED photo
  <2>1. ~Live(f)'
    BY <1>2 DEF Live, Used
  <2> QED
    BY <1>0, <1>2, <2>1, SteadySame DEF Steady
<1>3. CASE photo' = [photo EXCEPT ![f].deleted = TRUE]
  <2>1. photo[f] \in UsedPhoto /\ Used(f)
    BY <1>0, <1>1, UsedIsTyped DEF Stored
  <2>2. row \in UsedPhoto /\ row.content = photo[f].content /\ row.hashed = photo[f].hashed
        /\ row.deleted = TRUE /\ row.visibility = photo[f].visibility
        /\ row.status = photo[f].status
    BY <2>1 DEF UsedPhoto
  <2>3. photo' = [photo EXCEPT ![f] = row]
    BY <1>3
  <2> HIDE DEF row
  <2>4. /\ \A g \in PhotoId : Similar(g)
        /\ \A g \in PhotoId \ {f} : SameLive(g) /\ SameFace(g)
        /\ SameFace(f) /\ photo'[f] = row
    BY <2>1, <2>2, <2>3, SteadyRow
  <2>5. ~Live(f)'
    BY <2>2, <2>4 DEF Live
  <2>6. \A g \in PhotoId : SameFace(g)
    BY <2>4
  <2> QED
    BY <1>0, <2>4, <2>5, <2>6
<1> QED
  BY <1>0, <1>2, <1>3 DEF DeleteRow

LEMMA PutOnSaleRows ==
  ASSUME Stored, NEW p \in Procs, PutOnSale(p)
  PROVE  \E f \in PhotoId :
           /\ f = req[p].photo
           /\ \A g \in PhotoId : Similar(g) /\ SameLive(g)
           /\ \A g \in PhotoId \ {f} : SameFace(g)
           /\ SameFace(f) \/ photo'[f].visibility = "PUBLIC"
           /\ Live(f) => photo'[f].visibility = "PUBLIC"
<1>1. req[p].photo \in PhotoId /\ Used(req[p].photo)
  BY RequestAt DEF PutOnSale, At, Stored
<1>0. PICK f \in PhotoId : f = req[p].photo
  BY <1>1
<1> DEFINE row == [photo[f] EXCEPT !.watermark = TRUE, !.visibility = "PUBLIC"]
<1>2. CASE ~Live(f)
  <2>1. UNCHANGED photo
    BY <1>0, <1>2 DEF PutOnSale
  <2> QED
    BY <1>0, <1>2, <2>1, SteadySame DEF Steady
<1>3. CASE Live(f)
  <2>1. photo[f] \in UsedPhoto /\ Used(f)
    BY <1>0, <1>1, UsedIsTyped DEF Stored
  <2>2. row \in UsedPhoto /\ row.content = photo[f].content /\ row.hashed = photo[f].hashed
        /\ row.deleted = photo[f].deleted /\ row.visibility = "PUBLIC"
        /\ row.status = photo[f].status
    BY <2>1 DEF UsedPhoto
  <2>3. photo' = [photo EXCEPT ![f] = row]
    BY <1>0, <1>3 DEF PutOnSale
  <2> HIDE DEF row
  <2>4. /\ \A g \in PhotoId : Similar(g)
        /\ \A g \in PhotoId \ {f} : SameLive(g) /\ SameFace(g)
        /\ SameLive(f) /\ photo'[f] = row
    BY <2>1, <2>2, <2>3, SteadyRow
  <2>5. \A g \in PhotoId : SameLive(g)
    BY <2>4
  <2>6. photo'[f].visibility = "PUBLIC"
    BY <2>2, <2>4
  <2> QED
    BY <1>0, <2>4, <2>5, <2>6
<1> QED
  BY <1>2, <1>3

LEMMA WriteRows ==
  ASSUME Stored, NEW f \in PhotoId, NEW w \in BOOLEAN \cup {None},
         NEW v \in {"PUBLIC", "PRIVATE", None}, Write(f, w, v)
  PROVE  /\ \A g \in PhotoId : Similar(g) /\ SameLive(g)
         /\ \A g \in PhotoId \ {f} : SameFace(g)
         /\ v = None => SameFace(f)
<1>1. CASE ~Live(f)
  <2>1. photo' = photo
    BY <1>1 DEF Write, Stored, FilesOK
  <2> QED
    BY <2>1, SteadySame DEF Steady
<1>2. CASE Live(f)
  <2> DEFINE x == IF w = None THEN photo[f].watermark ELSE w
             y == IF v = None THEN photo[f].visibility ELSE v
             row == [photo[f] EXCEPT !.watermark = x, !.visibility = y]
  <2>1. Used(f) /\ photo[f] \in UsedPhoto
    BY <1>2, UsedIsTyped DEF Live, Stored
  <2>2. x \in BOOLEAN /\ y \in {"PUBLIC", "PRIVATE"} /\ (v = None => y = photo[f].visibility)
    BY <2>1 DEF UsedPhoto
  <2>3. photo' = [photo EXCEPT ![f] = row]
    BY <1>2 DEF Write
  <2> HIDE DEF x, y
  <2>4. row \in UsedPhoto /\ row.content = photo[f].content /\ row.hashed = photo[f].hashed
        /\ row.deleted = photo[f].deleted /\ row.visibility = y
        /\ row.status = photo[f].status
    BY <2>1, <2>2 DEF UsedPhoto
  <2> HIDE DEF row
  <2>5. /\ \A g \in PhotoId : Similar(g)
        /\ \A g \in PhotoId \ {f} : SameLive(g) /\ SameFace(g)
        /\ SameLive(f) /\ (v = None => SameFace(f))
    BY <2>1, <2>2, <2>3, <2>4, SteadyRow
  <2>6. \A g \in PhotoId : SameLive(g)
    BY <2>5
  <2> QED
    BY <2>5, <2>6
<1> QED
  BY <1>1, <1>2

LEMMA CreateRows ==
  ASSUME Stored, NEW p \in Procs, CreatePhoto(p)
  PROVE  \E f \in PhotoId :
           /\ ~Used(f) /\ req'[p].photo = f /\ Live(f)'
           /\ photo'[f].content \in Contents /\ photo'[f].status # "DUPLICATED"
           /\ req'[p].kind = "memory" => ~photo'[f].hashed
           /\ \A g \in PhotoId : g # f => photo'[g] = photo[g]
<1> DEFINE memory == req[p].kind = "memory"
           status == IF memory THEN "PARSED" ELSE "PENDING"
           place == IF memory THEN "cloud" ELSE "disk"
<1>1. PICK f \in 1..setting.photos :
              /\ ~Used(f) /\ req'[p].photo = f
              /\ photo' = [photo EXCEPT ![f] =
                   [FreePhoto EXCEPT !.status = status, !.content = req[p].content, !.hashed = ~memory,
                                     !.original = place]]
  BY CreateFields DEF Stored
<1> DEFINE row == [FreePhoto EXCEPT !.status = status, !.content = req[p].content, !.hashed = ~memory,
                                    !.original = place]
<1>2. f \in PhotoId
  <2>1. setting.photos \in 0..MaxPhotos
    BY PhotosAssumption DEF Stored, Plain
  <2> QED
    BY <2>1, PhotosAssumption DEF PhotoId
<1>3. req[p].content \in Contents /\ req'[p].kind = req[p].kind
  BY RequestAt, CreateFields DEF Stored, RequestOK
<1>4. row.status = status /\ row.content = req[p].content /\ row.deleted = FALSE /\ row.hashed = ~memory
  BY DEF FreePhoto
<1>5. status \in {"PARSED", "PENDING"}
  OBVIOUS
<1>6. photo'[f] = row /\ \A g \in PhotoId : g # f => photo'[g] = photo[g]
  BY <1>1, <1>2 DEF Stored, FilesOK
<1>7. req'[p].kind = "memory" => ~row.hashed
  BY <1>3, <1>4, Zenon
<1> HIDE DEF row, status
<1>8. Live(f)' /\ photo'[f].content \in Contents /\ photo'[f].status # "DUPLICATED"
  BY <1>3, <1>4, <1>5, <1>6 DEF Live, Used
<1> QED
  BY <1>1, <1>2, <1>6, <1>7, <1>8

-----------------------------------------------------------------------------
(* Duplicates *)

Another(f) == \E g \in PhotoId \ {f} : photo[g].content = photo[f].content
Pending(f) == job[f].kind = "PROCESS" /\ job[f].pc \in {"queued", "new", "duplicate"}
Uploading(p) == req[p].pc \in {"raise", "queue"}

\* A photo that is being uploaded has no job yet and is in the hands of one request.
UploadsOK ==
  /\ \A p \in Procs : Uploading(p) =>
       /\ job[req[p].photo].pc = "none"
       /\ req[p].kind = "memory" => ~photo[req[p].photo].hashed
  /\ \A p, q \in Procs : Uploading(p) /\ Uploading(q) /\ req[p].photo = req[q].photo => p = q

\* Before anything fails, the job that looks for duplicates has not written the hash yet, so
\* that what it finds is another photo.
DupsOK ==
  failures = 0 => \A f \in PhotoId :
    /\ Pending(f) => ~photo[f].hashed
    /\ JobAt(f, "PROCESS", "duplicate") \/ photo[f].status = "DUPLICATED" => Another(f)

Distinct == UploadsOK /\ DupsOK

LEMMA UploadsKept ==
  ASSUME UploadsOK, NEW p \in Procs, Others(p), job' = job,
         Uploading(p)' => Uploading(p) /\ req'[p].photo = req[p].photo /\ req'[p].kind = req[p].kind,
         Stored, \A g \in PhotoId : Similar(g)
  PROVE  UploadsOK'
<1>1. \A q \in Procs : Uploading(q)' =>
        Uploading(q) /\ req'[q].photo = req[q].photo /\ req'[q].kind = req[q].kind
  BY DEF Others, Uploading
<1>2. \A q \in Procs : Uploading(q) => req[q].photo \in PhotoId
  BY RequestAt DEF Stored, Uploading
<1>3. \A q \in Procs : Uploading(q)' =>
       /\ job'[req'[q].photo].pc = "none"
       /\ req'[q].kind = "memory" => ~photo'[req'[q].photo].hashed
  BY <1>1, <1>2 DEF UploadsOK, Similar
<1>4. \A q, r \in Procs : Uploading(q)' /\ Uploading(r)' /\ req'[q].photo = req'[r].photo => q = r
  BY <1>1 DEF UploadsOK
<1> QED
  BY <1>3, <1>4 DEF UploadsOK

LEMMA DupsKept ==
  ASSUME DupsOK, \A g \in PhotoId : Similar(g), failures' = 0 => failures = 0,
         \A g \in PhotoId : (Pending(g)' => Pending(g))
           /\ (JobAt(g, "PROCESS", "duplicate")' => JobAt(g, "PROCESS", "duplicate"))
  PROVE  DupsOK'
<1> SUFFICES ASSUME failures' = 0, NEW f \in PhotoId
             PROVE  /\ Pending(f)' => ~photo'[f].hashed
                    /\ JobAt(f, "PROCESS", "duplicate")' \/ photo'[f].status = "DUPLICATED" => Another(f)'
  BY DEF DupsOK
<1>1. Another(f) => Another(f)'
  BY DEF Another, Similar
<1> QED
  BY <1>1 DEF DupsOK, Similar

\* A step of a request that starts no job.
LEMMA RequestDistinct ==
  ASSUME Stored, Distinct, NEW p \in Procs, Others(p), UNCHANGED job, failures' = failures,
         Uploading(p)' => Uploading(p) /\ req'[p].photo = req[p].photo /\ req'[p].kind = req[p].kind,
         \A g \in PhotoId : Similar(g)
  PROVE  Distinct'
<1>1. \A g \in PhotoId : (Pending(g)' => Pending(g))
           /\ (JobAt(g, "PROCESS", "duplicate")' => JobAt(g, "PROCESS", "duplicate"))
  BY DEF Pending, JobAt
<1> QED
  BY <1>1, UploadsKept, DupsKept DEF Distinct

LEMMA DoneDistinct ==
  ASSUME Stored, Distinct, NEW p \in Procs, Done(p), UNCHANGED job, failures' = failures,
         \A g \in PhotoId : Similar(g)
  PROVE  Distinct'
<1>1. Others(p) /\ ~Uploading(p)'
  BY DoneFields DEF Stored, Uploading
<1> QED
  BY <1>1, RequestDistinct

LEMMA GotoDistinct ==
  ASSUME Stored, Distinct, NEW p \in Procs, NEW pc, Goto(p, pc),
         pc \in {"raise", "queue"} => Uploading(p), UNCHANGED job, failures' = failures,
         \A g \in PhotoId : Similar(g)
  PROVE  Distinct'
<1>1. Others(p) /\ req'[p].pc = pc /\ req'[p].photo = req[p].photo /\ req'[p].kind = req[p].kind
  BY GotoFields DEF Stored
<1>2. Uploading(p)' => Uploading(p)
  BY <1>1 DEF Uploading
<1> QED
  BY <1>1, <1>2, RequestDistinct

LEMMA SimilarSame ==
  ASSUME UNCHANGED photo PROVE \A g \in PhotoId : Similar(g)
  BY SteadySame DEF Steady

LEMMA RestDistinct ==
  ASSUME Stored, Distinct, UNCHANGED <<req, job, failures>>, \A g \in PhotoId : Similar(g)
  PROVE  Distinct'
<1>1. UploadsOK'
  <2>1. \A q \in Procs : Uploading(q) => req[q].photo \in PhotoId
    BY RequestAt DEF Stored, Uploading
  <2> QED
    BY <2>1 DEF Distinct, UploadsOK, Uploading, Similar
<1>2. \A g \in PhotoId : (Pending(g)' => Pending(g))
           /\ (JobAt(g, "PROCESS", "duplicate")' => JobAt(g, "PROCESS", "duplicate"))
  BY DEF Pending, JobAt
<1>3. failures' = 0 => failures = 0
  OBVIOUS
<1> QED
  BY <1>1, <1>2, <1>3, DupsKept DEF Distinct

\* A step of a job is of a photo that is not being uploaded.
LEMMA UploadsJob ==
  ASSUME Stored, UploadsOK, NEW f \in PhotoId, job[f].pc # "none", UNCHANGED req,
         \A g \in PhotoId \ {f} : job'[g] = job[g] /\ photo'[g].hashed = photo[g].hashed
  PROVE  UploadsOK'
<1>1. \A q \in Procs : Uploading(q) => req[q].photo \in PhotoId \ {f}
  BY RequestAt DEF Stored, Uploading, UploadsOK
<1> QED
  BY <1>1 DEF UploadsOK, Uploading

LEMMA JobDistinct ==
  ASSUME Stored, Distinct, NEW f \in PhotoId, job[f].pc # "none", UNCHANGED req,
         \A g \in PhotoId : Similar(g), \A g \in PhotoId \ {f} : job'[g] = job[g],
         failures' = 0 => failures = 0,
         failures' = 0 /\ Pending(f)' => Pending(f) /\ job'[f].pc # "duplicate"
  PROVE  Distinct'
<1>1. UploadsOK'
  BY UploadsJob DEF Distinct, Similar
<1>2. CASE failures' = 0
  <2>1. ASSUME NEW g \in PhotoId
        PROVE  (Pending(g)' => Pending(g))
           /\ (JobAt(g, "PROCESS", "duplicate")' => JobAt(g, "PROCESS", "duplicate"))
    BY <1>2 DEF Pending, JobAt
  <2>2. DupsOK'
    BY <2>1, DupsKept DEF Distinct
  <2> QED
    BY <1>1, <2>2 DEF Distinct
<1>3. CASE failures' # 0
  BY <1>1, <1>3 DEF Distinct, DupsOK
<1> QED
  BY <1>2, <1>3

LEMMA FailedJob ==
  ASSUME Stored, NEW f \in PhotoId, Failed(f)
  PROVE  /\ \A g \in PhotoId \ {f} : job'[g] = job[g]
         /\ job'[f].pc \in {"none", "queued"}
         /\ job'[f].pc = "queued" => job'[f].kind = job[f].kind
<1>0. job \in [PhotoId -> JobType] /\ job[f] \in JobType
  BY DEF Stored, FilesOK
<1>1. CASE job[f].left > 1
  <2> DEFINE j == [job[f] EXCEPT !.pc = "queued", !.left = @ - 1]
  <2>1. j.pc = "queued" /\ j.kind = job[f].kind
    BY <1>0 DEF JobType
  <2>2. job' = [job EXCEPT ![f] = j]
    BY <1>1 DEF Failed
  <2> HIDE DEF j
  <2> QED
    BY <1>0, <2>1, <2>2
<1>2. CASE ~(job[f].left > 1)
  <2>1. job' = [job EXCEPT ![f] = NoJob]
    BY <1>2 DEF Failed
  <2> QED
    BY <1>0, <2>1, NoJobTyped
<1> QED
  BY <1>1, <1>2

LEMMA JobGotoFields ==
  ASSUME Stored, NEW f \in PhotoId, NEW pc, JobGoto(f, pc)
  PROVE  /\ \A g \in PhotoId \ {f} : job'[g] = job[g]
         /\ job'[f].pc = pc /\ job'[f].kind = job[f].kind
<1>1. job \in [PhotoId -> JobType] /\ job[f] \in JobType
  BY DEF Stored, FilesOK
<1>2. job'[f] = [job[f] EXCEPT !.pc = pc] /\ \A g \in PhotoId \ {f} : job'[g] = job[g]
  BY <1>1 DEF JobGoto
<1> QED
  BY <1>1, <1>2 DEF JobType

LEMMA CreateDistinct ==
  ASSUME Stored, Distinct, NEW p \in Procs, CreatePhoto(p) PROVE Distinct'
<1>1. PICK f \in PhotoId :
           /\ ~Used(f) /\ req'[p].photo = f /\ Live(f)'
           /\ photo'[f].content \in Contents /\ photo'[f].status # "DUPLICATED"
           /\ req'[p].kind = "memory" => ~photo'[f].hashed
           /\ \A g \in PhotoId : g # f => photo'[g] = photo[g]
  BY CreateRows
<1>2. Others(p) /\ req[p].pc = "create" /\ req'[p].pc = "raise"
  BY CreateFields DEF Stored
<1>3. job' = job /\ failures' = failures
  BY DEF CreatePhoto, jobVars
<1>4. job[f].pc = "none"
  BY <1>1 DEF Stored, FilesOK, JobOK
<1>5. \A q \in Procs : Uploading(q) => req[q].photo \in PhotoId \ {f}
  BY <1>1, RequestAt DEF Stored, Uploading
<1>6. UploadsOK'
  <2>1. \A q \in Procs : q # p => (Uploading(q)' <=> Uploading(q)) /\ req'[q] = req[q]
    BY <1>2 DEF Others, Uploading
  <2>2. \A q \in Procs : Uploading(q)' =>
          /\ job'[req'[q].photo].pc = "none"
          /\ req'[q].kind = "memory" => ~photo'[req'[q].photo].hashed
    <3> SUFFICES ASSUME NEW q \in Procs, Uploading(q)'
                 PROVE  /\ job'[req'[q].photo].pc = "none"
                        /\ req'[q].kind = "memory" => ~photo'[req'[q].photo].hashed
      OBVIOUS
    <3>1. CASE q = p
      BY <1>1, <1>3, <1>4, <3>1
    <3>2. CASE q # p
      <4>1. req'[q] = req[q] /\ Uploading(q) /\ req[q].photo \in PhotoId \ {f}
        BY <2>1, <1>5, <3>2
      <4>2. photo'[req[q].photo] = photo[req[q].photo]
        BY <1>1, <4>1
      <4> QED
        BY <1>3, <4>1, <4>2 DEF Distinct, UploadsOK
    <3> QED
      BY <3>1, <3>2
  <2>3. ASSUME NEW q \in Procs, NEW r \in Procs, Uploading(q)', Uploading(r)', req'[q].photo = req'[r].photo
        PROVE  q = r
    <3>1. CASE q # p /\ r # p
      BY <2>1, <2>3, <3>1 DEF Distinct, UploadsOK
    <3>2. CASE q = p /\ r # p
      BY <1>1, <1>5, <2>1, <2>3, <3>2
    <3>3. CASE q # p /\ r = p
      BY <1>1, <1>5, <2>1, <2>3, <3>3
    <3> QED
      BY <3>1, <3>2, <3>3
  <2> QED
    BY <2>2, <2>3 DEF UploadsOK
<1>7. DupsOK'
  <2> SUFFICES ASSUME failures' = 0, NEW h \in PhotoId
               PROVE  /\ Pending(h)' => ~photo'[h].hashed
                      /\ JobAt(h, "PROCESS", "duplicate")' \/ photo'[h].status = "DUPLICATED" => Another(h)'
    BY DEF DupsOK
  <2>1. CASE h = f
    BY <1>1, <1>3, <1>4, <2>1 DEF Pending, JobAt
  <2>2. CASE h # f
    <3>1. photo'[h] = photo[h] /\ (Pending(h)' <=> Pending(h))
          /\ (JobAt(h, "PROCESS", "duplicate")' <=> JobAt(h, "PROCESS", "duplicate"))
      BY <1>1, <1>3, <2>2 DEF Pending, JobAt
    <3>2. ASSUME JobAt(h, "PROCESS", "duplicate") \/ photo[h].status = "DUPLICATED"
          PROVE  Another(h)'
      <4>1. Used(h)
        BY <3>2 DEF Stored, FilesOK, JobOK, JobAt, Used
      <4>2. photo[h].content \in Contents
        BY <4>1, UsedIsTyped DEF UsedPhoto, Stored
      <4>3. PICK g \in PhotoId \ {h} : photo[g].content = photo[h].content
        BY <1>3, <3>2 DEF Distinct, DupsOK, Another
      <4>4. photo[f].content = None
        BY <1>1 DEF Stored, FilesOK, PhotoType, UsedPhoto, FreePhoto, Used
      <4>5. g # f
        BY <4>2, <4>3, <4>4, PhotosAssumption
      <4> QED
        BY <1>1, <3>1, <4>3, <4>5 DEF Another
    <3> QED
      BY <1>3, <3>1, <3>2 DEF Distinct, DupsOK
  <2> QED
    BY <2>1, <2>2
<1> QED
  BY <1>6, <1>7 DEF Distinct

LEMMA QueueJobDistinct ==
  ASSUME Stored, Distinct, NEW p \in Procs, QueueJob(p) PROVE Distinct'
<1>0. req[p].pc = "queue" /\ req[p].photo \in PhotoId /\ Uploading(p)
  BY RequestAt DEF Stored, QueueJob, At, Uploading
<1>1. PICK f \in PhotoId : f = req[p].photo
  BY <1>0
<1>2. Others(p) /\ ~Uploading(p)'
  BY DoneFields DEF QueueJob, Stored, Uploading
<1>3. photo' = photo /\ failures' = failures
  BY DEF QueueJob
<1>4. /\ \A g \in PhotoId \ {f} : job'[g] = job[g]
      /\ job'[f].pc = "queued" /\ (job'[f].kind = "PROCESS" => req[p].kind = "memory")
  BY <1>1 DEF QueueJob, Stored, FilesOK
<1>5. UploadsOK'
  <2>1. \A q \in Procs : Uploading(q)' => Uploading(q) /\ req'[q] = req[q] /\ q # p
    BY <1>2 DEF Others, Uploading
  <2>2. \A q \in Procs : Uploading(q)' => req[q].photo \in PhotoId \ {f}
    BY <1>0, <1>1, <2>1, RequestAt DEF Stored, Uploading, Distinct, UploadsOK
  <2> QED
    BY <1>3, <1>4, <2>1, <2>2 DEF Distinct, UploadsOK
<1>6. DupsOK'
  <2> SUFFICES ASSUME failures' = 0, NEW h \in PhotoId
               PROVE  /\ Pending(h)' => ~photo'[h].hashed
                      /\ JobAt(h, "PROCESS", "duplicate")' \/ photo'[h].status = "DUPLICATED" => Another(h)'
    BY DEF DupsOK
  <2>1. Another(h) <=> Another(h)'
    BY <1>3 DEF Another
  <2>2. CASE h = f
    <3>1. Pending(h)' => req[p].kind = "memory"
      BY <1>4, <2>2 DEF Pending
    <3>2. Pending(h)' => ~photo'[h].hashed
      BY <1>0, <1>1, <1>3, <2>2, <3>1 DEF Distinct, UploadsOK
    <3>3. ~JobAt(h, "PROCESS", "duplicate")'
      BY <1>4, <2>2 DEF JobAt
    <3> QED
      BY <1>3, <2>1, <3>2, <3>3 DEF Distinct, DupsOK
  <2>3. CASE h # f
    BY <1>3, <1>4, <2>1, <2>3 DEF Distinct, DupsOK, Pending, JobAt
  <2> QED
    BY <2>2, <2>3
<1> QED
  BY <1>5, <1>6 DEF Distinct

LEMMA UploadJobDistinct ==
  ASSUME Stored, Distinct, NEW f \in PhotoId, UploadCopy(f) \/ UploadWrite(f) \/ UploadEnd(f)
  PROVE  Distinct'
<1>1. UNCHANGED <<req, failures>> /\ job[f].pc # "none" /\ job[f].kind = "UPLOAD"
  BY DEF UploadCopy, UploadWrite, UploadEnd, JobAt
<1>2. \A g \in PhotoId : Similar(g)
  <2>1. CASE UploadWrite(f)
    BY <2>1, UploadWriteRows DEF Steady
  <2>2. CASE UploadCopy(f) \/ UploadEnd(f)
    BY <2>2, SimilarSame DEF UploadCopy, UploadEnd
  <2> QED
    BY <2>1, <2>2
<1>3. (\A g \in PhotoId \ {f} : job'[g] = job[g]) /\ ~Pending(f)'
  <2>1. CASE Failed(f)
    BY <1>1, <2>1, FailedJob DEF Pending
  <2>2. CASE JobGoto(f, "copied") \/ JobGoto(f, "written")
    BY <1>1, <2>2, JobGotoFields DEF Pending
  <2>3. CASE job' = [job EXCEPT ![f] = NoJob]
    BY <2>3, NoJobTyped DEF Stored, FilesOK, Pending
  <2> QED
    BY <2>1, <2>2, <2>3 DEF UploadCopy, UploadWrite, UploadEnd
<1> QED
  BY <1>1, <1>2, <1>3, JobDistinct

LEMMA ProcessCompareDistinct ==
  ASSUME Stored, Distinct, NEW f \in PhotoId, ProcessCompare(f) PROVE Distinct'
<1>1. UNCHANGED <<photo, req, failures>> /\ job[f].pc = "queued" /\ job[f].kind = "PROCESS" /\ Pending(f)
  BY DEF ProcessCompare, JobAt, Pending
<1>2. \A g \in PhotoId : Similar(g)
  BY <1>1, SimilarSame
<1>3. CASE Failed(f)
  <2>1. (\A g \in PhotoId \ {f} : job'[g] = job[g]) /\ job'[f].pc # "duplicate"
    BY <1>3, FailedJob
  <2> QED
    BY <1>1, <1>2, <2>1, JobDistinct
<1>4. CASE JobGoto(f, "new")
  <2>1. (\A g \in PhotoId \ {f} : job'[g] = job[g]) /\ job'[f].pc # "duplicate"
    BY <1>4, JobGotoFields
  <2> QED
    BY <1>1, <1>2, <2>1, JobDistinct
<1>5. CASE JobGoto(f, "duplicate") /\ \E g \in PhotoId : HasHash(g, photo[f].content)
  <2>1. (\A g \in PhotoId \ {f} : job'[g] = job[g]) /\ job'[f].kind = "PROCESS"
    BY <1>1, <1>5, JobGotoFields
  <2>2. UploadsOK'
    BY <1>1, <2>1, UploadsJob DEF Distinct
  <2>3. DupsOK'
    <3> SUFFICES ASSUME failures' = 0, NEW h \in PhotoId
                 PROVE  /\ Pending(h)' => ~photo'[h].hashed
                        /\ JobAt(h, "PROCESS", "duplicate")' \/ photo'[h].status = "DUPLICATED" => Another(h)'
      BY DEF DupsOK
    <3>1. Another(h) <=> Another(h)'
      BY <1>1 DEF Another
    <3>2. CASE h = f
      <4>1. ~photo[f].hashed
        BY <1>1 DEF Distinct, DupsOK
      <4>2. Another(f)
        BY <1>5, <4>1 DEF HasHash, Another
      <4> QED
        BY <1>1, <3>1, <3>2, <4>1, <4>2
    <3>3. CASE h # f
      BY <1>1, <2>1, <3>1, <3>3 DEF Distinct, DupsOK, Pending, JobAt
    <3> QED
      BY <3>2, <3>3
  <2> QED
    BY <2>2, <2>3 DEF Distinct
<1> QED
  BY <1>3, <1>4, <1>5 DEF ProcessCompare

\* What the job that looks for duplicates writes.
LEMMA ProcessWriteRows ==
  ASSUME Stored, NEW f \in PhotoId, ProcessWrite(f), Live(f)
  PROVE  /\ \A g \in PhotoId \ {f} : photo'[g] = photo[g]
         /\ photo'[f].content = photo[f].content /\ SameLive(f)
         /\ \/ /\ job[f].pc = "new" /\ photo'[f].hashed /\ photo'[f].status = photo[f].status /\ SameFace(f)
            \/ /\ job[f].pc = "duplicate" /\ photo'[f].hashed = photo[f].hashed
         /\ JobGoto(f, "written")
<1>1. photo[f] \in UsedPhoto
  BY UsedIsTyped DEF Live, Stored
<1>2. CASE job[f].pc = "new"
  <2> DEFINE row == [photo[f] EXCEPT !.hashed = TRUE]
  <2>1. row.content = photo[f].content /\ row.deleted = photo[f].deleted /\ row.hashed
        /\ row.status = photo[f].status /\ row.visibility = photo[f].visibility
    BY <1>1 DEF UsedPhoto
  <2>2. photo' = [photo EXCEPT ![f] = row] /\ JobGoto(f, "written")
    BY <1>2 DEF ProcessWrite
  <2> HIDE DEF row
  <2>3. photo'[f] = row /\ \A g \in PhotoId \ {f} : photo'[g] = photo[g]
    BY <2>2 DEF Stored, FilesOK
  <2> QED
    BY <1>2, <2>1, <2>2, <2>3 DEF SameLive, SameFace, Live, Used
<1>3. CASE job[f].pc # "new"
  <2> DEFINE row == [photo[f] EXCEPT !.status = "DUPLICATED", !.visibility = "PRIVATE"]
  <2>1. row.content = photo[f].content /\ row.deleted = photo[f].deleted /\ row.hashed = photo[f].hashed
        /\ row.status = "DUPLICATED"
    BY <1>1 DEF UsedPhoto
  <2>2. photo' = [photo EXCEPT ![f] = row] /\ JobGoto(f, "written") /\ job[f].pc = "duplicate"
    BY <1>3 DEF ProcessWrite
  <2> HIDE DEF row
  <2>3. photo'[f] = row /\ \A g \in PhotoId \ {f} : photo'[g] = photo[g]
    BY <2>2 DEF Stored, FilesOK
  <2> QED
    BY <2>1, <2>2, <2>3 DEF SameLive, Live, Used
<1> QED
  BY <1>2, <1>3

LEMMA ProcessWriteDistinct ==
  ASSUME Stored, Distinct, NEW f \in PhotoId, ProcessWrite(f) PROVE Distinct'
<1>1. UNCHANGED <<req, failures>> /\ job[f].pc \in {"new", "duplicate"} /\ job[f].kind = "PROCESS" /\ Pending(f)
  BY DEF ProcessWrite, Pending
<1>2. CASE ~Live(f)
  <2>1. Failed(f) /\ \A g \in PhotoId : Similar(g)
    BY <1>2, SimilarSame DEF ProcessWrite
  <2>2. (\A g \in PhotoId \ {f} : job'[g] = job[g]) /\ job'[f].pc # "duplicate"
    BY <2>1, FailedJob
  <2> QED
    BY <1>1, <2>1, <2>2, JobDistinct
<1>3. CASE Live(f)
  <2>1. /\ \A g \in PhotoId \ {f} : photo'[g] = photo[g]
        /\ photo'[f].content = photo[f].content
        /\ \/ job[f].pc = "new" /\ photo'[f].status = photo[f].status
           \/ job[f].pc = "duplicate"
        /\ JobGoto(f, "written")
    BY <1>3, ProcessWriteRows
  <2>2. (\A g \in PhotoId \ {f} : job'[g] = job[g]) /\ job'[f].pc = "written"
    BY <2>1, JobGotoFields
  <2>3. UploadsOK'
    <3>1. \A g \in PhotoId \ {f} : job'[g] = job[g] /\ photo'[g].hashed = photo[g].hashed
      BY <2>1, <2>2
    <3> QED
      BY <1>1, <3>1, UploadsJob DEF Distinct
  <2>4. DupsOK'
    <3> SUFFICES ASSUME failures' = 0, NEW h \in PhotoId
                 PROVE  /\ Pending(h)' => ~photo'[h].hashed
                        /\ JobAt(h, "PROCESS", "duplicate")' \/ photo'[h].status = "DUPLICATED" => Another(h)'
      BY DEF DupsOK
    <3>1. Another(h) => Another(h)'
      BY <2>1 DEF Another
    <3>2. CASE h = f
      <4>1. ~Pending(h)' /\ ~JobAt(h, "PROCESS", "duplicate")'
        BY <2>2, <3>2 DEF Pending, JobAt
      <4>2. photo'[h].status = "DUPLICATED" => Another(h)
        BY <1>1, <2>1, <3>2 DEF Distinct, DupsOK, JobAt
      <4> QED
        BY <3>1, <4>1, <4>2
    <3>3. CASE h # f
      BY <1>1, <2>1, <2>2, <3>1, <3>3 DEF Distinct, DupsOK, Pending, JobAt
    <3> QED
      BY <3>2, <3>3
  <2> QED
    BY <2>3, <2>4 DEF Distinct
<1> QED
  BY <1>2, <1>3

LEMMA QueueDistinct ==
  ASSUME Stored, Distinct, NEW f \in PhotoId,
         ProcessEnd(f) \/ JobFails(f) \/ Purge(f) \/ BanPhoto(f) \/ UnbanPhoto(f)
  PROVE  Distinct'
<1>1. CASE ProcessEnd(f)
  <2>1. UNCHANGED <<req, failures, photo>> /\ job[f].pc # "none"
    BY <1>1 DEF ProcessEnd, JobAt
  <2>2. (\A g \in PhotoId \ {f} : job'[g] = job[g]) /\ ~Pending(f)'
    BY <1>1, NoJobTyped DEF ProcessEnd, Stored, FilesOK, Pending
  <2> QED
    BY <2>1, <2>2, SimilarSame, JobDistinct
<1>2. CASE JobFails(f)
  <2>1. UNCHANGED <<req, photo>> /\ job[f].pc # "none" /\ failures' # 0
    BY <1>2 DEF JobFails, Stored, Plain
  <2>2. \A g \in PhotoId \ {f} : job'[g] = job[g]
    BY <1>2, FailedJob DEF JobFails
  <2> QED
    BY <2>1, <2>2, SimilarSame, JobDistinct
<1>3. CASE Purge(f)
  BY <1>3, SimilarSame, RestDistinct DEF Purge
<1>4. CASE BanPhoto(f)
  <2>1. \A g \in PhotoId : Similar(g)
    BY <1>4, SetStatusRows DEF BanPhoto, Steady
  <2> QED
    BY <1>4, <2>1, RestDistinct DEF BanPhoto
<1>5. CASE UnbanPhoto(f)
  <2>1. \A g \in PhotoId : Similar(g)
    BY <1>5, SetStatusRows DEF UnbanPhoto, Steady
  <2> QED
    BY <1>5, <2>1, RestDistinct DEF UnbanPhoto
<1> QED
  BY <1>1, <1>2, <1>3, <1>4, <1>5

LEMMA AsksDistinct ==
  ASSUME Stored, Distinct, NEW p \in Procs, OwnerAsks(p) \/ OwnerSells(p) \/ ManagerAsks(p)
  PROVE  Distinct'
<1>1. ASSUME Others(p), req'[p].pc \notin {"raise", "queue"}, UNCHANGED <<photo, jobVars, failures>>
      PROVE  Distinct'
  <2>1. ~Uploading(p)'
    BY <1>1 DEF Uploading
  <2> QED
    BY <1>1, <2>1, SimilarSame, RequestDistinct DEF jobVars
<1>0. RequestsOK
  BY DEF Stored
<1>2. ASSUME NEW way, NEW c, Upload(p, way, c) PROVE Distinct'
  <2>1. Others(p) /\ req'[p].pc \notin {"raise", "queue"}
    BY <1>0, <1>2, UploadBegins
  <2> QED
    BY <1>1, <1>2, <2>1 DEF Upload
<1>3. ASSUME NEW f, NEW who, Delete(p, f, who) PROVE Distinct'
  <2>1. Others(p) /\ req'[p].pc \notin {"raise", "queue"}
    BY <1>0, <1>3, DeleteBegins
  <2> QED
    BY <1>1, <1>3, <2>1 DEF Delete
<1>4. ASSUME NEW f, View(p, f) PROVE Distinct'
  <2>1. Others(p) /\ req'[p].pc \notin {"raise", "queue"}
    BY <1>0, <1>4, ViewBegins
  <2> QED
    BY <1>1, <1>4, <2>1 DEF View
<1>5. ASSUME NEW f, NEW w, NEW v, UpdatePhoto(p, f, w, v) PROVE Distinct'
  <2>1. Others(p) /\ req'[p].pc \notin {"raise", "queue"}
    BY <1>0, <1>5, UpdateBegins
  <2> QED
    BY <1>1, <1>5, <2>1 DEF UpdatePhoto
<1>6. ASSUME NEW f, NEW w, NEW v, ManagerUpdate(p, f, w, v) PROVE Distinct'
  <2>1. Others(p) /\ req'[p].pc \notin {"raise", "queue"}
    BY <1>0, <1>6, ManagerUpdateBegins
  <2> QED
    BY <1>1, <1>6, <2>1 DEF ManagerUpdate
<1>7. ASSUME NEW f, SellPhoto(p, f) PROVE Distinct'
  <2>1. Others(p) /\ req'[p].pc \notin {"raise", "queue"}
    BY <1>0, <1>7, SellBegins
  <2> QED
    BY <1>1, <1>7, <2>1 DEF SellPhoto
<1>8. ASSUME NEW f, StopSellingPhoto(p, f) PROVE Distinct'
  <2>1. Others(p) /\ req'[p].pc \notin {"raise", "queue"}
    BY <1>0, <1>8, StopBegins
  <2> QED
    BY <1>1, <1>8, <2>1 DEF StopSellingPhoto
<1>9. ASSUME NEW f, Ban(f) \/ Unban(f) PROVE Distinct'
  BY <1>9, SimilarSame, RestDistinct DEF Ban, Unban
<1> QED
  BY <1>2, <1>3, <1>4, <1>5, <1>6, <1>7, <1>8, <1>9 DEF OwnerAsks, OwnerSells, ManagerAsks

LEMMA StepDistinct ==
  ASSUME Stored, Distinct, NEW p \in Procs, Step(p)
  PROVE  Distinct'
<1>0. RequestsOK
  BY DEF Stored
<1>1. CASE CompareHash(p)
  <2>1. UNCHANGED <<photo, job, failures>> /\ (Done(p) \/ Goto(p, "create"))
    BY <1>1 DEF CompareHash, jobVars
  <2> QED
    BY <2>1, SimilarSame, DoneDistinct, GotoDistinct
<1>2. CASE RaiseUsage(p)
  <2>1. UNCHANGED <<photo, job, failures>> /\ Goto(p, "queue") /\ Uploading(p)
    BY <1>2 DEF RaiseUsage, jobVars, At, Uploading
  <2> QED
    BY <2>1, SimilarSame, GotoDistinct
<1>3. CASE DeleteRow(p)
  <2>1. UNCHANGED <<job, failures>> /\ (Done(p) \/ Goto(p, "readUsage"))
    BY <1>3 DEF DeleteRow, jobVars
  <2>2. \A g \in PhotoId : Similar(g)
    BY <1>3, DeleteRowRows
  <2> QED
    BY <2>1, <2>2, DoneDistinct, GotoDistinct
<1>4. CASE ReadUsage(p)
  <2>1. UNCHANGED <<photo, job, failures>>
    BY <1>4 DEF ReadUsage, jobVars
  <2>2. Others(p) /\ ~Uploading(p)'
    BY <1>0, <1>4, ReadUsageFields DEF Uploading
  <2> QED
    BY <2>1, <2>2, SimilarSame, RequestDistinct
<1>5. CASE LowerUsage(p)
  <2>1. UNCHANGED <<photo, job, failures>> /\ (Done(p) \/ Goto(p, "deleteRow"))
    BY <1>5 DEF LowerUsage, jobVars
  <2> QED
    BY <2>1, SimilarSame, DoneDistinct, GotoDistinct
<1>6. CASE ReadForMark(p)
  <2>1. UNCHANGED <<photo, job, failures>>
    BY <1>6 DEF ReadForMark, jobVars
  <2>2. Others(p) /\ ~Uploading(p)'
    BY <1>0, <1>6, ReadForMarkFields DEF Uploading
  <2> QED
    BY <2>1, <2>2, SimilarSame, RequestDistinct
<1>7. CASE WriteMark(p)
  <2>1. UNCHANGED <<job, failures>> /\ (Done(p) \/ Goto(p, "sell") \/ Goto(p, "update"))
    BY <1>7 DEF WriteMark, jobVars
  <2>2. \A g \in PhotoId : Similar(g)
    BY <1>7, WriteMarkRows DEF Steady
  <2> QED
    BY <2>1, <2>2, DoneDistinct, GotoDistinct
<1>8. CASE FindActive(p)
  <2>1. UNCHANGED <<photo, job, failures>>
    BY <1>8 DEF FindActive, jobVars
  <2>2. Others(p) /\ ~Uploading(p)'
    BY <1>0, <1>8, FindActiveFields DEF Uploading
  <2> QED
    BY <2>1, <2>2, SimilarSame, RequestDistinct
<1>9. CASE PutOnSale(p)
  <2>1. UNCHANGED <<job, failures>> /\ Done(p)
    BY <1>9 DEF PutOnSale, jobVars
  <2>2. \A g \in PhotoId : Similar(g)
    BY <1>9, PutOnSaleRows
  <2> QED
    BY <2>1, <2>2, DoneDistinct
<1>10. CASE StopSales(p)
  <2>1. UNCHANGED <<photo, job, failures>> /\ Goto(p, "hide")
    BY <1>10 DEF StopSales, jobVars
  <2> QED
    BY <2>1, SimilarSame, GotoDistinct
<1>11. CASE HidePhoto(p)
  <2>1. UNCHANGED <<job, failures>> /\ Done(p)
    BY <1>11 DEF HidePhoto, jobVars
  <2>2. req[p].photo \in PhotoId
    BY <1>11, RequestAt DEF HidePhoto, At, Stored
  <2>3. \A g \in PhotoId : Similar(g)
    BY <1>11, <2>2, WriteRows DEF HidePhoto
  <2> QED
    BY <2>1, <2>3, DoneDistinct
<1>12. CASE WriteUpdate(p)
  <2>1. UNCHANGED <<job, failures>> /\ Done(p)
    BY <1>12 DEF WriteUpdate, jobVars
  <2>2. req[p].photo \in PhotoId /\ req[p].watermark \in BOOLEAN \cup {None}
        /\ req[p].visibility \in {"PUBLIC", "PRIVATE", None}
    BY <1>12, RequestAt DEF WriteUpdate, At, Stored, RequestType
  <2>3. \A g \in PhotoId : Similar(g)
    BY <1>12, <2>2, WriteRows, SimilarSame DEF WriteUpdate
  <2> QED
    BY <2>1, <2>3, DoneDistinct
<1> QED
  BY <1>1, <1>2, <1>3, <1>4, <1>5, <1>6, <1>7, <1>8, <1>9, <1>10, <1>11, <1>12,
     CreateDistinct, QueueJobDistinct DEF Step

LEMMA InitDistinct == Init => Distinct
<1> SUFFICES ASSUME Init PROVE Distinct
  OBVIOUS
<1>1. \A p \in Procs : ~Uploading(p)
  BY DEF Init, Uploading, Idle
<1>2. \A f \in PhotoId : job[f] = NoJob /\ photo[f] = FreePhoto
  BY DEF Init
<1>3. \A f \in PhotoId : ~Pending(f) /\ ~JobAt(f, "PROCESS", "duplicate") /\ photo[f].status # "DUPLICATED"
  BY <1>2 DEF Pending, JobAt, NoJob, FreePhoto
<1> QED
  BY <1>1, <1>3 DEF Distinct, UploadsOK, DupsOK

LEMMA NextDistinct == Stored /\ Distinct /\ [Next]_vars => Distinct'
<1> SUFFICES ASSUME Stored, Distinct, [Next]_vars PROVE Distinct'
  OBVIOUS
<1>1. CASE UNCHANGED vars
  BY <1>1, SimilarSame, RestDistinct DEF vars, jobVars
<1>2. ASSUME NEW p \in Procs, FailRequest(p) PROVE Distinct'
  <2>1. UploadsOK' /\ failures' # 0
    <3>1. Others(p) /\ ~Uploading(p)' /\ job' = job /\ photo' = photo
      BY <1>2, DoneFields DEF FailRequest, Stored, Uploading, jobVars
    <3>2. UploadsOK'
      BY <3>1, SimilarSame, UploadsKept DEF Distinct
    <3> QED
      BY <1>2, <3>2 DEF FailRequest, Stored, Plain
  <2> QED
    BY <2>1 DEF Distinct, DupsOK
<1>3. ASSUME NEW f \in PhotoId, JobStep(f) PROVE Distinct'
  BY <1>3, UploadJobDistinct, ProcessCompareDistinct, ProcessWriteDistinct, QueueDistinct DEF JobStep
<1> QED
  BY <1>1, <1>2, <1>3, QueueDistinct, AsksDistinct, StepDistinct DEF Next

LEMMA AlwaysDistinct == Spec => [](Stored /\ Distinct)
  BY InitStored, NextStored, InitDistinct, NextDistinct, PTL DEF Spec

\* Until something fails, a photo is only marked as a duplicate when there is another one of its content.
THEOREM PhotosDuplicates == Spec => []DuplicateOfAnother
<1>1. Distinct => DuplicateOfAnother
  BY DEF Distinct, DupsOK, DuplicateOfAnother, Another
<1> QED
  BY <1>1, AlwaysDistinct, PTL

-----------------------------------------------------------------------------
(* Requests one at a time *)

LEMMA Alone ==
  ASSUME Stored, Bounded, Serial, NEW p \in Procs, p \in setting.procs
  PROVE  setting.procs = {p} /\ \A q \in Procs : q # p => req[q].pc = "idle"
<1>1. setting.procs \in SUBSET Procs
  BY PhotosAssumption DEF Stored, Plain
<1>2. IsFiniteSet(setting.procs)
  BY <1>1, ProcsFinite, FS_Subset
<1>3. Cardinality(setting.procs) = 1
  BY DEF Serial, InFlight
<1>4. PICK x : setting.procs = {x}
  BY <1>2, <1>3, FS_Singleton
<1>5. setting.procs = {p}
  BY <1>4
<1> QED
  BY <1>5 DEF Bounded, KindsOK

\* While its photo is on sale, a request is neither uploading nor hiding it, and if it has seen
\* no sale it is not about to write its visibility.
Safe(p) ==
  \/ selling[req[p].photo] = 0
  \/ /\ req[p].pc \notin {"raise", "queue", "hide"}
     /\ req[p].kind \in {"owner", "manager"} /\ req[p].pc \in {"mark", "markWrite", "update"} /\ ~req[p].seen
          => req[p].visibility = None

\* The job that looks for duplicates may still write the hash of a photo on sale.
Shown ==
  Serial /\ failures = 0 =>
    \A f \in PhotoId : selling[f] > 0 /\ (photo[f].hashed \/ Pending(f)) => photo[f].visibility = "PUBLIC"
NotDeleted == \A f \in PhotoId : selling[f] > 0 => Live(f)
Careful == Serial => \A p \in Procs : Safe(p)

SalesOK == NotDeleted /\ Careful /\ Shown

LEMMA CarefulStep ==
  ASSUME Stored, Bounded, NEW p \in Procs, Others(p), p \in setting.procs, setting' = setting,
         Serial => Safe(p)'
  PROVE  Careful'
<1> SUFFICES ASSUME Serial, NEW q \in Procs PROVE Safe(q)'
  BY DEF Careful, Serial, InFlight
<1>1. CASE q = p
  BY <1>1
<1>2. CASE q # p
  <2>1. req[q].pc = "idle" /\ req'[q] = req[q]
    BY <1>2, Alone DEF Others
  <2> QED
    BY <2>1 DEF Safe
<1> QED
  BY <1>1, <1>2

LEMMA CarefulSame ==
  ASSUME Careful, UNCHANGED <<setting, req, selling>> PROVE Careful'
  BY DEF Careful, Serial, InFlight, Safe

LEMMA SteadySales ==
  ASSUME SalesOK, \A g \in PhotoId : Similar(g) /\ SameLive(g) /\ SameFace(g),
         UNCHANGED <<setting, selling>>, failures' = 0 => failures = 0,
         failures' = 0 => \A g \in PhotoId : Pending(g)' => Pending(g)
  PROVE  NotDeleted' /\ Shown'
<1>1. NotDeleted'
  BY DEF SalesOK, NotDeleted, SameLive
<1>2. Shown'
  BY DEF SalesOK, Shown, Serial, InFlight, Similar, SameFace
<1> QED
  BY <1>1, <1>2

LEMMA SamePending ==
  ASSUME UNCHANGED job PROVE \A g \in PhotoId : Pending(g)' => Pending(g)
  BY DEF Pending

\* A step of a request that leaves sales and rows alone.
LEMMA RequestSales ==
  ASSUME Stored, Bounded, SalesOK, NEW p \in Procs, Others(p), p \in setting.procs, Serial => Safe(p)',
         Steady, UNCHANGED <<setting, selling, job>>, failures' = 0 => failures = 0
  PROVE  SalesOK'
<1>1. Careful'
  BY CarefulStep
<1>2. NotDeleted' /\ Shown'
  BY SteadySales, SamePending DEF Steady
<1> QED
  BY <1>1, <1>2 DEF SalesOK

LEMMA AsksSales ==
  ASSUME Stored, Bounded, SalesOK, NEW p \in Procs, OwnerAsks(p) \/ OwnerSells(p) \/ ManagerAsks(p)
  PROVE  SalesOK'
<1>1. ASSUME Others(p), p \in setting.procs, Safe(p)', UNCHANGED <<setting, photo, selling, jobVars, failures>>
      PROVE  SalesOK'
  BY <1>1, SteadySame, RequestSales DEF jobVars
<1>0. RequestsOK
  BY DEF Stored
<1>2. ASSUME NEW way \in {"memory", "disk"}, NEW c, Upload(p, way, c) PROVE SalesOK'
  <2>1. Others(p) /\ p \in setting.procs /\ req'[p].pc = "compare"
    BY <1>0, <1>2, UploadBegins
  <2> QED
    BY <1>1, <1>2, <2>1 DEF Upload, Safe
<1>3. ASSUME NEW f, NEW who, Delete(p, f, who) PROVE SalesOK'
  <2>1. Others(p) /\ p \in setting.procs /\ req'[p].pc \in {"deleteRow", "readUsage"}
    BY <1>0, <1>3, DeleteBegins
  <2> QED
    BY <1>1, <1>3, <2>1 DEF Delete, Safe
<1>4. ASSUME NEW f, View(p, f) PROVE SalesOK'
  <2>1. Others(p) /\ p \in setting.procs /\ req'[p].pc = "mark" /\ req'[p].kind = "view"
    BY <1>0, <1>4, ViewBegins
  <2> QED
    BY <1>1, <1>4, <2>1 DEF View, Safe
<1>5. ASSUME NEW f \in PhotoId, NEW w, NEW v, UpdatePhoto(p, f, w, v) \/ ManagerUpdate(p, f, w, v) PROVE SalesOK'
  <2>1. Others(p) /\ p \in setting.procs /\ req'[p].pc \in {"mark", "update"} /\ req'[p].photo = f
        /\ req'[p].seen = (selling[f] > 0)
    BY <1>0, <1>5, UpdateBegins, ManagerUpdateBegins
  <2>2. UNCHANGED <<setting, photo, selling, jobVars, failures>> /\ selling[f] \in Nat
    BY <1>5 DEF UpdatePhoto, ManagerUpdate, Stored, Plain
  <2>3. Safe(p)'
    <3>1. CASE selling[f] = 0
      BY <2>1, <2>2, <3>1 DEF Safe
    <3>2. CASE selling[f] # 0
      <4>1. selling[f] > 0
        BY <2>2, <3>2
      <4>2. req'[p].seen
        BY <2>1, <4>1, Zenon
      <4> QED
        BY <2>1, <4>2 DEF Safe
    <3> QED
      BY <3>1, <3>2
  <2> QED
    BY <1>1, <2>1, <2>2, <2>3
<1>6. ASSUME NEW f, SellPhoto(p, f) PROVE SalesOK'
  <2>1. Others(p) /\ p \in setting.procs /\ req'[p].pc = "find"
    BY <1>0, <1>6, SellBegins
  <2> QED
    BY <1>1, <1>6, <2>1 DEF SellPhoto, Safe
<1>7. ASSUME NEW f, StopSellingPhoto(p, f) PROVE SalesOK'
  <2>1. Others(p) /\ p \in setting.procs /\ req'[p].pc = "stop"
    BY <1>0, <1>7, StopBegins
  <2> QED
    BY <1>1, <1>7, <2>1 DEF StopSellingPhoto, Safe
<1>8. ASSUME NEW f, Ban(f) \/ Unban(f) PROVE SalesOK'
  <2>1. UNCHANGED <<setting, photo, selling, job, req, failures>>
    BY <1>8 DEF Ban, Unban
  <2>2. Careful'
    BY <2>1, CarefulSame DEF SalesOK
  <2>3. NotDeleted' /\ Shown'
    BY <2>1, SteadySame, SteadySales, SamePending DEF Steady
  <2> QED
    BY <2>2, <2>3 DEF SalesOK
<1> QED
  BY <1>2, <1>3, <1>4, <1>5, <1>6, <1>7, <1>8 DEF OwnerAsks, OwnerSells, ManagerAsks

LEMMA JobsSales ==
  ASSUME Stored, Distinct, SalesOK, NEW f \in PhotoId,
         JobStep(f) \/ JobFails(f) \/ Purge(f) \/ BanPhoto(f) \/ UnbanPhoto(f)
  PROVE  SalesOK'
<1>1. UNCHANGED <<setting, selling, req>>
  BY DEF JobStep, UploadCopy, UploadWrite, UploadEnd, ProcessCompare, ProcessWrite, ProcessEnd,
         JobFails, Purge, BanPhoto, UnbanPhoto
<1>2. Careful'
  BY <1>1, CarefulSame DEF SalesOK
<1>3. ASSUME Steady, failures' = 0 => failures = 0, failures' = 0 => \A g \in PhotoId : Pending(g)' => Pending(g)
      PROVE  SalesOK'
  BY <1>1, <1>2, <1>3, SteadySales DEF Steady, SalesOK
<1>4. ASSUME \A g \in PhotoId \ {f} : job'[g] = job[g], Pending(f)' => Pending(f)
      PROVE  \A g \in PhotoId : Pending(g)' => Pending(g)
  BY <1>4 DEF Pending
<1>5. CASE Failed(f) /\ UNCHANGED <<photo, failures>> /\ (job[f].kind = "UPLOAD" \/ Pending(f))
  <2>1. /\ \A g \in PhotoId \ {f} : job'[g] = job[g]
        /\ Pending(f)' => Pending(f)
    BY <1>5, FailedJob DEF Pending
  <2> QED
    BY <1>3, <1>4, <1>5, <2>1, SteadySame
<1>6. CASE UploadCopy(f) \/ UploadWrite(f) \/ UploadEnd(f)
  <2>1. UNCHANGED failures /\ job[f].kind = "UPLOAD"
    BY <1>6 DEF UploadCopy, UploadWrite, UploadEnd, JobAt
  <2>2. Steady
    BY <1>6, UploadWriteRows, SteadySame DEF UploadCopy, UploadEnd
  <2>3. \A g \in PhotoId : Pending(g)' => Pending(g)
    <3>1. CASE Failed(f)
      BY <2>1, <3>1, <1>4, FailedJob DEF Pending
    <3>2. CASE JobGoto(f, "copied") \/ JobGoto(f, "written")
      BY <2>1, <3>2, <1>4, JobGotoFields DEF Pending
    <3>3. CASE job' = [job EXCEPT ![f] = NoJob]
      BY <3>3, NoJobTyped DEF Stored, FilesOK, Pending
    <3> QED
      BY <1>6, <3>1, <3>2, <3>3 DEF UploadCopy, UploadWrite, UploadEnd
  <2> QED
    BY <1>3, <2>1, <2>2, <2>3
<1>7. CASE ProcessCompare(f)
  <2>1. UNCHANGED <<photo, failures>> /\ Pending(f)
    BY <1>7 DEF ProcessCompare, JobAt, Pending
  <2>2. \A g \in PhotoId \ {f} : job'[g] = job[g]
    BY <1>7, FailedJob, JobGotoFields DEF ProcessCompare
  <2> QED
    BY <1>3, <1>4, <2>1, <2>2, SteadySame
<1>8. CASE ProcessWrite(f)
  <2>1. UNCHANGED failures /\ Pending(f)
    BY <1>8 DEF ProcessWrite, Pending
  <2>2. CASE ~Live(f)
    BY <1>5, <1>8, <2>1, <2>2 DEF ProcessWrite
  <2>3. CASE Live(f)
    <3>1. /\ \A g \in PhotoId \ {f} : photo'[g] = photo[g]
          /\ SameLive(f)
          /\ \/ SameFace(f)
             \/ job[f].pc = "duplicate" /\ photo'[f].hashed = photo[f].hashed
          /\ JobGoto(f, "written")
      BY <1>8, <2>3, ProcessWriteRows
    <3>2. (\A g \in PhotoId \ {f} : job'[g] = job[g]) /\ ~Pending(f)'
      BY <3>1, JobGotoFields DEF Pending
    <3>3. NotDeleted'
      <4>1. \A g \in PhotoId : SameLive(g)
        BY <3>1 DEF SameLive, Live, Used
      <4> QED
        BY <1>1, <4>1 DEF SalesOK, NotDeleted, SameLive
    <3>4. Shown'
      <4> SUFFICES ASSUME Serial, failures' = 0, NEW g \in PhotoId, selling[g] > 0, photo'[g].hashed \/ Pending(g)'
                   PROVE  photo'[g].visibility = "PUBLIC"
        BY <1>1 DEF Shown, Serial, InFlight
      <4>1. CASE g # f
        BY <2>1, <3>1, <3>2, <4>1 DEF SalesOK, Shown, Pending
      <4>2. CASE g = f
        <5>1. ~photo[f].hashed
          BY <2>1 DEF Distinct, DupsOK
        <5>2. photo'[f].hashed
          BY <3>2, <4>2
        <5>3. SameFace(f)
          BY <3>1, <5>1, <5>2
        <5> QED
          BY <2>1, <4>2, <5>3 DEF SalesOK, Shown, SameFace
      <4> QED
        BY <4>1, <4>2
    <3> QED
      BY <1>2, <3>3, <3>4 DEF SalesOK
  <2> QED
    BY <2>2, <2>3
<1>9. CASE ProcessEnd(f)
  <2>1. UNCHANGED <<photo, failures>>
    BY <1>9 DEF ProcessEnd
  <2>2. (\A g \in PhotoId \ {f} : job'[g] = job[g]) /\ ~Pending(f)'
    BY <1>9, NoJobTyped DEF ProcessEnd, Stored, FilesOK, Pending
  <2> QED
    BY <1>3, <1>4, <2>1, <2>2, SteadySame
<1>10. CASE JobFails(f)
  <2>1. UNCHANGED photo /\ failures' # 0
    BY <1>10 DEF JobFails, Stored, Plain
  <2> QED
    BY <1>3, <2>1, SteadySame
<1>11. CASE Purge(f) \/ BanPhoto(f) \/ UnbanPhoto(f)
  <2>1. Steady
    BY <1>11, SetStatusRows, SteadySame DEF Purge, BanPhoto, UnbanPhoto
  <2>2. UNCHANGED <<job, failures>>
    BY <1>11 DEF Purge, BanPhoto, UnbanPhoto
  <2> QED
    BY <1>3, <2>1, <2>2, SamePending
<1> QED
  BY <1>6, <1>7, <1>8, <1>9, <1>10, <1>11 DEF JobStep

LEMMA AtStep ==
  ASSUME Stored, Bounded, NEW p \in Procs, Step(p)
  PROVE  p \in setting.procs /\ RequestsOK /\ KindOK(req[p]) /\ req[p].pc # "idle"
<1>1. req[p].pc # "idle"
  BY DEF Step, CompareHash, CreatePhoto, RaiseUsage, QueueJob, DeleteRow, ReadUsage, LowerUsage, ReadForMark,
         WriteMark, FindActive, PutOnSale, StopSales, HidePhoto, WriteUpdate, At
<1> QED
  BY <1>1, AtProcs DEF Stored

LEMMA DoneSafe ==
  ASSUME RequestsOK, NEW p \in Procs, Done(p) PROVE Others(p) /\ Safe(p)' /\ req'[p].pc = "idle"
  BY DoneFields DEF Safe

LEMMA NotOnSale ==
  ASSUME Stored, SalesOK, NEW f \in PhotoId, ~Live(f) PROVE selling[f] = 0
<1>1. selling[f] \in Nat
  BY DEF Stored, Plain
<1> QED
  BY <1>1 DEF SalesOK, NotDeleted

LEMMA UploadSales ==
  ASSUME Stored, Bounded, Distinct, SalesOK, NEW p \in Procs, Step(p),
         CompareHash(p) \/ CreatePhoto(p) \/ RaiseUsage(p) \/ QueueJob(p)
  PROVE  SalesOK'
<1>0. p \in setting.procs /\ RequestsOK
  BY AtStep
<1>1. CASE CompareHash(p)
  <2>1. UNCHANGED <<setting, photo, selling, job, failures>> /\ (Done(p) \/ Goto(p, "create"))
    BY <1>1 DEF CompareHash, jobVars
  <2>2. Others(p) /\ Safe(p)'
    BY <1>0, <2>1, DoneSafe, GotoFields DEF Safe
  <2> QED
    BY <1>0, <2>1, <2>2, SteadySame, RequestSales
<1>2. CASE CreatePhoto(p)
  <2>1. PICK f \in PhotoId :
           /\ ~Used(f) /\ req'[p].photo = f /\ Live(f)'
           /\ \A g \in PhotoId : g # f => photo'[g] = photo[g]
    BY <1>2, CreateRows
  <2>2. selling[f] = 0
    BY <2>1, NotOnSale DEF Live
  <2>3. UNCHANGED <<setting, selling, job, failures>> /\ Others(p)
    BY <1>0, <1>2, CreateFields DEF CreatePhoto, jobVars
  <2>4. Careful'
    <3>1. Safe(p)'
      BY <2>1, <2>2, <2>3 DEF Safe
    <3> QED
      BY <1>0, <2>3, <3>1, CarefulStep
  <2>5. NotDeleted'
    BY <2>1, <2>2, <2>3 DEF SalesOK, NotDeleted, Live, Used
  <2>6. Shown'
    BY <2>1, <2>2, <2>3 DEF SalesOK, Shown, Serial, InFlight, Pending
  <2> QED
    BY <2>4, <2>5, <2>6 DEF SalesOK
<1>3. CASE RaiseUsage(p)
  <2>1. UNCHANGED <<setting, photo, selling, job, failures>> /\ Goto(p, "queue") /\ req[p].pc = "raise"
    BY <1>3 DEF RaiseUsage, jobVars, At
  <2>2. Others(p) /\ req'[p].photo = req[p].photo
    BY <1>0, <2>1, GotoFields
  <2>3. Serial => Safe(p)'
    BY <2>1, <2>2 DEF SalesOK, Careful, Safe
  <2> QED
    BY <1>0, <2>1, <2>2, <2>3, SteadySame, RequestSales
<1>4. CASE QueueJob(p)
  <2>1. UNCHANGED <<setting, photo, selling, failures>> /\ Done(p) /\ req[p].pc = "queue"
    BY <1>4 DEF QueueJob, At
  <2>2. Careful'
    BY <1>0, <2>1, DoneSafe, CarefulStep
  <2>3. NotDeleted'
    BY <2>1 DEF SalesOK, NotDeleted, Live, Used
  <2>4. Shown'
    <3> SUFFICES ASSUME Serial, failures = 0, NEW g \in PhotoId, selling[g] > 0, photo[g].hashed \/ Pending(g)'
                 PROVE  photo[g].visibility = "PUBLIC"
      BY <2>1 DEF Shown, Serial, InFlight
    <3>1. selling[req[p].photo] = 0
      BY <2>1 DEF SalesOK, Careful, Safe
    <3>2. g # req[p].photo
      BY <3>1
    <3>3. job'[g] = job[g]
      BY <1>4, <3>2 DEF QueueJob, Stored, FilesOK
    <3> QED
      BY <3>3 DEF SalesOK, Shown, Pending
  <2> QED
    BY <2>2, <2>3, <2>4 DEF SalesOK
<1> QED
  BY <1>1, <1>2, <1>3, <1>4

LEMMA DeleteSales ==
  ASSUME Stored, Bounded, SalesOK, NEW p \in Procs, Step(p),
         DeleteRow(p) \/ ReadUsage(p) \/ LowerUsage(p)
  PROVE  SalesOK'
<1>0. p \in setting.procs /\ RequestsOK
  BY AtStep
<1>1. CASE DeleteRow(p)
  <2>1. PICK f \in PhotoId :
           /\ f = req[p].photo
           /\ \A g \in PhotoId : Similar(g) /\ SameFace(g)
           /\ \A g \in PhotoId \ {f} : SameLive(g)
           /\ ~Live(f)'
    BY <1>1, DeleteRowRows
  <2>2. UNCHANGED <<setting, job, failures>> /\ (Done(p) \/ Goto(p, "readUsage"))
    BY <1>1 DEF DeleteRow, jobVars
  <2>3. Others(p) /\ Safe(p)'
    BY <1>0, <2>2, DoneSafe, GotoFields DEF Safe
  <2>4. Careful'
    BY <1>0, <2>2, <2>3, CarefulStep
  <2>5. selling'[f] = 0 /\ \A g \in PhotoId \ {f} : selling'[g] = selling[g]
    BY <1>1, <2>1, NotOnSale DEF DeleteRow, Stored, Plain
  <2>6. NotDeleted'
    BY <2>1, <2>5 DEF SalesOK, NotDeleted, SameLive
  <2>7. Shown'
    BY <2>1, <2>2, <2>5 DEF SalesOK, Shown, Serial, InFlight, Pending, Similar, SameFace
  <2> QED
    BY <2>4, <2>6, <2>7 DEF SalesOK
<1>2. CASE ReadUsage(p)
  <2>1. UNCHANGED <<setting, photo, selling, job, failures>>
    BY <1>2 DEF ReadUsage, jobVars
  <2>2. Others(p) /\ Safe(p)'
    BY <1>0, <1>2, ReadUsageFields DEF Safe
  <2> QED
    BY <1>0, <2>1, <2>2, SteadySame, RequestSales
<1>3. CASE LowerUsage(p)
  <2>1. UNCHANGED <<setting, photo, selling, job, failures>> /\ (Done(p) \/ Goto(p, "deleteRow"))
    BY <1>3 DEF LowerUsage, jobVars
  <2>2. Others(p) /\ Safe(p)'
    BY <1>0, <2>1, DoneSafe, GotoFields DEF Safe
  <2> QED
    BY <1>0, <2>1, <2>2, SteadySame, RequestSales
<1> QED
  BY <1>1, <1>2, <1>3

LEMMA MarkSales ==
  ASSUME Stored, Bounded, SalesOK, NEW p \in Procs, Step(p),
         ReadForMark(p) \/ WriteMark(p) \/ FindActive(p)
  PROVE  SalesOK'
<1>0. p \in setting.procs /\ RequestsOK /\ KindOK(req[p])
  BY AtStep
<1>1. CASE ReadForMark(p)
  <2>1. UNCHANGED <<setting, photo, selling, job, failures>>
    BY <1>1 DEF ReadForMark, jobVars
  <2>2. /\ Others(p) /\ req[p].pc = "mark"
        /\ \/ req'[p].pc = "idle"
           \/ /\ req'[p].pc = "markWrite" /\ req'[p].kind = req[p].kind /\ req'[p].photo = req[p].photo
              /\ req'[p].seen = req[p].seen /\ req'[p].visibility = req[p].visibility
    BY <1>0, <1>1, ReadForMarkFields
  <2>3. Serial => Safe(p)'
    <3>1. CASE req'[p].pc = "idle"
      BY <3>1 DEF Safe
    <3>2. CASE req'[p].pc # "idle"
      BY <2>1, <2>2, <3>2 DEF SalesOK, Careful, Safe
    <3> QED
      BY <3>1, <3>2
  <2> QED
    BY <1>0, <2>1, <2>2, <2>3, SteadySame, RequestSales
<1>2. CASE WriteMark(p)
  <2>1. UNCHANGED <<setting, selling, job, failures>> /\ req[p].pc = "markWrite" /\ Steady
    BY <1>2, WriteMarkRows DEF WriteMark, jobVars, At
  <2>2. CASE Done(p)
    BY <1>0, <2>1, <2>2, DoneSafe, RequestSales
  <2>3. CASE req[p].kind = "sell" /\ Goto(p, "sell")
    <3>1. Others(p) /\ Safe(p)'
      BY <1>0, <2>3, GotoFields DEF Safe
    <3> QED
      BY <1>0, <2>1, <3>1, RequestSales
  <2>4. CASE Goto(p, "update")
    <3>1. /\ Others(p) /\ req'[p].pc = "update" /\ req'[p].photo = req[p].photo
          /\ req'[p].kind = req[p].kind /\ req'[p].seen = req[p].seen /\ req'[p].visibility = req[p].visibility
      BY <1>0, <2>4, GotoFields
    <3>2. Serial => Safe(p)'
      BY <2>1, <3>1 DEF SalesOK, Careful, Safe
    <3> QED
      BY <1>0, <2>1, <3>1, <3>2, RequestSales
  <2> QED
    BY <1>2, <2>2, <2>3, <2>4 DEF WriteMark
<1>3. CASE FindActive(p)
  <2>1. UNCHANGED <<setting, photo, selling, job, failures>>
    BY <1>3 DEF FindActive, jobVars
  <2>2. Others(p) /\ req[p].pc = "find" /\ req'[p].pc \in {"mark", "sell"} /\ req'[p].kind = req[p].kind
    BY <1>0, <1>3, FindActiveFields
  <2>3. req'[p].kind = "sell"
    BY <1>0, <2>2 DEF KindOK
  <2>4. Safe(p)'
    BY <2>2, <2>3 DEF Safe
  <2> QED
    BY <1>0, <2>1, <2>2, <2>4, SteadySame, RequestSales
<1> QED
  BY <1>1, <1>2, <1>3

LEMMA SellingSales ==
  ASSUME Stored, Bounded, SalesOK, NEW p \in Procs, Step(p),
         PutOnSale(p) \/ StopSales(p) \/ HidePhoto(p) \/ WriteUpdate(p)
  PROVE  SalesOK'
<1>0. p \in setting.procs /\ RequestsOK /\ KindOK(req[p])
  BY AtStep
<1>1. CASE PutOnSale(p)
  <2>1. PICK f \in PhotoId :
           /\ f = req[p].photo
           /\ \A g \in PhotoId : Similar(g) /\ SameLive(g)
           /\ \A g \in PhotoId \ {f} : SameFace(g)
           /\ SameFace(f) \/ photo'[f].visibility = "PUBLIC"
           /\ Live(f) => photo'[f].visibility = "PUBLIC"
    BY <1>1, PutOnSaleRows
  <2>2. UNCHANGED <<setting, job, failures>> /\ Done(p)
    BY <1>1 DEF PutOnSale, jobVars
  <2>3. Careful'
    BY <1>0, <2>2, DoneSafe, CarefulStep
  <2>4. (\A g \in PhotoId \ {f} : selling'[g] = selling[g]) /\ (~Live(f) => selling'[f] = selling[f])
    BY <1>1, <2>1 DEF PutOnSale, Stored, Plain
  <2>5. NotDeleted'
    BY <2>1, <2>4 DEF SalesOK, NotDeleted, SameLive
  <2>6. Shown'
    <3> SUFFICES ASSUME Serial, failures = 0, NEW g \in PhotoId, selling'[g] > 0, photo'[g].hashed \/ Pending(g)'
                 PROVE  photo'[g].visibility = "PUBLIC"
      BY <2>2 DEF Shown, Serial, InFlight
    <3>1. photo[g].hashed \/ Pending(g)
      BY <2>1, <2>2 DEF Similar, Pending
    <3>2. CASE g = f
      <4>1. Live(f)
        BY <2>4, <3>2 DEF SalesOK, NotDeleted
      <4> QED
        BY <2>1, <3>2, <4>1
    <3>3. CASE g # f
      BY <2>1, <2>4, <3>1, <3>3 DEF SalesOK, Shown, SameFace
    <3> QED
      BY <3>2, <3>3
  <2> QED
    BY <2>3, <2>5, <2>6 DEF SalesOK
<1>2. CASE StopSales(p)
  <2>0. req[p].photo \in PhotoId
    BY <1>2, RequestAt DEF StopSales, At, Stored
  <2>1. PICK f \in PhotoId : f = req[p].photo
    BY <2>0
  <2>2. UNCHANGED <<setting, photo, job, failures>> /\ Goto(p, "hide")
    BY <1>2 DEF StopSales, jobVars
  <2>3. selling'[f] = 0 /\ \A g \in PhotoId \ {f} : selling'[g] = selling[g]
    BY <1>2, <2>1 DEF StopSales, Stored, Plain
  <2>4. Others(p) /\ Safe(p)'
    BY <1>0, <2>1, <2>2, <2>3, GotoFields DEF Safe
  <2>5. Careful'
    BY <1>0, <2>2, <2>4, CarefulStep
  <2>6. NotDeleted'
    BY <2>2, <2>3 DEF SalesOK, NotDeleted, Live, Used
  <2>7. Shown'
    BY <2>2, <2>3 DEF SalesOK, Shown, Serial, InFlight, Pending
  <2> QED
    BY <2>5, <2>6, <2>7 DEF SalesOK
<1>3. ASSUME NEW f \in PhotoId, NEW w \in BOOLEAN \cup {None}, NEW v \in {"PUBLIC", "PRIVATE", None},
             Write(f, w, v), Done(p), UNCHANGED <<setting, selling, job, failures>>,
             Serial => selling[f] = 0 \/ v = None
      PROVE  SalesOK'
  <2>1. /\ \A g \in PhotoId : Similar(g) /\ SameLive(g)
        /\ \A g \in PhotoId \ {f} : SameFace(g)
        /\ v = None => SameFace(f)
    BY <1>3, WriteRows
  <2>2. Careful'
    BY <1>0, <1>3, DoneSafe, CarefulStep
  <2>3. NotDeleted'
    BY <1>3, <2>1 DEF SalesOK, NotDeleted, SameLive
  <2>4. Shown'
    <3> SUFFICES ASSUME Serial, failures = 0, NEW g \in PhotoId, selling[g] > 0, photo'[g].hashed \/ Pending(g)'
                 PROVE  photo'[g].visibility = "PUBLIC"
      BY <1>3 DEF Shown, Serial, InFlight
    <3>1. photo[g].hashed \/ Pending(g)
      BY <1>3, <2>1 DEF Similar, Pending
    <3>2. SameFace(g)
      BY <1>3, <2>1
    <3> QED
      BY <3>1, <3>2 DEF SalesOK, Shown, SameFace
  <2> QED
    BY <2>2, <2>3, <2>4 DEF SalesOK
<1>4. CASE HidePhoto(p)
  <2>1. req[p].photo \in PhotoId /\ req[p].pc = "hide"
    BY <1>4, RequestAt DEF HidePhoto, At, Stored
  <2>2. Serial => selling[req[p].photo] = 0
    BY <2>1 DEF SalesOK, Careful, Safe
  <2>3. Write(req[p].photo, FALSE, "PRIVATE") /\ Done(p) /\ UNCHANGED <<setting, selling, job, failures>>
    BY <1>4 DEF HidePhoto, jobVars
  <2> QED
    BY <1>3, <2>1, <2>2, <2>3
<1>5. CASE WriteUpdate(p)
  <2>1. req[p].photo \in PhotoId /\ req[p].pc = "update" /\ req[p].watermark \in BOOLEAN \cup {None}
        /\ req[p].visibility \in {"PUBLIC", "PRIVATE", None}
    BY <1>5, RequestAt DEF WriteUpdate, At, Stored, RequestType
  <2>2. Done(p) /\ UNCHANGED <<setting, selling, job, failures>>
    BY <1>5 DEF WriteUpdate, jobVars
  <2>3. CASE UNCHANGED photo
    BY <1>0, <2>2, <2>3, DoneSafe, SteadySame, RequestSales
  <2>4. CASE ~Refused(req[p]) /\ Write(req[p].photo, req[p].watermark, req[p].visibility)
    <3>1. Serial => selling[req[p].photo] = 0 \/ req[p].visibility = None
      BY <1>0, <2>1, <2>4 DEF SalesOK, Careful, Safe, Refused, KindOK
    <3> QED
      BY <1>3, <2>1, <2>2, <2>4, <3>1
  <2> QED
    BY <1>5, <2>3, <2>4 DEF WriteUpdate
<1> QED
  BY <1>1, <1>2, <1>4, <1>5

LEMMA NextSales == Stored /\ Bounded /\ Distinct /\ SalesOK /\ [Next]_vars => SalesOK'
<1> SUFFICES ASSUME Stored, Bounded, Distinct, SalesOK, [Next]_vars PROVE SalesOK'
  OBVIOUS
<1>1. CASE UNCHANGED vars
  <2>1. UNCHANGED <<setting, photo, selling, job, req, failures>>
    BY <1>1 DEF vars, jobVars
  <2>2. Careful'
    BY <2>1, CarefulSame DEF SalesOK
  <2>3. NotDeleted' /\ Shown'
    BY <2>1, SteadySame, SteadySales, SamePending DEF Steady
  <2> QED
    BY <2>2, <2>3 DEF SalesOK
<1>2. ASSUME NEW p \in Procs, FailRequest(p) PROVE SalesOK'
  <2>1. UNCHANGED <<setting, photo, selling, job>> /\ Done(p) /\ failures' # 0 /\ req[p].pc # "idle"
    BY <1>2 DEF FailRequest, jobVars, Stored, Plain, At
  <2>2. p \in setting.procs /\ RequestsOK
    BY <2>1, AtProcs DEF Stored
  <2> QED
    BY <2>1, <2>2, DoneSafe, SteadySame, RequestSales
<1>3. ASSUME NEW p \in Procs, Step(p) PROVE SalesOK'
  BY <1>3, UploadSales, DeleteSales, MarkSales, SellingSales DEF Step
<1> QED
  BY <1>1, <1>2, <1>3, AsksSales, JobsSales DEF Next

LEMMA InitSales == Init => SalesOK
<1> SUFFICES ASSUME Init PROVE SalesOK
  OBVIOUS
<1>1. \A p \in Procs : req[p].pc = "idle"
  BY DEF Init, Idle
<1>2. \A f \in PhotoId : selling[f] = 0
  BY DEF Init
<1> QED
  BY <1>1, <1>2 DEF SalesOK, NotDeleted, Careful, Safe, Shown

\* A deleted photo is never for sale; one at a time and without failures, the hidden ones are not either.
THEOREM PhotosSalesSound == Spec => []SalesSound
<1>1. SalesOK => SalesSound
  BY DEF SalesOK, NotDeleted, Shown, SalesSound, Live
<1>2. Spec => []SalesOK
  BY InitStored, NextStored, InitBounded, NextBounded, InitDistinct, NextDistinct, InitSales, NextSales, PTL DEF Spec
<1> QED
  BY <1>1, <1>2, PTL

-----------------------------------------------------------------------------
(* The usage *)

LivePhotos == {f \in PhotoId : Live(f)}

\* How many photos a request still has to add to the usage.
Owed(r) ==
  IF r.pc = "raise" \/ (r.kind = "manager" /\ r.pc = "deleteRow") THEN 1
  ELSE IF r.kind = "owner" /\ r.pc \in {"readUsage", "lower"} THEN -1 ELSE 0
Doomed(r) == r.pc = "deleteRow" \/ (r.kind = "manager" /\ r.pc \in {"readUsage", "lower"})

\* The photo a request is going to delete is there until then, and the usage it read is the usage.
Owing(p) ==
  /\ usage + Owed(req[p]) = Cardinality(LivePhotos)
  /\ Doomed(req[p]) => Live(req[p].photo)
  /\ req[p].pc = "lower" => req[p].usage = usage
UsageOK == Serial /\ failures = 0 => \A p \in setting.procs : Owing(p)

LEMMA LiveFinite == IsFiniteSet(LivePhotos) /\ Cardinality(LivePhotos) \in Nat
<1>1. IsFiniteSet(PhotoId)
  BY FS_Interval, PhotosAssumption DEF PhotoId
<1>2. IsFiniteSet(LivePhotos)
  BY <1>1, FS_Subset DEF LivePhotos
<1> QED
  BY <1>2, FS_CardinalityType

LEMMA SameLivePhotos ==
  ASSUME \A g \in PhotoId : SameLive(g) PROVE LivePhotos' = LivePhotos
  BY DEF LivePhotos, SameLive

LEMMA OneMore ==
  ASSUME NEW f \in PhotoId, ~Live(f), Live(f)', \A g \in PhotoId \ {f} : SameLive(g)
  PROVE  Cardinality(LivePhotos') = Cardinality(LivePhotos) + 1
<1>1. LivePhotos' = LivePhotos \cup {f} /\ f \notin LivePhotos
  BY DEF LivePhotos, SameLive
<1> QED
  BY <1>1, LiveFinite, FS_AddElement

LEMMA OneLess ==
  ASSUME NEW f \in PhotoId, Live(f), ~Live(f)', \A g \in PhotoId \ {f} : SameLive(g)
  PROVE  Cardinality(LivePhotos') = Cardinality(LivePhotos) - 1
<1>1. LivePhotos' = LivePhotos \ {f} /\ f \in LivePhotos
  BY DEF LivePhotos, SameLive
<1> QED
  BY <1>1, LiveFinite, FS_RemoveElement

LEMMA OwedNumber == \A r : Owed(r) \in Int
  BY DEF Owed

\* With requests one at a time, what a step owes is all there is to know.
LEMMA UsageStep ==
  ASSUME Stored, Bounded, UsageOK, NEW p \in Procs, p \in setting.procs, UNCHANGED setting,
         failures' = 0 => failures = 0,
         Serial /\ failures = 0 /\ Owing(p) => Owing(p)'
  PROVE  UsageOK'
<1> SUFFICES ASSUME Serial, failures = 0, NEW q \in setting.procs PROVE Owing(q)'
  BY DEF UsageOK, Serial, InFlight
<1>1. q = p
  BY Alone
<1>2. Owing(p)
  BY DEF UsageOK
<1> QED
  BY <1>1, <1>2

\* A step that deletes and adds nothing.
LEMMA QuietUsage ==
  ASSUME Stored, Bounded, UsageOK, NEW p \in Procs, p \in setting.procs, UNCHANGED <<setting, usage>>,
         failures' = 0 => failures = 0, \A g \in PhotoId : SameLive(g), Owed(req'[p]) = Owed(req[p]),
         Doomed(req'[p]) => (req'[p].photo \in PhotoId /\ Live(req'[p].photo))
                            \/ (Doomed(req[p]) /\ req'[p].photo = req[p].photo /\ req[p].photo \in PhotoId),
         req'[p].pc = "lower" => req'[p].usage = usage
  PROVE  UsageOK'
<1> SUFFICES ASSUME Owing(p) PROVE Owing(p)'
  BY UsageStep
<1>1. LivePhotos' = LivePhotos
  BY SameLivePhotos
<1>2. Cardinality(LivePhotos)' = Cardinality(LivePhotos)
  BY <1>1
<1>3. Doomed(req'[p]) => Live(req[p].photo)'
  <2> SUFFICES ASSUME Doomed(req'[p]) PROVE Live(req[p].photo)'
    OBVIOUS
  <2>1. PICK f \in PhotoId : f = req'[p].photo /\ Live(f)
    BY DEF Owing
  <2>2. Live(f)'
    BY <2>1 DEF SameLive
  <2> QED
    BY <2>1, <2>2 DEF Live, Used
<1>4. Owed(req[p])' = Owed(req[p]) /\ (Doomed(req[p])' <=> Doomed(req'[p]))
  BY DEF Owed, Doomed
<1> QED
  BY <1>2, <1>3, <1>4 DEF Owing

\* A step that is of no request.
LEMMA RestUsage ==
  ASSUME Stored, UsageOK, UNCHANGED <<setting, usage, req>>,
         failures' = 0 => failures = 0, \A g \in PhotoId : SameLive(g)
  PROVE  UsageOK'
<1> SUFFICES ASSUME Serial, failures = 0, NEW p \in setting.procs PROVE Owing(p)'
  BY DEF UsageOK, Serial, InFlight
<1>1. Owing(p) /\ p \in Procs
  BY PhotosAssumption DEF UsageOK, Stored, Plain
<1>2. LivePhotos' = LivePhotos
  BY SameLivePhotos
<1>3. Doomed(req[p]) => Live(req[p].photo)'
  <2> SUFFICES ASSUME Doomed(req[p]) PROVE Live(req[p].photo)'
    OBVIOUS
  <2>1. Live(req[p].photo) /\ req[p].photo \in PhotoId
    BY <1>1, RequestAt DEF Owing, Stored, Doomed
  <2>2. PICK f \in PhotoId : f = req[p].photo /\ Live(f)
    BY <2>1
  <2>3. Live(f)'
    BY <2>2 DEF SameLive
  <2> QED
    BY <2>2, <2>3 DEF Live, Used
<1> QED
  BY <1>1, <1>2, <1>3 DEF Owing, Owed, Doomed

LEMMA RestSteps ==
  ASSUME Stored, UsageOK, NEW f \in PhotoId,
         JobStep(f) \/ JobFails(f) \/ Purge(f) \/ BanPhoto(f) \/ UnbanPhoto(f) \/ Ban(f) \/ Unban(f)
  PROVE  UsageOK'
<1>1. UNCHANGED <<setting, usage, req>>
  BY DEF JobStep, UploadCopy, UploadWrite, UploadEnd, ProcessCompare, ProcessWrite, ProcessEnd,
         JobFails, Purge, BanPhoto, UnbanPhoto, Ban, Unban
<1>2. failures' = 0 => failures = 0
  BY DEF JobStep, UploadCopy, UploadWrite, UploadEnd, ProcessCompare, ProcessWrite, ProcessEnd,
         JobFails, Purge, BanPhoto, UnbanPhoto, Ban, Unban, Stored, Plain
<1>3. \A g \in PhotoId : SameLive(g)
  <2>1. CASE UNCHANGED photo
    BY <2>1, SteadySame DEF Steady
  <2>2. CASE UploadWrite(f)
    BY <2>2, UploadWriteRows DEF Steady
  <2>3. CASE BanPhoto(f) \/ UnbanPhoto(f)
    BY <2>3, SetStatusRows DEF Steady, BanPhoto, UnbanPhoto
  <2>4. CASE ProcessWrite(f) /\ Live(f)
    <3>1. (\A g \in PhotoId \ {f} : photo'[g] = photo[g]) /\ SameLive(f)
      BY <2>4, ProcessWriteRows
    <3> QED
      BY <3>1 DEF SameLive, Live, Used
  <2>5. CASE ProcessWrite(f) /\ ~Live(f)
    BY <2>1, <2>5 DEF ProcessWrite
  <2> QED
    BY <2>1, <2>2, <2>3, <2>4, <2>5
    DEF JobStep, UploadCopy, UploadEnd, ProcessCompare, ProcessEnd, JobFails, Purge, Ban, Unban
<1> QED
  BY <1>1, <1>2, <1>3, RestUsage

LEMMA AsksUsage ==
  ASSUME Stored, Bounded, UsageOK, NEW p \in Procs, OwnerAsks(p) \/ OwnerSells(p) \/ ManagerAsks(p)
  PROVE  UsageOK'
<1>0. RequestsOK
  BY DEF Stored
<1>1. ASSUME p \in setting.procs, UNCHANGED <<setting, photo, usage, failures>>, req[p].pc = "idle",
             Owed(req'[p]) = 0, req'[p].pc # "lower",
             Doomed(req'[p]) => req'[p].photo \in PhotoId /\ Live(req'[p].photo)
      PROVE  UsageOK'
  <2>1. Owed(req[p]) = 0
    BY <1>1 DEF Owed
  <2> QED
    BY <1>1, <2>1, SteadySame, QuietUsage DEF Steady
<1>2. ASSUME NEW way \in {"memory", "disk"}, NEW c, Upload(p, way, c) PROVE UsageOK'
  <2>1. p \in setting.procs /\ req'[p].pc = "compare" /\ req'[p].kind = way /\ req[p].pc = "idle"
    BY <1>0, <1>2, UploadBegins
  <2>2. UNCHANGED <<setting, photo, usage, failures>>
    BY <1>2 DEF Upload
  <2> QED
    BY <1>1, <2>1, <2>2 DEF Owed, Doomed
<1>3. ASSUME NEW f \in PhotoId, NEW who \in {"owner", "manager"}, Delete(p, f, who) PROVE UsageOK'
  <2>1. /\ req'[p].pc = (IF who = "owner" THEN "deleteRow" ELSE "readUsage")
        /\ req'[p].kind = who /\ req'[p].photo = f /\ req[p].pc = "idle" /\ p \in setting.procs
    BY <1>0, <1>3, DeleteBegins
  <2>2. UNCHANGED <<setting, photo, usage, failures>> /\ Live(f)
    BY <1>3 DEF Delete
  <2>3. Owed(req'[p]) = 0 /\ req'[p].pc # "lower"
    BY <2>1 DEF Owed
  <2> QED
    BY <1>1, <2>1, <2>2, <2>3
<1>4. ASSUME p \in setting.procs, UNCHANGED <<setting, photo, usage, failures>>, req[p].pc = "idle",
             req'[p].pc \in {"mark", "find", "stop", "update"}
      PROVE  UsageOK'
  BY <1>1, <1>4 DEF Owed, Doomed
<1>5. ASSUME NEW f, View(p, f) PROVE UsageOK'
  <2>1. p \in setting.procs /\ req'[p].pc = "mark" /\ req[p].pc = "idle"
    BY <1>0, <1>5, ViewBegins
  <2> QED
    BY <1>4, <1>5, <2>1 DEF View
<1>6. ASSUME NEW f, NEW w, NEW v, UpdatePhoto(p, f, w, v) \/ ManagerUpdate(p, f, w, v) PROVE UsageOK'
  <2>1. p \in setting.procs /\ req'[p].pc \in {"mark", "update"} /\ req[p].pc = "idle"
    BY <1>0, <1>6, UpdateBegins, ManagerUpdateBegins
  <2> QED
    BY <1>4, <1>6, <2>1 DEF UpdatePhoto, ManagerUpdate
<1>7. ASSUME NEW f, SellPhoto(p, f) PROVE UsageOK'
  <2>1. p \in setting.procs /\ req'[p].pc = "find" /\ req[p].pc = "idle"
    BY <1>0, <1>7, SellBegins
  <2> QED
    BY <1>4, <1>7, <2>1 DEF SellPhoto
<1>8. ASSUME NEW f, StopSellingPhoto(p, f) PROVE UsageOK'
  <2>1. p \in setting.procs /\ req'[p].pc = "stop" /\ req[p].pc = "idle"
    BY <1>0, <1>8, StopBegins
  <2> QED
    BY <1>4, <1>8, <2>1 DEF StopSellingPhoto
<1> QED
  BY <1>2, <1>3, <1>5, <1>6, <1>7, <1>8, RestSteps DEF OwnerAsks, OwnerSells, ManagerAsks

\* A step between two points where nothing is owed.
LEMMA PlainUsage ==
  ASSUME Stored, Bounded, UsageOK, NEW p \in Procs, p \in setting.procs, UNCHANGED <<setting, usage, failures>>,
         \A g \in PhotoId : SameLive(g), Owed(req[p]) = 0,
         req'[p].pc \in {"idle", "create", "markWrite", "sell", "update", "mark", "hide"}
  PROVE  UsageOK'
<1>1. Owed(req'[p]) = 0 /\ ~Doomed(req'[p])
  BY DEF Owed, Doomed
<1> QED
  BY <1>1, QuietUsage

LEMMA CreateUsage ==
  ASSUME Stored, Bounded, UsageOK, NEW p \in Procs, CreatePhoto(p), p \in setting.procs
  PROVE  UsageOK'
<1>1. PICK f \in PhotoId :
         ~Used(f) /\ Live(f)' /\ \A g \in PhotoId : g # f => photo'[g] = photo[g]
  BY CreateRows
<1>2. Cardinality(LivePhotos') = Cardinality(LivePhotos) + 1
  BY <1>1, OneMore DEF SameLive, Live, Used
<1>3. req[p].pc = "create" /\ req'[p].pc = "raise" /\ req[p].kind \in {"memory", "disk"}
      /\ UNCHANGED <<setting, usage, failures>>
  BY CreateFields, RequestAt DEF Stored, RequestOK, CreatePhoto
<1>4. Owed(req[p]) = 0 /\ Owed(req'[p]) = 1 /\ req'[p].kind = req[p].kind
  BY <1>3, CreateFields DEF Owed, Stored
<1>5. ASSUME Owing(p) PROVE Owing(p)'
  <2>1. usage + 1 = Cardinality(LivePhotos') /\ usage \in Int
    BY <1>2, <1>4, <1>5, LiveFinite DEF Owing, Stored, Plain
  <2>2. ~Doomed(req'[p])
    BY <1>3, <1>4 DEF Doomed
  <2> QED
    BY <1>3, <1>4, <2>1, <2>2 DEF Owing, Owed, Doomed
<1> QED
  BY <1>3, <1>5, UsageStep

LEMMA RaiseUsageUsage ==
  ASSUME Stored, Bounded, UsageOK, NEW p \in Procs, RaiseUsage(p), p \in setting.procs
  PROVE  UsageOK'
<1>1. req[p].pc = "raise" /\ usage' = usage + 1 /\ UNCHANGED <<setting, photo, failures>> /\ usage \in Int
  BY DEF RaiseUsage, At, Stored, Plain
<1>2. req'[p].pc = "queue" /\ req'[p].kind = req[p].kind
  BY GotoFields DEF RaiseUsage, Stored
<1>3. req[p].kind \in {"memory", "disk"}
  BY <1>1, AtProcs DEF KindOK
<1>4. Owed(req[p]) = 1 /\ Owed(req'[p]) = 0 /\ ~Doomed(req'[p])
  BY <1>1, <1>2, <1>3 DEF Owed, Doomed
<1>5. LivePhotos' = LivePhotos
  BY <1>1 DEF LivePhotos, Live, Used
<1>6. ASSUME Owing(p) PROVE Owing(p)'
  <2>1. usage' + 0 = Cardinality(LivePhotos')
    BY <1>1, <1>4, <1>5, <1>6, LiveFinite DEF Owing
  <2> QED
    BY <1>2, <1>4, <2>1 DEF Owing, Owed, Doomed
<1> QED
  BY <1>1, <1>6, UsageStep

LEMMA DeleteRowUsage ==
  ASSUME Stored, Bounded, UsageOK, NEW p \in Procs, DeleteRow(p), p \in setting.procs
  PROVE  UsageOK'
<1>1. PICK f \in PhotoId :
           f = req[p].photo /\ (\A g \in PhotoId \ {f} : SameLive(g)) /\ ~Live(f)'
  BY DeleteRowRows
<1>2. req[p].pc = "deleteRow" /\ UNCHANGED <<setting, usage, failures>> /\ usage \in Int
  BY DEF DeleteRow, At, Stored, Plain
<1>3. req[p].kind \in {"owner", "manager"}
  BY <1>2, AtProcs DEF KindOK
<1>4. ASSUME Owing(p) PROVE Owing(p)'
  <2>1. Live(f)
    BY <1>1, <1>2, <1>4 DEF Owing, Doomed
  <2>2. Cardinality(LivePhotos') = Cardinality(LivePhotos) - 1
    BY <1>1, <2>1, OneLess
  <2>3. IF req[p].kind = "owner" THEN Goto(p, "readUsage") ELSE Done(p)
    BY <1>1, <2>1 DEF DeleteRow
  <2>4. CASE req[p].kind = "owner"
    <3>1. req'[p].pc = "readUsage" /\ req'[p].kind = "owner"
      BY <2>3, <2>4, GotoFields DEF Stored
    <3>2. Owed(req[p]) = 0 /\ Owed(req'[p]) = -1 /\ ~Doomed(req'[p])
      BY <1>2, <2>4, <3>1 DEF Owed, Doomed
    <3>3. usage + (-1) = Cardinality(LivePhotos')
      BY <1>2, <1>4, <2>2, <3>2, LiveFinite DEF Owing
    <3> QED
      BY <1>2, <3>1, <3>2, <3>3 DEF Owing, Owed, Doomed
  <2>5. CASE req[p].kind = "manager"
    <3>1. req'[p].pc = "idle"
      BY <2>3, <2>5, DoneFields DEF Stored
    <3>2. Owed(req[p]) = 1 /\ Owed(req'[p]) = 0 /\ ~Doomed(req'[p])
      BY <1>2, <2>5, <3>1 DEF Owed, Doomed
    <3>3. usage + 0 = Cardinality(LivePhotos')
      BY <1>2, <1>4, <2>2, <3>2, LiveFinite DEF Owing
    <3> QED
      BY <1>2, <3>1, <3>2, <3>3 DEF Owing, Owed, Doomed
  <2> QED
    BY <1>3, <2>4, <2>5
<1> QED
  BY <1>2, <1>4, UsageStep

LEMMA ReadUsageUsage ==
  ASSUME Stored, Bounded, UsageOK, NEW p \in Procs, ReadUsage(p), p \in setting.procs
  PROVE  UsageOK'
<1>1. /\ req[p].pc = "readUsage" /\ req'[p].pc = "lower" /\ req'[p].usage = usage
      /\ req'[p].photo = req[p].photo /\ req'[p].kind = req[p].kind
  BY ReadUsageFields DEF Stored
<1>2. UNCHANGED <<setting, photo, usage, failures>>
  BY DEF ReadUsage
<1>3. req[p].photo \in PhotoId
  BY <1>1, RequestAt DEF Stored
<1>4. Owed(req'[p]) = Owed(req[p]) /\ (Doomed(req'[p]) => Doomed(req[p]))
  BY <1>1 DEF Owed, Doomed
<1> QED
  BY <1>1, <1>2, <1>3, <1>4, SteadySame, QuietUsage DEF Steady

LEMMA LowerUsageUsage ==
  ASSUME Stored, Bounded, UsageOK, NEW p \in Procs, LowerUsage(p), p \in setting.procs
  PROVE  UsageOK'
<1>1. req[p].pc = "lower" /\ UNCHANGED <<setting, photo, failures>> /\ usage \in Int
  BY DEF LowerUsage, At, Stored, Plain
<1>2. req[p].kind \in {"owner", "manager"}
  BY <1>1, AtProcs DEF KindOK
<1>3. req[p].photo \in PhotoId
  BY <1>1, RequestAt DEF Stored
<1>4. LivePhotos' = LivePhotos
  BY <1>1 DEF LivePhotos, Live, Used
<1>5. ASSUME Owing(p) PROVE Owing(p)'
  <2>1. usage >= 1 => usage' = usage - 1
    <3>1. req[p].usage = usage
      BY <1>1, <1>5 DEF Owing
    <3>2. usage' = IF usage - 1 > 0 THEN usage - 1 ELSE 0
      BY <3>1 DEF LowerUsage
    <3> QED
      BY <1>1, <3>2
  <2>2. CASE req[p].kind = "owner"
    <3>1. req'[p].pc = "idle"
      BY <2>2, DoneFields DEF LowerUsage, Stored
    <3>2. Owed(req[p]) = -1 /\ Owed(req'[p]) = 0 /\ ~Doomed(req'[p])
      BY <1>1, <2>2, <3>1 DEF Owed, Doomed
    <3>3. usage + (-1) = Cardinality(LivePhotos)
      BY <1>5, <3>2 DEF Owing
    <3>4. usage' + 0 = Cardinality(LivePhotos')
      BY <1>1, <1>4, <2>1, <3>3, LiveFinite
    <3> QED
      BY <3>1, <3>2, <3>4 DEF Owing, Owed, Doomed
  <2>3. CASE req[p].kind = "manager"
    <3>1. req'[p].pc = "deleteRow" /\ req'[p].kind = "manager" /\ req'[p].photo = req[p].photo
      BY <2>3, GotoFields DEF LowerUsage, Stored
    <3>2. Owed(req[p]) = 0 /\ Owed(req'[p]) = 1
      BY <1>1, <2>3, <3>1 DEF Owed
    <3>3. usage + 0 = Cardinality(LivePhotos) /\ Live(req[p].photo)
      BY <1>1, <1>5, <2>3, <3>2 DEF Owing, Doomed
    <3>4. Cardinality(LivePhotos) # 0
      <4>1. req[p].photo \in LivePhotos
        BY <1>3, <3>3 DEF LivePhotos
      <4> QED
        BY <4>1, LiveFinite, FS_EmptySet
    <3>5. usage' + 1 = Cardinality(LivePhotos')
      BY <1>1, <1>4, <2>1, <3>3, <3>4, LiveFinite
    <3>6. Live(req[p].photo)'
      BY <1>1, <3>1, <3>3 DEF Live, Used
    <3> QED
      BY <3>1, <3>2, <3>5, <3>6 DEF Owing, Owed, Doomed
  <2> QED
    BY <1>2, <2>2, <2>3
<1> QED
  BY <1>1, <1>5, UsageStep

LEMMA StepUsage ==
  ASSUME Stored, Bounded, UsageOK, NEW p \in Procs, Step(p) PROVE UsageOK'
<1>0. p \in setting.procs /\ RequestsOK /\ KindOK(req[p])
  BY AtStep
<1>1. CASE CompareHash(p)
  <2>1. UNCHANGED <<setting, photo, usage, failures>> /\ req[p].pc = "compare" /\ (Done(p) \/ Goto(p, "create"))
    BY <1>1 DEF CompareHash, At
  <2>2. req'[p].pc \in {"idle", "create"}
    BY <1>0, <2>1, DoneFields, GotoFields
  <2>3. Owed(req[p]) = 0
    BY <2>1 DEF Owed
  <2> QED
    BY <1>0, <2>1, <2>2, <2>3, SteadySame, PlainUsage DEF Steady
<1>2. CASE QueueJob(p)
  <2>1. UNCHANGED <<setting, photo, usage, failures>> /\ req[p].pc = "queue" /\ Done(p)
    BY <1>2 DEF QueueJob, At
  <2>2. req'[p].pc = "idle" /\ Owed(req[p]) = 0
    BY <1>0, <2>1, DoneFields DEF Owed
  <2> QED
    BY <1>0, <2>1, <2>2, SteadySame, PlainUsage DEF Steady
<1>3. CASE ReadForMark(p) \/ FindActive(p)
  <2>1. UNCHANGED <<setting, photo, usage, failures>> /\ req[p].pc \in {"mark", "find"}
    BY <1>3 DEF ReadForMark, FindActive, At
  <2>2. req'[p].pc \in {"idle", "markWrite", "mark", "sell"}
    BY <1>0, <1>3, ReadForMarkFields, FindActiveFields
  <2>3. Owed(req[p]) = 0
    BY <2>1 DEF Owed
  <2> QED
    BY <1>0, <2>1, <2>2, <2>3, SteadySame, PlainUsage DEF Steady
<1>4. CASE WriteMark(p)
  <2>1. UNCHANGED <<setting, usage, failures>> /\ req[p].pc = "markWrite"
        /\ (Done(p) \/ Goto(p, "sell") \/ Goto(p, "update"))
    BY <1>4 DEF WriteMark, At
  <2>2. req'[p].pc \in {"idle", "sell", "update"}
    BY <1>0, <2>1, DoneFields, GotoFields
  <2>3. Owed(req[p]) = 0
    BY <2>1 DEF Owed
  <2> QED
    BY <1>0, <1>4, <2>1, <2>2, <2>3, WriteMarkRows, PlainUsage DEF Steady
<1>5. CASE PutOnSale(p)
  <2>1. UNCHANGED <<setting, usage, failures>> /\ req[p].pc = "sell" /\ Done(p)
    BY <1>5 DEF PutOnSale, At
  <2>2. req'[p].pc = "idle" /\ Owed(req[p]) = 0
    BY <1>0, <2>1, DoneFields DEF Owed
  <2> QED
    BY <1>0, <1>5, <2>1, <2>2, PutOnSaleRows, PlainUsage
<1>6. CASE StopSales(p)
  <2>1. UNCHANGED <<setting, photo, usage, failures>> /\ req[p].pc = "stop" /\ Goto(p, "hide")
    BY <1>6 DEF StopSales, At
  <2>2. req'[p].pc = "hide" /\ Owed(req[p]) = 0
    BY <1>0, <2>1, GotoFields DEF Owed
  <2> QED
    BY <1>0, <2>1, <2>2, SteadySame, PlainUsage DEF Steady
<1>7. CASE HidePhoto(p) \/ WriteUpdate(p)
  <2>1. UNCHANGED <<setting, usage, failures>> /\ req[p].pc \in {"hide", "update"} /\ Done(p)
    BY <1>7 DEF HidePhoto, WriteUpdate, At
  <2>2. req'[p].pc = "idle" /\ Owed(req[p]) = 0
    BY <1>0, <2>1, DoneFields DEF Owed
  <2>3. \A g \in PhotoId : SameLive(g)
    <3>1. CASE UNCHANGED photo
      BY <3>1, SteadySame DEF Steady
    <3>2. CASE HidePhoto(p) \/ Write(req[p].photo, req[p].watermark, req[p].visibility)
      <4>1. req[p].photo \in PhotoId /\ req[p] \in RequestType
        BY <1>0, <2>1, RequestAt
      <4>2. PICK f \in PhotoId, w \in BOOLEAN \cup {None}, v \in {"PUBLIC", "PRIVATE", None} : Write(f, w, v)
        BY <3>2, <4>1 DEF HidePhoto, RequestType
      <4> QED
        BY <4>2, WriteRows
    <3> QED
      BY <1>7, <3>1, <3>2 DEF WriteUpdate
  <2> QED
    BY <1>0, <2>1, <2>2, <2>3, PlainUsage
<1> QED
  BY <1>0, <1>1, <1>2, <1>3, <1>4, <1>5, <1>6, <1>7, CreateUsage, RaiseUsageUsage, DeleteRowUsage,
     ReadUsageUsage, LowerUsageUsage DEF Step

LEMMA NextUsage == Stored /\ Bounded /\ UsageOK /\ [Next]_vars => UsageOK'
<1> SUFFICES ASSUME Stored, Bounded, UsageOK, [Next]_vars PROVE UsageOK'
  OBVIOUS
<1>1. CASE UNCHANGED vars
  <2>1. UNCHANGED <<setting, photo, usage, req, failures>>
    BY <1>1 DEF vars
  <2> QED
    BY <2>1, SteadySame, RestUsage DEF Steady
<1>2. ASSUME NEW p \in Procs, FailRequest(p) PROVE UsageOK'
  <2>1. failures' # 0
    BY <1>2 DEF FailRequest, Stored, Plain
  <2> QED
    BY <2>1 DEF UsageOK
<1> QED
  BY <1>1, <1>2, AsksUsage, StepUsage, RestSteps DEF Next

LEMMA InitUsage == Init => UsageOK
<1> SUFFICES ASSUME Init, NEW p \in setting.procs PROVE Owing(p)
  BY DEF UsageOK
<1>1. p \in Procs
  BY PhotosAssumption DEF Init
<1>2. req[p].pc = "idle" /\ usage = 0
  BY <1>1 DEF Init, Idle
<1>3. LivePhotos = {}
  BY DEF LivePhotos, Live, Used, Init, FreePhoto
<1>4. Cardinality(LivePhotos) = 0
  BY <1>3, FS_EmptySet
<1> QED
  BY <1>2, <1>4 DEF Owing, Owed, Doomed

\* Between requests that come one at a time the usage is the number of photos that are there.
THEOREM PhotosUsageIsStored == Spec => []UsageIsStored
<1>1. Stored /\ UsageOK => UsageIsStored
  <2> SUFFICES ASSUME Stored, UsageOK, Serial, failures = 0, \A p \in Procs : At(p, "idle")
               PROVE  usage = Cardinality(LivePhotos)
    BY DEF UsageIsStored, LivePhotos
  <2>1. setting.procs \in SUBSET Procs
    BY PhotosAssumption DEF Stored, Plain
  <2>2. setting.procs # {}
    BY FS_EmptySet DEF Serial, InFlight
  <2>3. PICK p \in setting.procs : Owing(p)
    BY <2>2 DEF UsageOK
  <2>4. Owed(req[p]) = 0
    BY <2>1 DEF Owed, At
  <2> QED
    BY <2>3, <2>4 DEF Owing, Stored, Plain
<1>2. Spec => [](Stored /\ UsageOK)
  BY InitStored, NextStored, InitBounded, NextBounded, InitUsage, NextUsage, PTL DEF Spec
<1> QED
  BY <1>1, <1>2, PTL
=============================================================================
