------------------------------- MODULE Photos -------------------------------
(***************************************************************************)
(* Photos of a photographer: uploading them through memory or through the  *)
(* disk of the server, the jobs that process them and move them to the     *)
(* cloud, the quota, bans, watermarks, sales and deletion.                 *)
(*                                                                         *)
(* A request or a job reads a photo, works for a while, and writes by id;  *)
(* the database client finds no row that is deleted, so that a write to a  *)
(* deleted photo fails.  A step is one awaited call, or one transaction.   *)
(* TinEye, the tags and texts of photos and their thumbnails are left out. *)
(***************************************************************************)
EXTENDS Integers, FiniteSets

CONSTANTS
  Procs,     \* requests in flight at once
  Contents,  \* pictures, as their hash tells them apart
  None,
  Attempts,  \* runs of a job before it is given up: 5 in the code
  Settings,  \* what is explored together, see setting
  MaxPhotos  \* bound: rows of the Photo table

PhotoId == 1..MaxPhotos
Kinds == {"upload", "delete", "ban", "sell", "update"}

ASSUME PhotosAssumption ==
  /\ Attempts \in Nat \ {0} /\ MaxPhotos \in Nat
  /\ Settings \subseteq [procs : SUBSET Procs, kinds : SUBSET Kinds, photos : 0..MaxPhotos,
                         quota : Nat, failures : Nat]
  /\ None \notin Contents /\ IsFiniteSet(Procs)

VARIABLES
  setting,  \* never changes: how many requests are in flight at once, of which kinds,
            \* with how many photos and failures; and maxPhotoQuota, in photos
  photo,    \* the Photo table
  file,     \* the files of each photo that are there
  selling,  \* how many sales of each photo are active
  usage,    \* User.photoQuotaUsage, in photos
  job,      \* the UPLOAD_PHOTO or PROCESS_PHOTO job of each photo
  bans, unbans, purges, \* photos with a BAN, UNBAN, DELETE_TEMPORARY_PHOTO job
  req,      \* requests in flight
  failures  \* jobs and requests that failed so far

jobVars == <<job, bans, unbans, purges>>
vars == <<setting, photo, file, selling, usage, jobVars, req, failures>>

\* original, marked: whether originalPhotoUrl and watermarkPhotoUrl name a file on the
\* disk or in the cloud.
Place == {"none", "disk", "cloud"}
FreePhoto == [status |-> "UNUSED", content |-> None, hashed |-> FALSE, original |-> "none",
              marked |-> "none", watermark |-> FALSE, visibility |-> "PRIVATE", deleted |-> FALSE]
NoJob == [kind |-> "none", pc |-> "none", left |-> 0]
Idle == [pc |-> "idle", kind |-> "none", photo |-> 0, content |-> None, seen |-> FALSE,
         place |-> "none", watermark |-> None, visibility |-> None, usage |-> 0]

TypeOK ==
  /\ setting \in Settings
  /\ photo \in [PhotoId -> {FreePhoto} \cup
       [status : {"PENDING", "PARSED", "DUPLICATED", "BAN"}, content : Contents,
        hashed : BOOLEAN, original : {"disk", "cloud"}, marked : Place, watermark : BOOLEAN,
        visibility : {"PUBLIC", "PRIVATE"}, deleted : BOOLEAN]]
  /\ file \in [PhotoId -> SUBSET {"disk", "cloud", "diskMark", "cloudMark"}]
  /\ selling \in [PhotoId -> 0..Cardinality(Procs)]
  /\ usage \in Int
  /\ job \in [PhotoId ->
       [kind : {"none", "UPLOAD", "PROCESS"}, left : 0..Attempts,
        pc : {"none", "queued", "copied", "new", "duplicate", "written"}]]
  /\ bans \subseteq PhotoId /\ unbans \subseteq PhotoId /\ purges \subseteq PhotoId
  /\ req \in [Procs ->
       [pc : {"idle", "compare", "create", "raise", "queue", "deleteRow", "readUsage",
              "lower", "find", "mark", "markWrite", "sell", "stop", "hide", "update"},
        kind : {"none", "memory", "disk", "owner", "manager", "sell", "view"},
        photo : PhotoId \cup {0}, content : Contents \cup {None}, seen : BOOLEAN,
        place : Place, watermark : BOOLEAN \cup {None},
        visibility : {"PUBLIC", "PRIVATE", None}, usage : Int]]
  /\ failures \in 0..setting.failures

Init ==
  /\ setting \in Settings
  /\ photo = [f \in PhotoId |-> FreePhoto]
  /\ file = [f \in PhotoId |-> {}]
  /\ selling = [f \in PhotoId |-> 0]
  /\ usage = 0 /\ failures = 0
  /\ job = [f \in PhotoId |-> NoJob]
  /\ bans = {} /\ unbans = {} /\ purges = {}
  /\ req = [p \in Procs |-> Idle]

-----------------------------------------------------------------------------
Used(f) == photo[f].status # "UNUSED"
Live(f) == Used(f) /\ ~photo[f].deleted

At(p, pc) == req[p].pc = pc
InFlight == Cardinality(setting.procs)
Serial == InFlight = 1
Begin(p, kind, r) ==
  /\ kind \in setting.kinds /\ p \in setting.procs /\ At(p, "idle")
  /\ req' = [req EXCEPT ![p] = r]
Goto(p, pc) == req' = [req EXCEPT ![p].pc = pc]
Done(p) == req' = [req EXCEPT ![p] = Idle]

-----------------------------------------------------------------------------
(* Uploading *)

\* uploadPhoto (memory) and fileSystemPhotoUpload (disk) read the user first.
Upload(p, way, c) ==
  /\ usage + 1 < setting.quota
  /\ Begin(p, "upload", [Idle EXCEPT !.pc = "compare", !.kind = way, !.content = c])
  /\ UNCHANGED <<setting, photo, file, selling, usage, jobVars, failures>>

HasHash(f, c) == Live(f) /\ photo[f].hashed /\ photo[f].content = c

\* validateHashAndMatching: no photo has this hash.
CompareHash(p) ==
  /\ At(p, "compare")
  /\ IF \E f \in PhotoId : HasHash(f, req[p].content) THEN Done(p) ELSE Goto(p, "create")
  /\ UNCHANGED <<setting, photo, file, selling, usage, jobVars, failures>>

\* Through memory the file is in the cloud by then and the hash is left to a job; through
\* the disk it is the other way round.
CreatePhoto(p) ==
  LET memory == req[p].kind = "memory"
      place == IF memory THEN "cloud" ELSE "disk" IN
  /\ At(p, "create")
  /\ \E f \in 1..setting.photos :
       /\ ~Used(f) /\ \A g \in 1..(f - 1) : Used(g)
       /\ photo' = [photo EXCEPT ![f] =
            [FreePhoto EXCEPT !.status = IF memory THEN "PARSED" ELSE "PENDING",
               !.content = req[p].content, !.hashed = ~memory, !.original = place]]
       /\ file' = [file EXCEPT ![f] = {place}]
       /\ req' = [req EXCEPT ![p] = [@ EXCEPT !.pc = "raise", !.photo = f]]
  /\ UNCHANGED <<setting, selling, usage, jobVars, failures>>

RaiseUsage(p) ==
  /\ At(p, "raise")
  /\ usage' = usage + 1
  /\ Goto(p, "queue")
  /\ UNCHANGED <<setting, photo, file, selling, jobVars, failures>>

QueueJob(p) ==
  /\ At(p, "queue")
  /\ job' = [job EXCEPT ![req[p].photo] =
       [kind |-> IF req[p].kind = "memory" THEN "PROCESS" ELSE "UPLOAD",
        pc |-> "queued", left |-> Attempts]]
  /\ Done(p)
  /\ UNCHANGED <<setting, photo, file, selling, usage, bans, unbans, purges, failures>>

-----------------------------------------------------------------------------
(* The jobs *)

\* Mutant: a job that fails is not run again.
FailedMutant(f) == job' = [job EXCEPT ![f] = NoJob]

\* An error, or a photo that is not found: the queue runs the job again while attempts
\* are left.
Failed(f) ==
  job' = [job EXCEPT ![f] =
    IF job[f].left > 1 THEN [job[f] EXCEPT !.pc = "queued", !.left = @ - 1] ELSE NoJob]
JobAt(f, kind, pc) == job[f].kind = kind /\ job[f].pc = pc
JobGoto(f, pc) == job' = [job EXCEPT ![f].pc = pc]

\* Mutant: the files on the disk are deleted before the row is written.
UploadCopyMutant(f) ==
  /\ JobAt(f, "UPLOAD", "queued")
  /\ IF Live(f) /\ "disk" \in file[f]
     THEN /\ file' = [file EXCEPT ![f] = (@ \cup {"cloud", "cloudMark"}) \ {"disk"}]
          /\ JobGoto(f, "copied")
     ELSE Failed(f) /\ UNCHANGED file
  /\ UNCHANGED <<setting, photo, selling, usage, bans, unbans, purges, req, failures>>

\* uploadToCloudStorage reads the file on the disk and puts it into the cloud, with and
\* without watermark.
UploadCopy(f) ==
  /\ JobAt(f, "UPLOAD", "queued")
  /\ IF Live(f) /\ "disk" \in file[f]
     THEN file' = [file EXCEPT ![f] = @ \cup {"cloud", "cloudMark"}] /\ JobGoto(f, "copied")
     ELSE Failed(f) /\ UNCHANGED file
  /\ UNCHANGED <<setting, photo, selling, usage, bans, unbans, purges, req, failures>>

\* Whatever the status has become meanwhile.
UploadWrite(f) ==
  /\ JobAt(f, "UPLOAD", "copied")
  /\ IF Live(f)
     THEN /\ photo' = [photo EXCEPT ![f] = [@ EXCEPT !.status = "PARSED",
                                              !.original = "cloud", !.marked = "cloud"]]
          /\ JobGoto(f, "written")
     ELSE Failed(f) /\ UNCHANGED photo
  /\ UNCHANGED <<setting, file, selling, usage, bans, unbans, purges, req, failures>>

UploadEnd(f) ==
  /\ JobAt(f, "UPLOAD", "written")
  /\ purges' = purges \cup {f}
  /\ job' = [job EXCEPT ![f] = NoJob]
  /\ UNCHANGED <<setting, photo, file, selling, usage, bans, unbans, req, failures>>

\* deleteTemporaryPhoto, of the original and of the watermarked file.
Purge(f) ==
  /\ f \in purges
  /\ purges' = purges \ {f}
  /\ file' = [file EXCEPT ![f] = @ \ {"disk", "diskMark"}]
  /\ UNCHANGED <<setting, photo, selling, usage, job, bans, unbans, req, failures>>

\* Mutant: whatever the hash, the photo is taken for a duplicate.
ProcessCompareMutant(f) ==
  /\ JobAt(f, "PROCESS", "queued") /\ Live(f)
  /\ JobGoto(f, "duplicate")
  /\ UNCHANGED <<setting, photo, file, selling, usage, bans, unbans, purges, req, failures>>

\* processPhoto: is there a photo with this hash?  The photo itself is one of those
\* looked at.
ProcessCompare(f) ==
  /\ JobAt(f, "PROCESS", "queued")
  /\ IF Live(f)
     THEN JobGoto(f, IF \E g \in PhotoId : HasHash(g, photo[f].content)
                     THEN "duplicate" ELSE "new")
     ELSE Failed(f)
  /\ UNCHANGED <<setting, photo, file, selling, usage, bans, unbans, purges, req, failures>>

ProcessWrite(f) ==
  /\ job[f].kind = "PROCESS" /\ job[f].pc \in {"new", "duplicate"}
  /\ IF Live(f)
     THEN /\ photo' = [photo EXCEPT ![f] =
               IF job[f].pc = "new" THEN [@ EXCEPT !.hashed = TRUE]
               ELSE [@ EXCEPT !.status = "DUPLICATED", !.visibility = "PRIVATE"]]
          /\ JobGoto(f, "written")
     ELSE Failed(f) /\ UNCHANGED photo
  /\ UNCHANGED <<setting, file, selling, usage, bans, unbans, purges, req, failures>>

ProcessEnd(f) ==
  /\ JobAt(f, "PROCESS", "written")
  /\ job' = [job EXCEPT ![f] = NoJob]
  /\ UNCHANGED <<setting, photo, file, selling, usage, bans, unbans, purges, req, failures>>

\* A file, the cloud or the database cannot be reached, or the server stops.
JobFails(f) ==
  /\ job[f].pc # "none" /\ failures < setting.failures
  /\ failures' = failures + 1
  /\ Failed(f)
  /\ UNCHANGED <<setting, photo, file, selling, usage, bans, unbans, purges, req>>

\* A request fails or is lost with the server; what it has written stays.
FailRequest(p) ==
  /\ ~At(p, "idle") /\ failures < setting.failures
  /\ failures' = failures + 1
  /\ Done(p)
  /\ UNCHANGED <<setting, photo, file, selling, usage, jobVars>>

-----------------------------------------------------------------------------
(* Bans *)

\* ManagePhotoService.ban, unban only queue a job.
Ban(f) ==
  /\ "ban" \in setting.kinds /\ Live(f)
  /\ bans' = bans \cup {f}
  /\ UNCHANGED <<setting, photo, file, selling, usage, job, unbans, purges, req, failures>>

Unban(f) ==
  /\ "ban" \in setting.kinds /\ Live(f)
  /\ unbans' = unbans \cup {f}
  /\ UNCHANGED <<setting, photo, file, selling, usage, job, bans, purges, req, failures>>

SetStatus(f, status) ==
  photo' = [photo EXCEPT ![f].status = IF Live(f) THEN status ELSE @]

BanPhoto(f) ==
  /\ f \in bans /\ bans' = bans \ {f}
  /\ SetStatus(f, "BAN")
  /\ UNCHANGED <<setting, file, selling, usage, job, unbans, purges, req, failures>>

UnbanPhoto(f) ==
  /\ f \in unbans /\ unbans' = unbans \ {f}
  /\ SetStatus(f, "PARSED")
  /\ UNCHANGED <<setting, file, selling, usage, job, bans, purges, req, failures>>

-----------------------------------------------------------------------------
(* Deleting *)

\* PhotoService.deleteById, ManagePhotoService.delete: the owner's request deletes the row
\* and then lowers the usage, a manager's the other way round.
Delete(p, f, who) ==
  /\ Live(f)
  /\ Begin(p, "delete", [Idle EXCEPT !.pc = IF who = "owner" THEN "deleteRow" ELSE "readUsage",
                           !.kind = who, !.photo = f])
  /\ UNCHANGED <<setting, photo, file, selling, usage, jobVars, failures>>

\* Mutant: the sales of the photo stay active.
DeleteRowMutant(p) ==
  LET f == req[p].photo IN
  /\ At(p, "deleteRow") /\ Live(f)
  /\ photo' = [photo EXCEPT ![f].deleted = TRUE]
  /\ IF req[p].kind = "owner" THEN Goto(p, "readUsage") ELSE Done(p)
  /\ UNCHANGED <<setting, file, selling, usage, jobVars, failures>>

\* One update, with its sales nested in it.
DeleteRow(p) ==
  LET f == req[p].photo IN
  /\ At(p, "deleteRow")
  /\ \/ /\ Live(f)
        /\ photo' = [photo EXCEPT ![f].deleted = TRUE]
        /\ selling' = [selling EXCEPT ![f] = 0]
        /\ IF req[p].kind = "owner" THEN Goto(p, "readUsage") ELSE Done(p)
     \/ ~Live(f) /\ Done(p) /\ UNCHANGED <<photo, selling>>
  /\ UNCHANGED <<setting, file, usage, jobVars, failures>>

\* UserService.updatePhotoQuota.
ReadUsage(p) ==
  /\ At(p, "readUsage")
  /\ req' = [req EXCEPT ![p] = [@ EXCEPT !.pc = "lower", !.usage = usage]]
  /\ UNCHANGED <<setting, photo, file, selling, usage, jobVars, failures>>

\* Mutant: the usage is reset when it should just be lowered.
LowerUsageMutant(p) ==
  /\ At(p, "lower")
  /\ usage' = IF req[p].usage - 1 > 1 THEN usage - 1 ELSE 0
  /\ IF req[p].kind = "owner" THEN Done(p) ELSE Goto(p, "deleteRow")
  /\ UNCHANGED <<setting, photo, file, selling, jobVars, failures>>

LowerUsage(p) ==
  /\ At(p, "lower")
  /\ usage' = IF req[p].usage - 1 > 0 THEN usage - 1 ELSE 0
  /\ IF req[p].kind = "owner" THEN Done(p) ELSE Goto(p, "deleteRow")
  /\ UNCHANGED <<setting, photo, file, selling, jobVars, failures>>

-----------------------------------------------------------------------------
(* Watermarks *)

\* generateWatermark reads the photo again, makes the file where the photo is, and only
\* then writes its name.
ReadForMark(p) ==
  LET f == req[p].photo IN
  /\ At(p, "mark")
  /\ IF Live(f) /\ photo[f].status # "DUPLICATED"
     THEN req' = [req EXCEPT ![p] = [@ EXCEPT !.pc = "markWrite",
            !.place = IF photo[f].status = "PENDING" THEN "disk" ELSE "cloud"]]
     ELSE Done(p)
  /\ UNCHANGED <<setting, photo, file, selling, usage, jobVars, failures>>

WriteMark(p) ==
  LET f == req[p].photo IN
  /\ At(p, "markWrite")
  /\ file' = [file EXCEPT ![f] = @ \cup {IF req[p].place = "disk" THEN "diskMark" ELSE "cloudMark"}]
  /\ photo' = [photo EXCEPT ![f].marked = IF Live(f) THEN req[p].place ELSE @]
  /\ IF ~Live(f) \/ req[p].kind = "view" THEN Done(p)
     ELSE Goto(p, IF req[p].kind = "sell" THEN "sell" ELSE "update")
  /\ UNCHANGED <<setting, selling, usage, jobVars, failures>>

\* signPhoto: whoever is shown a photo whose watermark has no file yet has one made.
View(p, f) ==
  /\ Live(f) /\ photo[f].watermark /\ photo[f].marked = "none"
  /\ Begin(p, "update", [Idle EXCEPT !.pc = "mark", !.kind = "view", !.photo = f])
  /\ UNCHANGED <<setting, photo, file, selling, usage, jobVars, failures>>

-----------------------------------------------------------------------------
(* Selling and updating *)

SellPhoto(p, f) ==
  /\ Live(f) /\ photo[f].status \notin {"DUPLICATED", "BAN"}
  /\ Begin(p, "sell", [Idle EXCEPT !.pc = "find", !.kind = "sell", !.photo = f,
                                   !.place = photo[f].marked])
  /\ UNCHANGED <<setting, photo, file, selling, usage, jobVars, failures>>

\* Is there an active sale?  A photo that had no watermark when it was read gets one.
FindActive(p) ==
  /\ At(p, "find")
  /\ req' = [req EXCEPT ![p] = [@ EXCEPT !.seen = selling[req[p].photo] > 0,
                                 !.pc = IF req[p].place = "none" THEN "mark" ELSE "sell"]]
  /\ UNCHANGED <<setting, photo, file, selling, usage, jobVars, failures>>

\* One transaction: all sales are deactivated if one was found, the photo is shown with a
\* watermark, a sale is created.  A photo deleted meanwhile fails the transaction.
PutOnSale(p) ==
  LET f == req[p].photo IN
  /\ At(p, "sell")
  /\ IF Live(f)
     THEN /\ photo' = [photo EXCEPT ![f] = [@ EXCEPT !.watermark = TRUE, !.visibility = "PUBLIC"]]
          /\ selling' = [selling EXCEPT ![f] = IF req[p].seen THEN 1 ELSE @ + 1]
     ELSE UNCHANGED <<photo, selling>>
  /\ Done(p)
  /\ UNCHANGED <<setting, file, usage, jobVars, failures>>

StopSellingPhoto(p, f) ==
  /\ Live(f) /\ photo[f].status # "DUPLICATED"
  /\ Begin(p, "sell", [Idle EXCEPT !.pc = "stop", !.photo = f])
  /\ UNCHANGED <<setting, photo, file, selling, usage, jobVars, failures>>

StopSales(p) ==
  /\ At(p, "stop")
  /\ selling' = [selling EXCEPT ![req[p].photo] = 0]
  /\ Goto(p, "hide")
  /\ UNCHANGED <<setting, photo, file, usage, jobVars, failures>>

\* The columns that are given are written; undefined ones are left as they are.
Write(f, watermark, visibility) ==
  LET row == photo[f] IN
  photo' = [photo EXCEPT ![f] =
    IF Live(f) THEN [row EXCEPT !.watermark = IF watermark = None THEN row.watermark ELSE watermark,
                                !.visibility = IF visibility = None THEN row.visibility ELSE visibility]
    ELSE row]

HidePhoto(p) ==
  /\ At(p, "hide")
  /\ Write(req[p].photo, FALSE, "PRIVATE")
  /\ Done(p)
  /\ UNCHANGED <<setting, file, selling, usage, jobVars, failures>>

\* PhotoService.updatePhoto makes the watermark before it looks at the sales it has read.
UpdatePhoto(p, f, watermark, visibility) ==
  /\ Live(f) /\ photo[f].status # "DUPLICATED"
  /\ Begin(p, "update", [Idle EXCEPT !.pc = IF watermark = TRUE THEN "mark" ELSE "update",
       !.kind = "owner", !.photo = f, !.seen = selling[f] > 0,
       !.watermark = watermark, !.visibility = visibility])
  /\ UNCHANGED <<setting, photo, file, selling, usage, jobVars, failures>>

\* ManagePhotoService.update: of any photo; the visibility of one on sale is left alone.
ManagerUpdate(p, f, watermark, visibility) ==
  /\ Live(f)
  /\ Begin(p, "update", [Idle EXCEPT !.pc = "update", !.kind = "manager", !.photo = f,
       !.seen = selling[f] > 0, !.watermark = watermark,
       !.visibility = IF selling[f] > 0 THEN None ELSE visibility])
  /\ UNCHANGED <<setting, photo, file, selling, usage, jobVars, failures>>

\* CannotUpdateWatermark.., CannotUpdateVisibilityPhotoHasActiveSellingException: a
\* watermark that is taken away is not refused.
Refused(r) == r.seen /\ (r.watermark = TRUE \/ r.visibility # None)

WriteUpdate(p) ==
  /\ At(p, "update")
  /\ IF Refused(req[p]) THEN UNCHANGED photo
     ELSE Write(req[p].photo, req[p].watermark, req[p].visibility)
  /\ Done(p)
  /\ UNCHANGED <<setting, file, selling, usage, jobVars, failures>>

-----------------------------------------------------------------------------
OwnerAsks(p) ==
  \/ \E way \in {"memory", "disk"}, c \in Contents : Upload(p, way, c)
  \/ \E f \in PhotoId :
       \/ Delete(p, f, "owner") \/ View(p, f)
       \/ \E w \in BOOLEAN \cup {None}, v \in {"PUBLIC", "PRIVATE", None} : UpdatePhoto(p, f, w, v)

OwnerSells(p) == \E f \in PhotoId : SellPhoto(p, f) \/ StopSellingPhoto(p, f)

ManagerAsks(p) ==
  \E f \in PhotoId :
    \/ Delete(p, f, "manager") \/ Ban(f) \/ Unban(f)
    \/ \E w \in BOOLEAN \cup {None}, v \in {"PUBLIC", "PRIVATE", None} : ManagerUpdate(p, f, w, v)

Step(p) ==
  \/ CompareHash(p) \/ CreatePhoto(p) \/ RaiseUsage(p) \/ QueueJob(p)
  \/ DeleteRow(p) \/ ReadUsage(p) \/ LowerUsage(p)
  \/ ReadForMark(p) \/ WriteMark(p)
  \/ FindActive(p) \/ PutOnSale(p) \/ StopSales(p) \/ HidePhoto(p) \/ WriteUpdate(p)

JobStep(f) ==
  \/ UploadCopy(f) \/ UploadWrite(f) \/ UploadEnd(f)
  \/ ProcessCompare(f) \/ ProcessWrite(f) \/ ProcessEnd(f)

Next ==
  \/ \E p \in Procs : OwnerAsks(p) \/ OwnerSells(p) \/ ManagerAsks(p) \/ Step(p) \/ FailRequest(p)
  \/ \E f \in PhotoId :
       \/ JobStep(f) \/ JobFails(f) \/ Purge(f)
       \/ BanPhoto(f) \/ UnbanPhoto(f)

\* The queue keeps running its jobs; nothing is assumed of requests and managers.
Spec == Init /\ [][Next]_vars /\ \A f \in PhotoId : WF_vars(JobStep(f))

-----------------------------------------------------------------------------
(* Properties *)

\* With requests one at a time, whoever deletes photos and whatever the jobs do, the
\* usage is what is stored, between requests.
UsageIsStored ==
  Serial /\ failures = 0 /\ (\A p \in Procs : At(p, "idle")) =>
    usage = Cardinality({f \in PhotoId : Live(f)})

\* The original of a photo is where its row says, also for a buyer after it is deleted,
\* while it moves to the cloud and whatever attempts fail half-way.
OriginalStored == TypeOK /\ \A f \in PhotoId : Used(f) => photo[f].original \in file[f]

\* A deleted photo is not for sale, however its deletion and a new sale overlap. With requests
\* one at a time and nothing failing, a photo on sale whose hash is stored, so that it was not
\* taken for a duplicate, is shown to the public; a manager or its owner cannot hide it.
SalesSound ==
  \A f \in PhotoId : selling[f] > 0 =>
    /\ ~photo[f].deleted
    /\ Serial /\ failures = 0 /\ photo[f].hashed => photo[f].visibility = "PUBLIC"

\* A photo is only marked as a duplicate when there is another one of the same content;
\* a job that is run again after a failure finds the hash it wrote itself.
DuplicateOfAnother ==
  failures = 0 => \A f \in PhotoId : photo[f].status = "DUPLICATED" =>
    \E g \in PhotoId \ {f} : photo[g].content = photo[f].content

\* A photo that waits on the disk gets to the cloud although attempts fail, unless it is
\* deleted.
UploadSucceeds ==
  \A f \in PhotoId : JobAt(f, "UPLOAD", "queued") /\ job[f].left = Attempts ~>
    photo[f].status # "PENDING" \/ ~Live(f)
=============================================================================
