------------------------------ MODULE Library ------------------------------
(***************************************************************************)
(* The Photo table as the catalogue and the reports read it, and what      *)
(* happens to photos meanwhile.  Photos.tla has the steps of uploads, jobs *)
(* and sales; here each is one step, with the time it is stamped with.     *)
(***************************************************************************)
EXTENDS Integers, FiniteSets

CONSTANTS
  Users,      \* photographers
  None,
  Models,     \* the models of cameras that photos name
  Settings,   \* what is explored together, see setting
  Attempts,   \* bound: runs of a job before it is given up, 5 in the code
  DayLength,  \* moments of a day
  Backfill,   \* days a first run of the camera statistics goes back, 7 in the code
  MaxDays,    \* bound: days after the first
  MaxPhotos   \* bound: rows of the Photo table

PhotoId == 1..MaxPhotos
First == DayLength * (Backfill + 1)
Time == 1..(First + DayLength * (MaxDays + 1))
Day(t) == t \div DayLength

Kinds == {"upload", "book", "retype", "sell", "judge", "hide", "delete",
          "list", "camera", "fail", "cron", "report", "rows", "money", "plan", "order", "shelf"}

ASSUME LibraryAssumption ==
  /\ {Attempts, DayLength} \subseteq Nat \ {0} /\ {Backfill, MaxDays, MaxPhotos} \subseteq Nat
  /\ None \notin Users \cup Models /\ {} \notin {Users, Models} /\ IsFiniteSet(Users)
  /\ Settings \subseteq [kinds : SUBSET Kinds, photos : 0..MaxPhotos, days : 0..MaxDays, during : BOOLEAN]

VARIABLES
  setting,  \* never changes: what happens, to how many photos, on how many days, and whether it
            \* also happens between two reads of one report or listing
  now,      \* the server's clock
  photo,    \* the Photo table
  job       \* the camera job of each photo

libraryVars == <<setting, now, photo, job>>

\* created and deleted are 0 when they are not set; sales are the times the photo was put on
\* sale, the last of which may be active.
NoPhoto == [owner |-> None, model |-> None, type |-> "RAW", booked |-> FALSE, status |-> "PENDING",
            visibility |-> "PRIVATE", created |-> 0, deleted |-> 0, sales |-> {}, active |-> FALSE]
NoJob == [pc |-> "none", left |-> 0]

LibraryTypeOK ==
  /\ setting \in Settings
  /\ now \in Time
  /\ photo \in [PhotoId -> [owner : Users \cup {None}, model : Models \cup {None}, type : {"RAW", "BOOKING"},
       booked : BOOLEAN, status : {"PENDING", "PARSED", "DUPLICATED", "BAN"},
       visibility : {"PUBLIC", "PRIVATE"}, created : {0} \cup Time, deleted : {0} \cup Time,
       sales : SUBSET Time, active : BOOLEAN]]
  /\ job \in [PhotoId -> [pc : {"none", "read", "connect", "count"}, left : 0..Attempts]]

LibraryInit ==
  /\ setting \in Settings
  /\ now = First
  /\ photo = [f \in PhotoId |-> NoPhoto]
  /\ job = [f \in PhotoId |-> NoJob]

-----------------------------------------------------------------------------
(* Photos *)

Has(f) == photo[f] # NoPhoto
Live(f) == Has(f) /\ photo[f].deleted = 0
May(kind) == kind \in setting.kinds
Change(f, new) == photo' = [photo EXCEPT ![f] = new] /\ UNCHANGED <<setting, now>>

Tick ==
  /\ now < First + DayLength * setting.days
  /\ now' = now + 1
  /\ UNCHANGED <<setting, photo, job>>

\* uploadPhoto and filesystemUploadPhoto: the exif may name no camera. The job is queued last.
Upload(f, u, m, s) ==
  /\ May("upload") /\ f <= setting.photos
  /\ ~Has(f) /\ \A k \in 1..(f - 1) : Has(k)
  /\ Change(f, [NoPhoto EXCEPT !.owner = u, !.model = m, !.status = s, !.created = now])
  /\ job' = [job EXCEPT ![f] = [pc |-> "read", left |-> Attempts]]

\* uploadBookingPhoto: no camera is looked up.
UploadBooking(f, u) ==
  /\ May("book") /\ f <= setting.photos
  /\ ~Has(f) /\ \A k \in 1..(f - 1) : Has(k)
  /\ Change(f, [NoPhoto EXCEPT !.owner = u, !.type = "BOOKING", !.booked = TRUE, !.status = "PARSED",
                               !.created = now])
  /\ UNCHANGED job

\* updatePhoto takes a new type, also while the photo is on sale, ...
Retype(f) ==
  /\ May("retype") /\ Live(f) /\ photo[f].status # "DUPLICATED"
  /\ \E t \in {"RAW", "BOOKING"} \ {photo[f].type} : Change(f, [photo[f] EXCEPT !.type = t])
  /\ UNCHANGED job

\* ... and a new visibility only when it is not.
Hide(f) ==
  /\ May("hide") /\ Live(f) /\ photo[f].status # "DUPLICATED" /\ ~photo[f].active
  /\ \E v \in {"PUBLIC", "PRIVATE"} \ {photo[f].visibility} : Change(f, [photo[f] EXCEPT !.visibility = v])
  /\ UNCHANGED job

SellPhoto(f) ==
  /\ May("sell") /\ Live(f)
  /\ photo[f].type = "RAW" /\ photo[f].status \notin {"DUPLICATED", "BAN"}
  /\ Change(f, [photo[f] EXCEPT !.sales = @ \cup {now}, !.active = TRUE, !.visibility = "PUBLIC"])
  /\ UNCHANGED job

StopSellingPhoto(f) ==
  /\ May("sell") /\ Live(f)
  /\ photo[f].type = "RAW" /\ photo[f].status # "DUPLICATED"
  /\ Change(f, [photo[f] EXCEPT !.active = FALSE, !.visibility = "PRIVATE"])
  /\ UNCHANGED job

\* The jobs that process, compare, ban and unban photos set the status, whatever it was.
Judge(f) ==
  /\ May("judge") /\ Live(f)
  /\ \E s \in {"PARSED", "DUPLICATED", "BAN"} \ {photo[f].status} : Change(f, [photo[f] EXCEPT !.status = s])
  /\ UNCHANGED job

DeletePhoto(f) ==
  /\ May("delete") /\ Live(f)
  /\ Change(f, [photo[f] EXCEPT !.deleted = now, !.active = FALSE])
  /\ UNCHANGED job

\* Whose photos, of which cameras, matters to the camera statistics only, the status of a new one
\* to listings only: bounds.
Uploaders == IF May("camera") \/ May("cron") THEN Users ELSE {CHOOSE u \in Users : TRUE}
Uploaded == IF May("camera") THEN Models \cup {None} ELSE {CHOOSE m \in Models : TRUE}

FirstStatus == IF May("judge") THEN {"PENDING", "PARSED"} ELSE {"PENDING"}

PhotoStep ==
  \E f \in PhotoId :
    \/ \E u \in Uploaders, m \in Uploaded, s \in FirstStatus : Upload(f, u, m, s)
    \/ \E u \in Uploaders : UploadBooking(f, u)
    \/ Retype(f) \/ Hide(f) \/ SellPhoto(f) \/ StopSellingPhoto(f) \/ Judge(f) \/ DeletePhoto(f)
=============================================================================
