------------------------------ MODULE Booking ------------------------------
(***************************************************************************)
(* Photoshoot bookings: the life of a booking between a customer and the   *)
(* photographer of a package, its dates, its bill, its review, and the     *)
(* photos delivered in it, which stay watermarked until it is paid.        *)
(*                                                                         *)
(* Every handler reads the booking with one query and decides on what it   *)
(* read; each later write is a statement of its own.  Only the customer or *)
(* the photographer of a booking gets past the first read, so the caller   *)
(* is left out.  A step is one awaited call.                               *)
(***************************************************************************)
EXTENDS Integers, FiniteSets

CONSTANTS
  Users, None,
  Packages,     \* packages that are on offer at some time
  Owner,        \* package -> the photographer who offers it
  Spans,        \* the dates that requests ask for, in hours
  Day,          \* hours of a day
  Shoot,        \* shortest shoot, in hours: 3 in the code
  MaxQuota,     \* maxPhotoQuota of the photographers, in photos
  Modes,        \* how the system is used, see mode
  Procs,        \* requests in flight at once
  MaxBookings, MaxPhotos, MaxItems, \* bounds: rows of the tables
  Rows          \* bound: mode -> rows of the tables that are used in it

BookingId == 1..MaxBookings
PhotoId == 1..MaxPhotos

BookingStatus == {"REQUESTED", "ACCEPTED", "DENIED", "SUCCESSED", "FAILED"}
Closed == {"SUCCESSED", "FAILED", "DENIED"}
Ended == {"SUCCESSED", "FAILED"}

ASSUME BookingAssumption ==
  /\ Owner \in [Packages -> Users]
  /\ Spans \subseteq [from : Nat, to : Nat]
  /\ Day \in Nat /\ Shoot \in Nat /\ MaxQuota \in Nat
  /\ Modes \subseteq {"serial", "managed", "races"}
  /\ MaxBookings \in Nat /\ MaxPhotos \in Nat /\ MaxItems \in Nat \ {0}
  /\ \A m \in Modes :
       Rows[m] \in [bookings : 0..MaxBookings, photos : 0..MaxPhotos, items : 0..MaxItems]
  /\ None \notin Users \cup Packages /\ None \notin Spans

VARIABLES
  mode,     \* never changes: requests come one at a time, the same with managers
            \* setting statuses, or several at once
  booking,  \* the Booking table
  been,     \* history: the ends each booking has come to
  items,    \* the BookingBillItem table: <<booking, number>>
  reviewed, \* bookings with a review by their customer
  photo,    \* the photos of type BOOKING
  usage,    \* User.photoQuotaUsage of the photographer, in photos
  jobs,     \* UPLOAD_BOOKING_PHOTO jobs in the queue
  req       \* requests in flight

rowVars == <<booking, been, items, reviewed>>
photoVars == <<photo, usage, jobs>>
vars == <<mode, rowVars, photoVars, req>>

\* paidAt: successedAt is set; recent: less than thirty days have passed since then
\* or, when it is not set, since the last update.
FreeBooking == [status |-> "UNUSED", package |-> None, customer |-> None, span |-> None,
                paidAt |-> FALSE, recent |-> TRUE]

\* late: delivered by the file-system upload when the booking was read as paid.
FreePhoto == [status |-> "UNUSED", booking |-> 0, watermark |-> FALSE, late |-> FALSE,
              deleted |-> FALSE, refunds |-> 0]

Idle == [pc |-> "idle", id |-> 0, user |-> None, package |-> None, span |-> None,
         status |-> "UNUSED", photo |-> 0, usage |-> 0]

Request ==
  [pc : {"idle", "checkOverlap", "create", "update", "accept", "deny", "paid",
         "addItem", "dropItem", "review", "quota", "createPhoto", "raiseUsage", "attach",
         "createLocal", "queueUpload", "deletePhoto", "readUsage", "lowerUsage"},
   id : BookingId \cup {0}, user : Users \cup {None}, package : Packages \cup {None},
   span : Spans \cup {None}, status : BookingStatus \cup {"UNUSED"},
   photo : PhotoId \cup {0}, usage : Int]

TypeOK ==
  /\ mode \in Modes
  /\ booking \in [BookingId -> {FreeBooking} \cup
       [status : BookingStatus, package : Packages, customer : Users, span : Spans,
        paidAt : BOOLEAN, recent : BOOLEAN]]
  /\ been \in [BookingId -> SUBSET Ended]
  /\ items \subseteq BookingId \X (1..MaxItems)
  /\ reviewed \subseteq BookingId
  /\ photo \in [PhotoId ->
       [status : {"UNUSED", "PENDING", "PARSED"}, booking : BookingId \cup {0},
        watermark : BOOLEAN, late : BOOLEAN, deleted : BOOLEAN, refunds : Nat]]
  /\ usage \in Int
  /\ jobs \subseteq PhotoId
  /\ req \in [Procs -> Request]

Init ==
  /\ mode \in Modes
  /\ booking = [b \in BookingId |-> FreeBooking]
  /\ been = [b \in BookingId |-> {}]
  /\ items = {} /\ reviewed = {} /\ jobs = {}
  /\ photo = [f \in PhotoId |-> FreePhoto]
  /\ usage = 0
  /\ req = [p \in Procs |-> Idle]

-----------------------------------------------------------------------------
(* Requests and rows *)

Used(b) == booking[b].status # "UNUSED"
Live(f) == photo[f].status # "UNUSED" /\ ~photo[f].deleted

At(p, pc) == req[p].pc = pc
Begin(p, r) ==
  /\ At(p, "idle")
  /\ mode # "races" => \A q \in Procs : At(q, "idle")
  /\ req' = [req EXCEPT ![p] = r]
Goto(p, pc) == req' = [req EXCEPT ![p].pc = pc]
Done(p) == req' = [req EXCEPT ![p] = Idle]

\* A handler reads the booking and refuses unless its status is one of these.
Ask(p, b, statuses, r) ==
  /\ Used(b) /\ booking[b].status \in statuses
  /\ Begin(p, [r EXCEPT !.id = b, !.status = booking[b].status])

\* BookingRepository.updateById; the database client sets updatedAt.
Write(b, row) ==
  /\ booking' = [booking EXCEPT ![b] = IF row.paidAt THEN row ELSE [row EXCEPT !.recent = TRUE]]
  /\ been' = [been EXCEPT ![b] = @ \cup ({row.status} \cap Ended)]

-----------------------------------------------------------------------------
(* Dates *)

\* Dates are in hours from the moment of the requests.
ValidDates(s) == s.from >= Day /\ s.to - s.from >= Shoot

\* Mutant: a denied request keeps its dates, and dates that touch do not overlap.
OverlappingMutant(u, s) ==
  \E b \in BookingId : booking[b].customer = u
    /\ booking[b].status \notin {"SUCCESSED", "FAILED"}
    /\ booking[b].span.from < s.to /\ booking[b].span.to > s.from

\* validatePreviousBookingOverlap: an open booking of the customer in these dates.
Overlapping(u, s) ==
  \E b \in BookingId : booking[b].customer = u
    /\ booking[b].status \notin Closed
    /\ booking[b].span.from <= s.to /\ booking[b].span.to >= s.from

\* Which packages are enabled is left open: any may be at any moment.
RequestBooking(p, u, k, s) ==
  /\ Owner[k] # u
  /\ ValidDates(s)
  /\ Begin(p, [Idle EXCEPT !.pc = "checkOverlap", !.user = u, !.package = k, !.span = s])
  /\ UNCHANGED <<mode, rowVars, photoVars>>

\* Moving a booking checks the dates of its customer; the booking itself is one of
\* the bookings found.
UpdateById(p, b, s) ==
  /\ s # None => ValidDates(s)
  /\ Ask(p, b, {"REQUESTED", "ACCEPTED"},
         [Idle EXCEPT !.pc = IF s = None THEN "update" ELSE "checkOverlap",
                      !.user = booking[b].customer, !.span = s])
  /\ UNCHANGED <<mode, rowVars, photoVars>>

CheckOverlap(p) ==
  /\ At(p, "checkOverlap")
  /\ IF Overlapping(req[p].user, req[p].span) THEN Done(p)
     ELSE Goto(p, IF req[p].id = 0 THEN "create" ELSE "update")
  /\ UNCHANGED <<mode, rowVars, photoVars>>

\* The booking is created with one item: the price of the package.
CreateBooking(p) ==
  /\ At(p, "create")
  /\ \E b \in BookingId :
       /\ b <= Rows[mode].bookings /\ ~Used(b) /\ \A c \in 1..(b - 1) : Used(c)
       /\ Write(b, [FreeBooking EXCEPT !.status = "REQUESTED", !.package = req[p].package,
                                       !.customer = req[p].user, !.span = req[p].span])
       /\ items' = items \cup {<<b, 1>>}
  /\ Done(p)
  /\ UNCHANGED <<mode, reviewed, photoVars>>

WriteUpdate(p) ==
  LET b == req[p].id IN
  /\ At(p, "update")
  /\ Write(b, IF req[p].span = None THEN booking[b]
              ELSE [booking[b] EXCEPT !.span = req[p].span])
  /\ Done(p)
  /\ UNCHANGED <<mode, items, reviewed, photoVars>>

-----------------------------------------------------------------------------
(* The photographer decides *)

Accept(p, b) ==
  /\ Ask(p, b, {"REQUESTED"}, [Idle EXCEPT !.pc = "accept"])
  /\ UNCHANGED <<mode, rowVars, photoVars>>

Deny(p, b) ==
  /\ Ask(p, b, {"REQUESTED"}, [Idle EXCEPT !.pc = "deny"])
  /\ UNCHANGED <<mode, rowVars, photoVars>>

Decide(p) ==
  LET b == req[p].id IN
  /\ At(p, "accept") \/ At(p, "deny")
  /\ Write(b, [booking[b] EXCEPT !.status = IF At(p, "accept") THEN "ACCEPTED" ELSE "DENIED"])
  /\ Done(p)
  /\ UNCHANGED <<mode, items, reviewed, photoVars>>

UpdateBookingToPaid(p, b) ==
  /\ Ask(p, b, {"ACCEPTED"}, [Idle EXCEPT !.pc = "paid"])
  /\ UNCHANGED <<mode, rowVars, photoVars>>

\* Mutant: the status is set, the photos are left as they are.
PaidMutant(p) ==
  LET b == req[p].id IN
  /\ At(p, "paid")
  /\ Write(b, [booking[b] EXCEPT !.status = "SUCCESSED", !.paidAt = TRUE, !.recent = TRUE])
  /\ Done(p)
  /\ UNCHANGED <<mode, items, reviewed, photoVars>>

\* One transaction: the booking is paid and its photos lose their watermark.
Paid(p) ==
  LET b == req[p].id IN
  /\ At(p, "paid")
  /\ Write(b, [booking[b] EXCEPT !.status = "SUCCESSED", !.paidAt = TRUE, !.recent = TRUE])
  /\ photo' = [f \in PhotoId |-> IF Live(f) /\ photo[f].booking = b
                                 THEN [photo[f] EXCEPT !.watermark = FALSE] ELSE photo[f]]
  /\ Done(p)
  /\ UNCHANGED <<mode, items, reviewed, usage, jobs>>

\* ManageBookingService.updateStatus: any status, at any time.
UpdateStatus(b, st) ==
  /\ mode = "managed"
  /\ Used(b) /\ booking[b].status # st
  /\ Write(b, [booking[b] EXCEPT !.status = st])
  /\ UNCHANGED <<mode, items, reviewed, photoVars, req>>

-----------------------------------------------------------------------------
(* The bill and the review *)

\* createBillItem, deleteBillItem; updateBillItem changes neither the booking nor
\* the number of an item.
AskBill(p, b, pc) ==
  /\ Ask(p, b, {"REQUESTED", "ACCEPTED"}, [Idle EXCEPT !.pc = pc])
  /\ UNCHANGED <<mode, rowVars, photoVars>>

AddItem(p) ==
  /\ At(p, "addItem")
  /\ \E n \in 1..Rows[mode].items :
       /\ <<req[p].id, n>> \notin items
       /\ items' = items \cup {<<req[p].id, n>>}
  /\ Done(p)
  /\ UNCHANGED <<mode, booking, been, reviewed, photoVars>>

DropItem(p) ==
  /\ At(p, "dropItem")
  /\ \E i \in items : i[1] = req[p].id /\ items' = items \ {i}
  /\ Done(p)
  /\ UNCHANGED <<mode, booking, been, reviewed, photoVars>>

CreateReview(p, b) ==
  /\ Ask(p, b, {"SUCCESSED", "FAILED"}, [Idle EXCEPT !.pc = "review"])
  /\ UNCHANGED <<mode, rowVars, photoVars>>

\* An upsert: at most one review of a booking by its customer.
UpsertReview(p) ==
  /\ At(p, "review")
  /\ reviewed' = reviewed \cup {req[p].id}
  /\ Done(p)
  /\ UNCHANGED <<mode, booking, been, items, photoVars>>

-----------------------------------------------------------------------------
(* Delivering photos *)

\* uploadPhoto, through memory.
UploadPhoto(p, b) ==
  /\ Ask(p, b, {"ACCEPTED", "SUCCESSED"}, [Idle EXCEPT !.pc = "quota"])
  /\ UNCHANGED <<mode, rowVars, photoVars>>

\* filesystemUploadPhoto, through the disk of the server: no quota.
FilesystemUploadPhoto(p, b) ==
  /\ Ask(p, b, {"ACCEPTED", "SUCCESSED"}, [Idle EXCEPT !.pc = "createLocal"])
  /\ UNCHANGED <<mode, rowVars, photoVars>>

\* PhotoService.uploadBookingPhoto: the quota, the row, the usage.
ReadQuota(p) ==
  /\ At(p, "quota")
  /\ IF usage + 1 >= MaxQuota THEN Done(p) ELSE Goto(p, "createPhoto")
  /\ UNCHANGED <<mode, rowVars, photoVars>>

CreatePhoto(p, row, next) ==
  \E f \in PhotoId :
    /\ f <= Rows[mode].photos
    /\ photo[f].status = "UNUSED" /\ \A g \in 1..(f - 1) : photo[g].status # "UNUSED"
    /\ photo' = [photo EXCEPT ![f] = row]
    /\ req' = [req EXCEPT ![p] = [@ EXCEPT !.pc = next, !.photo = f]]

CreateParsed(p) ==
  /\ At(p, "createPhoto")
  /\ CreatePhoto(p, [FreePhoto EXCEPT !.status = "PARSED"], "raiseUsage")
  /\ UNCHANGED <<mode, rowVars, usage, jobs>>

RaiseUsage(p) ==
  /\ At(p, "raiseUsage")
  /\ usage' = usage + 1
  /\ Goto(p, "attach")
  /\ UNCHANGED <<mode, rowVars, photo, jobs>>

\* A row deleted meanwhile is not found, and the request fails.
Attach(p) ==
  LET f == req[p].photo IN
  /\ At(p, "attach")
  /\ photo' = [photo EXCEPT ![f] =
       IF Live(f) THEN [@ EXCEPT !.booking = req[p].id,
                                 !.watermark = req[p].status # "SUCCESSED"] ELSE @]
  /\ Done(p)
  /\ UNCHANGED <<mode, rowVars, usage, jobs>>

\* Always with a watermark, even in a booking that was read as paid.
CreateLocal(p) ==
  /\ At(p, "createLocal")
  /\ CreatePhoto(p, [FreePhoto EXCEPT !.status = "PENDING", !.booking = req[p].id,
                       !.watermark = TRUE, !.late = req[p].status = "SUCCESSED"],
                 "queueUpload")
  /\ UNCHANGED <<mode, rowVars, usage, jobs>>

QueueUpload(p) ==
  /\ At(p, "queueUpload")
  /\ jobs' = jobs \cup {req[p].photo}
  /\ Done(p)
  /\ UNCHANGED <<mode, rowVars, photo, usage>>

\* PhotoProcessConsumer.uploadBookingPhoto is started and not awaited: a photo deleted
\* meanwhile is an unhandled rejection, which ends the server and all it was doing.
RunUploadJob(f) ==
  /\ f \in jobs
  /\ jobs' = jobs \ {f}
  /\ IF Live(f)
     THEN photo' = [photo EXCEPT ![f].status = "PARSED"] /\ UNCHANGED req
     ELSE req' = [p \in Procs |-> Idle] /\ UNCHANGED photo
  /\ UNCHANGED <<mode, rowVars, usage>>

-----------------------------------------------------------------------------
(* Deleting photos *)

PaidLongAgo(b) == booking[b].status = "SUCCESSED" => ~booking[b].recent

DeletePhoto(p, b, f) ==
  /\ PaidLongAgo(b)
  /\ Live(f) /\ photo[f].booking = b
  /\ Ask(p, b, BookingStatus, [Idle EXCEPT !.pc = "deletePhoto", !.photo = f])
  /\ UNCHANGED <<mode, rowVars, photoVars>>

\* PhotoService.deleteById, of any photo of the photographer.
DeleteById(p, f) ==
  /\ Live(f)
  /\ Begin(p, [Idle EXCEPT !.pc = "deletePhoto", !.photo = f])
  /\ UNCHANGED <<mode, rowVars, photoVars>>

\* Mutant: a row that is deleted already is updated again.
DeleteRowMutant(p) ==
  LET f == req[p].photo IN
  /\ At(p, "deletePhoto")
  /\ photo' = [photo EXCEPT ![f].deleted = TRUE]
  /\ Goto(p, "readUsage")
  /\ UNCHANGED <<mode, rowVars, usage, jobs>>

\* PhotoRepository.deleteById updates a row that is not deleted; the second of two
\* deletions does not find it and fails.
DeleteRow(p) ==
  LET f == req[p].photo IN
  /\ At(p, "deletePhoto")
  /\ \/ /\ Live(f)
        /\ photo' = [photo EXCEPT ![f].deleted = TRUE]
        /\ Goto(p, "readUsage")
     \/ ~Live(f) /\ Done(p) /\ UNCHANGED photo
  /\ UNCHANGED <<mode, rowVars, usage, jobs>>

\* UserService.updatePhotoQuota: a usage read, then lowered, or reset when it would
\* not stay above zero.
ReadUsage(p) ==
  /\ At(p, "readUsage")
  /\ req' = [req EXCEPT ![p] = [@ EXCEPT !.pc = "lowerUsage", !.usage = usage]]
  /\ UNCHANGED <<mode, rowVars, photoVars>>

LowerUsage(p) ==
  /\ At(p, "lowerUsage")
  /\ usage' = IF req[p].usage - 1 > 0 THEN usage - 1 ELSE 0
  /\ photo' = [photo EXCEPT ![req[p].photo].refunds = @ + 1]
  /\ Done(p)
  /\ UNCHANGED <<mode, rowVars, jobs>>

-----------------------------------------------------------------------------
(* Time *)

\* Thirty days pass; no request takes that long.
Age(b) ==
  /\ booking[b].status = "SUCCESSED" /\ booking[b].recent
  /\ \A p \in Procs : At(p, "idle")
  /\ booking' = [booking EXCEPT ![b].recent = FALSE]
  /\ UNCHANGED <<mode, been, items, reviewed, photoVars, req>>

-----------------------------------------------------------------------------
CustomerAsks(p) ==
  \/ \E u \in Users, k \in Packages, s \in Spans : RequestBooking(p, u, k, s)
  \/ \E b \in BookingId : CreateReview(p, b)

\* A booking and its photos, by the photographer of its package; a delivered photo can also be
\* deleted as any other photo is.
PhotographerAsks(p) ==
  \/ \E b \in BookingId :
       \/ UploadPhoto(p, b) \/ FilesystemUploadPhoto(p, b)
       \/ \E f \in PhotoId : DeletePhoto(p, b, f)
       \/ Accept(p, b) \/ Deny(p, b) \/ UpdateBookingToPaid(p, b)
       \/ \E s \in Spans \cup {None} : UpdateById(p, b, s)
  \/ \E f \in PhotoId : DeleteById(p, f)

PhotographerBills(p) == \E b \in BookingId : AskBill(p, b, "addItem") \/ AskBill(p, b, "dropItem")

ManagerSets == \E b \in BookingId, st \in BookingStatus : UpdateStatus(b, st)

Step(p) ==
  \/ CheckOverlap(p) \/ CreateBooking(p) \/ WriteUpdate(p)
  \/ Decide(p) \/ Paid(p) \/ AddItem(p) \/ DropItem(p) \/ UpsertReview(p)
  \/ ReadQuota(p) \/ CreateParsed(p) \/ RaiseUsage(p) \/ Attach(p)
  \/ CreateLocal(p) \/ QueueUpload(p)
  \/ DeleteRow(p) \/ ReadUsage(p) \/ LowerUsage(p)

Next ==
  \/ \E p \in Procs : CustomerAsks(p) \/ PhotographerAsks(p) \/ PhotographerBills(p) \/ Step(p)
  \/ ManagerSets
  \/ \E f \in PhotoId : RunUploadJob(f)
  \/ \E b \in BookingId : Age(b)

Spec == Init /\ [][Next]_vars

-----------------------------------------------------------------------------
(* Properties *)

\* A delivered photo is watermarked until its booking has been paid: whatever requests run
\* together, and whatever a manager sets, only a booking that was SUCCESSED at some time shows
\* a photo without watermark. One request at a time, a paid booking shows its photos without
\* watermark, except those delivered later through the file system.
WatermarkFollowsPayment ==
  /\ TypeOK
  /\ \A f \in PhotoId : photo[f].booking # 0 /\ ~photo[f].watermark => "SUCCESSED" \in been[photo[f].booking]
  /\ mode = "serial" => \A f \in PhotoId :
       Live(f) /\ photo[f].booking # 0 /\ booking[photo[f].booking].status = "SUCCESSED" /\ ~photo[f].late
         => ~photo[f].watermark

\* However many deletions of a photo run together, its size is given back at most
\* once to the quota of the photographer.
RefundedOnce == \A f \in PhotoId : photo[f].refunds <= 1

\* One request at a time, the bookings are the agreements of Agreement: they move
\* forward only, a customer's do not overlap, a closed one keeps its dates and bill.
Serial(value, unused) == IF mode = "serial" THEN value ELSE unused

Agreements == INSTANCE Agreement WITH
  Ids <- BookingId, Dates <- Spans, Items <- 1..MaxItems,
  phase <- [b \in BookingId |-> Serial(booking[b].status, "UNUSED")],
  holder <- [b \in BookingId |-> Serial(booking[b].customer, None)],
  dates <- [b \in BookingId |-> Serial(booking[b].span, None)],
  bill <- [b \in BookingId |-> Serial({i[2] : i \in {j \in items : j[1] = b}}, {})]

KeepsAgreements == Agreements!Spec
=============================================================================
