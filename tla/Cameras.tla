------------------------------ MODULE Cameras ------------------------------
(***************************************************************************)
(* Cameras: the job that connects a photo with the camera its exif names   *)
(* and counts the photographer among the users of that camera, what        *)
(* managers do to cameras, and the daily statistics of popular cameras.    *)
(***************************************************************************)
EXTENDS Library, FiniteSetsExt, Sequences

CONSTANTS
  TopLimit,   \* rows of the statistics of one moment, 5 in the code
  MaxCameras  \* bound: rows of the Camera table

ASSUME CamerasAssumption == {TopLimit, MaxCameras} \subseteq Nat

CameraId == 1..MaxCameras

VARIABLES
  camera,     \* the Camera table
  cameraOf,   \* Photo.cameraId
  joined,     \* the CameraOnUsers table: when the user's first photo was counted, or 0
  timeline,   \* the PopularCameraTimeline table: timestamps, unique
  point,      \* the PopularCameraDataPoint table: [camera, timestamp, count]
  cron        \* triggerCron: the moments that are left, and the one it is at

cameraVars == <<camera, cameraOf, joined, timeline, point, cron>>

NoCamera == [name |-> None, created |-> 0, deleted |-> FALSE]
NoCron == [pc |-> "idle", left |-> <<>>]

CamerasTypeOK ==
  /\ camera \in [CameraId -> [name : Models \cup {None}, created : {0} \cup Time, deleted : BOOLEAN]]
  /\ \A c, d \in CameraId : camera[c].name = camera[d].name => c = d \/ camera[c] = NoCamera
  /\ cameraOf \in [PhotoId -> {0} \cup CameraId]
  /\ joined \in [CameraId -> [Users -> {0} \cup Time]]
  /\ timeline \subseteq Time
  /\ point \subseteq [camera : CameraId, timestamp : timeline, count : Nat]
  /\ cron.pc \in {"idle", "timeline", "points"}

CamerasInit ==
  /\ camera = [c \in CameraId |-> NoCamera]
  /\ cameraOf = [f \in PhotoId |-> 0]
  /\ joined = [c \in CameraId |-> [u \in Users |-> 0]]
  /\ timeline = {}
  /\ point = {}
  /\ cron = NoCron

-----------------------------------------------------------------------------
(* The camera job *)

Named(c, m) == camera[c] # NoCamera /\ camera[c].name = m
JobAt(f, pc) == job[f].pc = pc
Goto(f, pc) == job' = [job EXCEPT ![f].pc = pc]

\* findUniqueOrThrow: the job fails while the photo is deleted or its exif names no camera.
ReadPhoto(f) ==
  /\ JobAt(f, "read") /\ Live(f) /\ photo[f].model # None
  /\ Goto(f, "connect")
  /\ UNCHANGED <<setting, now, photo, cameraVars>>

\* upsert by the name alone, which also finds a camera a manager deleted.
Connect(f) ==
  /\ JobAt(f, "connect")
  /\ \E c \in CameraId :
       /\ \/ Named(c, photo[f].model) /\ UNCHANGED camera
          \/ /\ camera[c] = NoCamera /\ \A d \in CameraId : ~Named(d, photo[f].model)
             /\ \A d \in 1..(c - 1) : camera[d] # NoCamera
             /\ camera' = [camera EXCEPT ![c] = [name |-> photo[f].model, created |-> now, deleted |-> FALSE]]
       /\ cameraOf' = [cameraOf EXCEPT ![f] = c]
  /\ Goto(f, "count")
  /\ UNCHANGED <<setting, now, photo, joined, timeline, point, cron>>

\* Mutant: each photo renews the time the photographer became a user of the camera.
CountUserMutant(f) ==
  /\ JobAt(f, "count")
  /\ joined' = [joined EXCEPT ![cameraOf[f]][photo[f].owner] = now]
  /\ job' = [job EXCEPT ![f] = NoJob]
  /\ UNCHANGED <<setting, now, photo, camera, cameraOf, timeline, point, cron>>

\* An upsert: who is a user of the camera already stays one since then.
CountUser(f) ==
  /\ JobAt(f, "count")
  /\ joined' = [joined EXCEPT ![cameraOf[f]][photo[f].owner] = IF @ = 0 THEN now ELSE @]
  /\ job' = [job EXCEPT ![f] = NoJob]
  /\ UNCHANGED <<setting, now, photo, camera, cameraOf, timeline, point, cron>>

\* An attempt throws; the job starts again, or is given up.
FailJob(f) ==
  /\ May("fail") /\ ~JobAt(f, "none")
  /\ job' = [job EXCEPT ![f] = IF @.left > 1 THEN [pc |-> "read", left |-> @.left - 1] ELSE NoJob]
  /\ UNCHANGED <<setting, now, photo, cameraVars>>

-----------------------------------------------------------------------------
(* Managers *)

\* The name is unique, so that an update to another camera's name fails.
UpdateCamera(c, m) ==
  /\ May("camera") /\ camera[c] # NoCamera /\ ~camera[c].deleted
  /\ \A d \in CameraId \ {c} : ~Named(d, m)
  /\ camera' = [camera EXCEPT ![c].name = m]
  /\ UNCHANGED <<libraryVars, cameraOf, joined, timeline, point, cron>>

DeleteCamera(c) ==
  /\ May("camera") /\ camera[c] # NoCamera
  /\ camera' = [camera EXCEPT ![c].deleted = TRUE]
  /\ UNCHANGED <<libraryVars, cameraOf, joined, timeline, point, cron>>

-----------------------------------------------------------------------------
(* Statistics *)

Newcomers(c, day, before) ==
  {u \in Users : joined[c][u] # 0 /\ joined[c][u] < before /\ Day(joined[c][u]) = day}

\* Mutant: the moment the statistics are about is not asked for.
UsageMutant(before) ==
  {r \in [camera : CameraId, day : {Day(t) : t \in Time}, count : 1..Cardinality(Users)] :
     r.count = Cardinality(Newcomers(r.camera, r.day, now + 1))}
\* A camera has a row for each day it won users on.
Usage(before) ==
  {r \in [camera : CameraId, day : {Day(t) : t \in Time}, count : 1..Cardinality(Users)] :
     r.count = Cardinality(Newcomers(r.camera, r.day, before))}

\* ORDER BY the count, LIMIT: rows of one count are cut off in any order.
IsTop(rows, all) ==
  /\ rows \subseteq all
  /\ Cardinality(rows) = Min({TopLimit, Cardinality(all)})
  /\ \A r \in rows, s \in all \ rows : r.count >= s.count

\* The first row of a camera creates its data point, which is never updated.
Points(rows, t) ==
  {[camera |-> r.camera, timestamp |-> t, count |-> Max({s.count : s \in {s \in rows : s.camera = r.camera}})] :
     r \in {r \in rows : \A q \in point : q.camera # r.camera \/ q.timestamp # t}}

\* At midnight, or when a manager asks for it: with fewer timelines than a week has, the days
\* before come first.
TriggerCron ==
  /\ May("cron") /\ cron = NoCron
  /\ cron' = [pc |-> "timeline",
              left |-> IF Cardinality({t \in timeline : t <= now}) < Backfill
                         THEN [i \in 1..(Backfill + 1) |-> now - DayLength * (i % (Backfill + 1))]
                         ELSE <<now>>]
  /\ UNCHANGED <<libraryVars, camera, cameraOf, joined, timeline, point>>

UpsertTimeline ==
  /\ cron.pc = "timeline"
  /\ timeline' = timeline \cup {Head(cron.left)}
  /\ cron' = [cron EXCEPT !.pc = "points"]
  /\ UNCHANGED <<libraryVars, camera, cameraOf, joined, point>>

\* The usage is read and the points are upserted in one transaction.
UpsertPoints ==
  /\ cron.pc = "points"
  /\ \E rows \in SUBSET Usage(Head(cron.left)) :
       /\ IsTop(rows, Usage(Head(cron.left)))
       /\ point' = point \cup Points(rows, Head(cron.left))
  /\ cron' = IF Len(cron.left) = 1 THEN NoCron ELSE [pc |-> "timeline", left |-> Tail(cron.left)]
  /\ UNCHANGED <<libraryVars, camera, cameraOf, joined, timeline>>

\* The server stops, or a query fails: what was written so far stays.
StopCron ==
  /\ cron # NoCron
  /\ cron' = NoCron
  /\ UNCHANGED <<libraryVars, camera, cameraOf, joined, timeline, point>>

CamerasStep ==
  \/ /\ May("camera") \/ May("cron")
     /\ \E f \in PhotoId : ReadPhoto(f) \/ Connect(f) \/ CountUser(f) \/ FailJob(f)
  \/ \E c \in CameraId : DeleteCamera(c) \/ \E m \in Models : UpdateCamera(c, m)
  \/ TriggerCron \/ UpsertTimeline \/ UpsertPoints \/ StopCron
=============================================================================
