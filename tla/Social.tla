------------------------------- MODULE Social -------------------------------
(***************************************************************************)
(* What the social parts of the system share: requests in flight, the      *)
(* photos people talk about, who follows whom, and the queue of            *)
(* notifications with the worker that serves it.                           *)
(***************************************************************************)
EXTENDS Integers, FiniteSets

CONSTANTS
  Procs,     \* requests in flight at once
  Users, None,
  Settings,  \* what is explored together, see setting
  Attempts,  \* bound: runs of a job before it is given up, 5 in the code
  MaxPhotos, MaxFeeds, MaxComments, MaxReports, MaxConversations, MaxMessages,
             \* bounds: rows of the tables
  MaxParts   \* bound: parts of a newsfeed an update names

PhotoId == 1..MaxPhotos
FeedId == 1..MaxFeeds
CommentId == 1..MaxComments
ReportId == 1..MaxReports
ConversationId == 1..MaxConversations
MessageId == 1..MaxMessages
Id == 0..100

Kinds == {"feed", "talk", "like", "follow", "comment", "vote", "mark", "report", "photo", "chat"}

ASSUME SocialAssumption ==
  /\ Settings \subseteq [procs : SUBSET Procs, kinds : SUBSET Kinds, failures : Nat, rows : Nat, attempts : 1..Attempts]
  /\ None \notin Users
  /\ Attempts \in Nat \ {0}
  /\ {MaxPhotos, MaxFeeds, MaxComments, MaxReports, MaxConversations, MaxMessages} \subseteq Id

VARIABLES
  setting,  \* never changes: how many requests are in flight at once, of which kinds, how
            \* many fail, how many comments or bookmarks there are, and how often a job is tried
  photo,    \* the Photo table
  follow,   \* the Follow table: <<follower, following>>
  job,      \* notifications in the queue; those about a photo, not a message, are of message 0
            \* and are one when they are alike
  inbox,    \* the messages each user was told of
  req,      \* requests in flight
  failures  \* requests that failed so far

socialVars == <<setting, photo, follow, job, inbox, req, failures>>

NoPhoto == [owner |-> None, public |-> FALSE, deleted |-> TRUE]
Idle == [pc |-> "idle", user |-> None, id |-> 0, on |-> 0, parent |-> 0, other |-> None,
         type |-> None, ref |-> <<"NONE", 0>>, parts |-> {}, photos |-> {}, allow |-> {}, deny |-> {},
         tell |-> {}]

SocialTypeOK ==
  /\ setting \in Settings
  /\ photo \in [PhotoId -> [owner : Users \cup {None}, public : BOOLEAN, deleted : BOOLEAN]]
  /\ follow \subseteq Users \X Users
  /\ job \subseteq [user : Users, message : {0} \cup MessageId, left : 1..setting.attempts, kept : BOOLEAN]
  /\ inbox \in [Users -> SUBSET MessageId]
  /\ \A p \in Procs :
       /\ DOMAIN req[p] = DOMAIN Idle
       /\ req[p].user \in Users \cup {None} /\ req[p].other \in Users \cup {None}
       /\ {req[p].id, req[p].on, req[p].parent} \subseteq Id
       /\ req[p].photos \subseteq PhotoId
       /\ req[p].allow \cap req[p].deny = {}
  /\ failures \in 0..setting.failures

\* The photos are there already, of one photographer.
SocialInit ==
  /\ setting \in Settings
  /\ photo = [f \in PhotoId |->
       [owner |-> CHOOSE u \in Users : TRUE, public |-> TRUE, deleted |-> FALSE]]
  /\ follow = {}
  /\ job = {}
  /\ inbox = [u \in Users |-> {}]
  /\ req = [p \in Procs |-> Idle]
  /\ failures = 0

-----------------------------------------------------------------------------
(* Requests *)

Serial == Cardinality(setting.procs) = 1 /\ setting.failures = 0
At(p, pc) == req[p].pc = pc
Ready(p, kind) == kind \in setting.kinds /\ p \in setting.procs /\ At(p, "idle")
Begin(p, r) == req' = [req EXCEPT ![p] = r]
Done(p) == req' = [req EXCEPT ![p] = Idle]

\* A row is inserted under the next free id.
Fresh(i, Used(_)) == ~Used(i) /\ \A k \in 1..(i - 1) : Used(k)

\* A request throws for another reason, or the server stops.
Fail(p) ==
  /\ ~At(p, "idle")
  /\ failures < setting.failures
  /\ failures' = failures + 1
  /\ Done(p)
  /\ UNCHANGED <<setting, photo, follow, job, inbox>>

-----------------------------------------------------------------------------
(* Photos and following *)

HasPhoto(f) == photo[f] # NoPhoto
LivePhoto(f) == HasPhoto(f) /\ ~photo[f].deleted

\* updatePhoto and deleteById, as far as others notice.
EditPhoto(f) ==
  /\ "photo" \in setting.kinds /\ LivePhoto(f)
  /\ \/ photo' = [photo EXCEPT ![f].public = ~@]
     \/ photo' = [photo EXCEPT ![f].deleted = TRUE]
  /\ UNCHANGED <<setting, follow, job, inbox, req, failures>>

\* follow is an upsert; unfollow throws when there is nothing to delete.
Follow(u, v) ==
  /\ "follow" \in setting.kinds /\ u # v
  /\ \/ follow' = follow \cup {<<u, v>>}
     \/ <<u, v>> \in follow /\ follow' = follow \ {<<u, v>>}
  /\ UNCHANGED <<setting, photo, job, inbox, req, failures>>

-----------------------------------------------------------------------------
(* Notifications *)

\* Queue a notification for each of these users.
QueueFor(users, message) ==
  job' = job \cup
    {[user |-> u, message |-> message, left |-> setting.attempts, kept |-> FALSE] : u \in users}

\* A run of the job fails: it is tried again or given up.
Again(j) == (job \ {j}) \cup
  IF j.left = 1 THEN {} ELSE {[j EXCEPT !.left = @ - 1, !.kept = FALSE]}

\* Mutant: the notification is kept only after it was pushed.
KeepMutant(j) ==
  /\ ~j.kept
  /\ \/ /\ job' = (job \ {j}) \cup {[j EXCEPT !.kept = TRUE]}
        /\ inbox' = [inbox EXCEPT ![j.user] = @ \cup ({j.message} \cap MessageId)]
     \/ job' = Again(j) /\ UNCHANGED inbox
  /\ UNCHANGED <<setting, photo, follow, req, failures>>

\* sendNotification keeps the notification for the user, in each attempt again,
Keep(j) ==
  /\ ~j.kept
  /\ job' = (job \ {j}) \cup {[j EXCEPT !.kept = TRUE]}
  /\ inbox' = [inbox EXCEPT ![j.user] = @ \cup ({j.message} \cap MessageId)]
  /\ UNCHANGED <<setting, photo, follow, req, failures>>

\* and then pushes it and sends it by mail, which may fail.
Push(j) ==
  /\ j.kept
  /\ job' = job \ {j} \/ job' = Again(j)
  /\ UNCHANGED <<setting, photo, follow, inbox, req, failures>>

Serve(u, m) == \E j \in job : j.user = u /\ j.message = m /\ (Keep(j) \/ Push(j))
=============================================================================
