----------------------------- MODULE Newsfeeds -----------------------------
(***************************************************************************)
(* Newsfeeds: photos shown under a visibility and permissions of single    *)
(* users, with likes and comments.  Every handler checks first and writes  *)
(* later; texts are left out.                                              *)
(***************************************************************************)
EXTENDS Social

VARIABLES
  feed,  \* the Newsfeed table, with its photos and NewsfeedViewPermission
  like,  \* the NewsfeedLike table
  talk   \* the NewsfeedComment table

feedVars == <<feed, like, talk>>

Visibility == {"PUBLIC", "ONLY_FOLLOWING", "ONLY_CHOOSED", "ONLY_ME"}
NoFeed == [owner |-> None, visibility |-> "ONLY_ME", allow |-> {}, deny |-> {}, photos |-> {}]
NoTalk == [user |-> None, feed |-> 0, parent |-> 0, gone |-> FALSE]

FeedTypeOK ==
  /\ feed \in [FeedId -> [owner : Users \cup {None}, visibility : Visibility,
                          allow : SUBSET Users, deny : SUBSET Users, photos : SUBSET PhotoId]]
  /\ \A n \in FeedId : feed[n].allow \cap feed[n].deny = {}
  /\ like \subseteq FeedId \X Users
  /\ talk \in [CommentId -> [user : Users \cup {None}, feed : {0} \cup FeedId,
                             parent : {0} \cup CommentId, gone : BOOLEAN]]

\* Where newsfeeds are not written, one of them is there.
FeedInit ==
  /\ IF "feed" \in setting.kinds \/ setting.kinds \cap {"like", "talk"} = {} THEN feed = [n \in FeedId |-> NoFeed]
     ELSE \E u \in Users, v \in Visibility, deny \in SUBSET Users :
            feed = [n \in FeedId |-> IF n # 1 THEN NoFeed ELSE
              [NoFeed EXCEPT !.owner = u, !.visibility = v, !.allow = Users \ deny, !.deny = deny]]
  /\ like = {}
  /\ talk = [c \in CommentId |-> NoTalk]

HasFeed(n) == feed[n] # NoFeed
UsedTalk(c) == talk[c] # NoTalk
HasTalk(c) == UsedTalk(c) /\ ~talk[c].gone

-----------------------------------------------------------------------------
(* Who may see what *)

Follows(u, n) == <<u, feed[n].owner>> \in follow

\* validatePermission
Allowed(u, n) ==
  /\ HasFeed(n)
  /\ u \notin feed[n].deny
  /\ CASE feed[n].visibility = "PUBLIC"         -> TRUE
       [] feed[n].visibility = "ONLY_ME"        -> u = feed[n].owner
       [] feed[n].visibility = "ONLY_CHOOSED"   -> u = feed[n].owner \/ u \in feed[n].allow
       [] feed[n].visibility = "ONLY_FOLLOWING" -> u = feed[n].owner \/ Follows(u, n)

\* Mutant: permissions are asked for chosen users only.
ListedMutant(u, n, filter) ==
  /\ HasFeed(n) /\ feed[n].visibility \in filter
  /\ CASE feed[n].visibility = "PUBLIC"         -> TRUE
       [] feed[n].visibility = "ONLY_ME"        -> u = feed[n].owner
       [] feed[n].visibility = "ONLY_CHOOSED"   -> u \in feed[n].allow \ feed[n].deny
       [] feed[n].visibility = "ONLY_FOLLOWING" -> Follows(u, n)

\* findAll: an empty filter asks for all but what is for chosen users.
Listed(u, n, filter) ==
  LET asked == IF filter = {} THEN Visibility \ {"ONLY_CHOOSED"} ELSE filter IN
  /\ HasFeed(n) /\ feed[n].visibility \in asked
  /\ u \notin feed[n].deny
  /\ CASE feed[n].visibility = "PUBLIC"         -> TRUE
       [] feed[n].visibility = "ONLY_ME"        -> u = feed[n].owner
       [] feed[n].visibility = "ONLY_CHOOSED"   -> u \in feed[n].allow
       [] feed[n].visibility = "ONLY_FOLLOWING" -> Follows(u, n)

-----------------------------------------------------------------------------
(* Writing newsfeeds *)

\* The photos named must be live photos of the user.
Own(u, photos) == \A f \in photos : LivePhoto(f) /\ photo[f].owner = u
Parts == {"visibility", "photos", "permissions"}

\* create names all of a newsfeed; update names some parts of one of the user's own.  A user
\* is named once in the permissions.
AskFeed(p, u) ==
  /\ Ready(p, "feed")
  /\ \E photos \in SUBSET PhotoId, allow, deny \in SUBSET Users, v \in Visibility :
       /\ allow \cap deny = {} /\ Own(u, photos)
       /\ LET r == [Idle EXCEPT !.user = u, !.type = v, !.photos = photos, !.allow = allow,
                               !.deny = deny] IN
          \/ ~(\A n \in FeedId : HasFeed(n)) /\ Begin(p, [r EXCEPT !.pc = "createFeed"])
          \/ \E n \in FeedId, parts \in SUBSET Parts :
               /\ Cardinality(parts) <= MaxParts
               /\ HasFeed(n) /\ feed[n].owner = u
               /\ "photos" \notin parts => photos = {}
               /\ "visibility" \notin parts => v = "PUBLIC"
               /\ "permissions" \notin parts => allow \cup deny = {}
               /\ Begin(p, [r EXCEPT !.pc = "updateFeed", !.id = n, !.parts = parts])
  /\ UNCHANGED <<setting, photo, follow, job, inbox, failures, feedVars>>

\* Connecting a photo whose row is gone fails.
CreateFeed(p) ==
  LET r == req[p] IN
  /\ At(p, "createFeed")
  /\ IF \A f \in r.photos : HasPhoto(f)
     THEN \E n \in FeedId :
            /\ Fresh(n, HasFeed)
            /\ feed' = [feed EXCEPT ![n] =
                 [owner |-> r.user, visibility |-> r.type, allow |-> r.allow, deny |-> r.deny,
                  photos |-> r.photos]]
     ELSE UNCHANGED feed
  /\ Done(p)
  /\ UNCHANGED <<setting, photo, follow, job, inbox, failures, like, talk>>

\* The new photos replace the others by deleting their rows, not their links: the update
\* fails when it keeps one, or when others refer to the row of one (kept).
UpdateFeed(p, kept) ==
  LET r == req[p]
      n == r.id
      gone == IF "photos" \in r.parts THEN feed[n].photos ELSE {}
      ask == "permissions" \in r.parts IN
  /\ At(p, "updateFeed")
  /\ IF (\A f \in gone : f \notin kept) /\ (\A f \in r.photos : HasPhoto(f) /\ f \notin gone)
     THEN /\ photo' = [f \in PhotoId |-> IF f \in gone THEN NoPhoto ELSE photo[f]]
          /\ feed' = [m \in FeedId |->
               IF m # n THEN [feed[m] EXCEPT !.photos = @ \ gone]
               ELSE [feed[n] EXCEPT !.visibility = IF "visibility" \in r.parts THEN r.type ELSE @,
                                    !.allow = IF ask THEN r.allow ELSE @,
                                    !.deny = IF ask THEN r.deny ELSE @,
                                    !.photos = (@ \ gone) \cup r.photos]]
     ELSE UNCHANGED <<photo, feed>>
  /\ Done(p)
  /\ UNCHANGED <<setting, follow, job, inbox, failures, like, talk>>

-----------------------------------------------------------------------------
(* Likes and comments *)

\* Every handler asks validatePermission first.  The route that deletes a comment does not
\* name its newsfeed: any newsfeed the user may see will do.
AskTalk(p, u) ==
  /\ \E n \in FeedId :
       /\ Allowed(u, n)
       /\ \/ /\ Ready(p, "like")
             /\ \E pc \in {"like", "unlike"} :
                  Begin(p, [Idle EXCEPT !.pc = pc, !.user = u, !.id = n])
          \/ /\ Ready(p, "talk")
             /\ \E c \in CommentId \cup {0}, pc \in {"talk", "untalk"} :
                  Begin(p, [Idle EXCEPT !.pc = pc, !.user = u, !.id = n, !.parent = c])
  /\ UNCHANGED <<setting, photo, follow, job, inbox, failures, feedVars>>

Like(p) ==
  /\ At(p, "like") /\ like' = like \cup {<<req[p].id, req[p].user>>}
  /\ Done(p)
  /\ UNCHANGED <<setting, photo, follow, job, inbox, failures, feed, talk>>

Unlike(p) ==
  /\ At(p, "unlike") /\ like' = like \ {<<req[p].id, req[p].user>>}
  /\ Done(p)
  /\ UNCHANGED <<setting, photo, follow, job, inbox, failures, feed, talk>>

\* create and reply; a reply may answer a comment of another newsfeed.
Talk(p) ==
  LET r == req[p] IN
  /\ At(p, "talk")
  /\ IF r.parent # 0 /\ ~HasTalk(r.parent) THEN UNCHANGED talk
     ELSE \E c \in CommentId :
            /\ Fresh(c, UsedTalk) /\ c <= setting.rows
            /\ talk' = [talk EXCEPT ![c] =
                 [NoTalk EXCEPT !.user = r.user, !.feed = r.id, !.parent = r.parent]]
  /\ Done(p)
  /\ UNCHANGED <<setting, photo, follow, job, inbox, failures, feed, like>>

\* A comment of the user is deleted; its replies lose their parent.
Untalk(p) ==
  LET c == req[p].parent IN
  /\ At(p, "untalk")
  /\ IF c # 0 /\ HasTalk(c) /\ talk[c].user = req[p].user
     THEN talk' = [d \in CommentId |->
            IF d = c THEN [NoTalk EXCEPT !.gone = TRUE]
            ELSE [talk[d] EXCEPT !.parent = IF @ = c THEN 0 ELSE @]]
     ELSE UNCHANGED talk
  /\ Done(p)
  /\ UNCHANGED <<setting, photo, follow, job, inbox, failures, feed, like>>

-----------------------------------------------------------------------------
FeedWork(p, kept) ==
  CreateFeed(p) \/ UpdateFeed(p, kept) \/ Like(p) \/ Unlike(p) \/ Talk(p) \/ Untalk(p)
FeedStep(p, kept) == (\E u \in Users : AskFeed(p, u) \/ AskTalk(p, u)) \/ FeedWork(p, kept)
=============================================================================
