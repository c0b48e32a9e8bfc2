------------------------------ MODULE Remarks ------------------------------
(***************************************************************************)
(* What users do with the photos of others: comments with replies, votes,  *)
(* bookmarks, and reports on users, photos, comments and bookings.         *)
(***************************************************************************)
EXTENDS Social

VARIABLES
  remark,  \* the Comment table
  vote,    \* the Vote table: for and against
  mark,    \* the Bookmark table
  report   \* the Report table

remarkVars == <<remark, vote, mark, report>>

ReportType == {"USER", "PHOTO", "COMMENT", "BOOKING", "BOOKING_PHOTOGRAPHER_REPORT_USER"}
ReportStatus == {"OPEN", "CLOSED"}  \* WAITING_FEEDBACK and RESPONSED are treated like OPEN
Reference == {<<"PHOTO", f>> : f \in PhotoId} \cup {<<"COMMENT", c>> : c \in CommentId}
               \cup {<<"USER", 0>>, <<"BOOKING", 0>>}

NoRemark == [user |-> None, photo |-> 0, parent |-> 0, gone |-> FALSE]
NoReport == [user |-> None, type |-> "USER", ref |-> <<"USER", 0>>, status |-> "OPEN", gone |-> FALSE]

RemarkTypeOK ==
  /\ remark \in [CommentId -> [user : Users \cup {None}, photo : {0} \cup PhotoId,
                               parent : {0} \cup CommentId, gone : BOOLEAN]]
  /\ vote \in [Users \X PhotoId -> {"none", "for", "against"}]
  /\ mark \subseteq Users \X PhotoId
  /\ report \in [ReportId -> [user : Users \cup {None}, type : ReportType, ref : Reference,
                              status : ReportStatus, gone : BOOLEAN]]

RemarkInit ==
  /\ remark = [c \in CommentId |-> NoRemark]
  /\ vote = [x \in Users \X PhotoId |-> "none"]
  /\ mark = {}
  /\ report = [i \in ReportId |-> NoReport]

UsedRemark(c) == remark[c] # NoRemark
HasRemark(c) == UsedRemark(c) /\ ~remark[c].gone
UsedReport(i) == report[i] # NoReport
HasReport(i) == UsedReport(i) /\ ~report[i].gone

\* Rows that refer to a photo keep its row in the database.
Remarked(f) ==
  \/ \E c \in CommentId : HasRemark(c) /\ remark[c].photo = f
  \/ \E u \in Users : vote[<<u, f>>] # "none" \/ <<u, f>> \in mark

-----------------------------------------------------------------------------
(* Comments on photos *)

\* validatePhotoByIdAndVisibility
Seen(u, f) == LivePhoto(f) /\ (photo[f].public \/ photo[f].owner = u)

\* A reply answers a comment on the same photo.
Answered(c, f) == HasRemark(c) /\ remark[c].photo = f

AskRemark(p, u) ==
  /\ Ready(p, "comment")
  /\ \E f \in PhotoId :
       /\ Seen(u, f)
       /\ \/ /\ ~UsedRemark(setting.rows)
             /\ Begin(p, [Idle EXCEPT !.pc = "notify", !.user = u, !.id = f,
                                      !.tell = {photo[f].owner}])
          \/ \E c \in CommentId :
               \/ /\ ~UsedRemark(setting.rows)
                  /\ Answered(c, f)
                  /\ Begin(p, [Idle EXCEPT !.pc = "notify", !.user = u, !.id = f, !.parent = c,
                                         !.tell = {photo[f].owner, remark[c].user}])
               \/ /\ HasRemark(c) /\ remark[c].photo = f /\ remark[c].user = u
                  /\ Begin(p, [Idle EXCEPT !.pc = "deleteReplies", !.parent = c])
  /\ UNCHANGED <<setting, photo, follow, job, inbox, failures, remarkVars>>

\* The owner of the photo is told, and the author of the comment answered; both before the
\* comment is there.
NotifyRemark(p) ==
  /\ At(p, "notify")
  /\ QueueFor(req[p].tell, 0)
  /\ req' = [req EXCEPT ![p].pc = "createRemark"]
  /\ UNCHANGED <<setting, photo, follow, inbox, failures, remarkVars>>

\* The database refuses a comment on a photo, or in answer to a comment, that is gone.
CreateRemark(p) ==
  LET r == req[p] IN
  /\ At(p, "createRemark")
  /\ IF HasPhoto(r.id) /\ (r.parent # 0 => HasRemark(r.parent))
     THEN \E c \in CommentId :
            /\ Fresh(c, UsedRemark) /\ c <= setting.rows
            /\ remark' = [remark EXCEPT ![c] =
                 [user |-> r.user, photo |-> r.id, parent |-> r.parent, gone |-> FALSE]]
     ELSE UNCHANGED remark
  /\ Done(p)
  /\ UNCHANGED <<setting, photo, follow, job, inbox, failures, vote, mark, report>>

\* Rows are deleted; what answers one of them answers nothing any more.
Without(gone) == [c \in CommentId |->
  IF c \in gone THEN [NoRemark EXCEPT !.gone = TRUE]
  ELSE [remark[c] EXCEPT !.parent = IF @ \in gone THEN 0 ELSE @]]

DeleteReplies(p) ==
  /\ At(p, "deleteReplies")
  /\ remark' = Without({c \in CommentId : HasRemark(c) /\ remark[c].parent = req[p].parent})
  /\ req' = [req EXCEPT ![p].pc = "deleteRemark"]
  /\ UNCHANGED <<setting, photo, follow, job, inbox, failures, vote, mark, report>>

DeleteRemark(p) ==
  /\ At(p, "deleteRemark")
  /\ remark' = Without({req[p].parent})
  /\ Done(p)
  /\ UNCHANGED <<setting, photo, follow, job, inbox, failures, vote, mark, report>>

-----------------------------------------------------------------------------
(* Votes and bookmarks: one of a user for a photo, written over by the next *)

AskVote(p, u) ==
  /\ \E f \in PhotoId :
       \/ \E v \in {"for", "against", "none"} :
            /\ Ready(p, "vote")
            /\ IF v = "none" THEN vote[<<u, f>>] # "none" ELSE LivePhoto(f)
            /\ Begin(p, [Idle EXCEPT !.pc = "vote", !.user = u, !.id = f, !.type = v])
       \/ /\ Ready(p, "mark")
          /\ LivePhoto(f) /\ photo[f].public /\ Cardinality(mark) < setting.rows
          /\ Begin(p, [Idle EXCEPT !.pc = "mark", !.user = u, !.id = f])
  /\ UNCHANGED <<setting, photo, follow, job, inbox, failures, remarkVars>>

Vote(p) ==
  LET r == req[p] IN
  /\ At(p, "vote")
  /\ vote' = IF HasPhoto(r.id) THEN [vote EXCEPT ![<<r.user, r.id>>] = r.type] ELSE vote
  /\ Done(p)
  /\ UNCHANGED <<setting, photo, follow, job, inbox, failures, remark, mark, report>>

Mark(p) ==
  LET r == req[p] IN
  /\ At(p, "mark")
  /\ mark' = IF HasPhoto(r.id) THEN mark \cup {<<r.user, r.id>>} ELSE mark
  /\ Done(p)
  /\ UNCHANGED <<setting, photo, follow, job, inbox, failures, remark, vote, report>>

\* A bookmark is deleted without a look at the photo.
Unmark(u) ==
  /\ "mark" \in setting.kinds
  /\ \E f \in PhotoId : <<u, f>> \in mark /\ mark' = mark \ {<<u, f>>}
  /\ UNCHANGED <<socialVars, remark, vote, report>>

-----------------------------------------------------------------------------
(* Reports *)

\* validateReferenceId, and what a listing looks for under the type of a report.  Users and
\* bookings are never deleted.
Found(type, ref) ==
  CASE type = "PHOTO"   -> ref[1] = type /\ LivePhoto(ref[2])
    [] type = "COMMENT" -> ref[1] = type /\ HasRemark(ref[2])
    [] type = "USER"    -> ref[1] = type
    [] OTHER            -> ref[1] = "BOOKING"

\* create and replace look for the reference; patch does when it names one, under the type
\* it names or the one the report has.  Without a reference it may set any type.
AskReport(p, u) ==
  /\ Ready(p, "report")
  /\ \E i \in ReportId \cup {0}, type \in ReportType, ref \in Reference :
       /\ i # 0 => HasReport(i) /\ report[i].user = u
       /\ \/ /\ Found(type, ref)
             /\ Begin(p, [Idle EXCEPT !.pc = "writeReport", !.user = u, !.on = i,
                                                !.type = type, !.ref = ref])
          \/ /\ i # 0
             /\ Begin(p, [Idle EXCEPT !.pc = "writeReport", !.on = i, !.type = type])
  /\ UNCHANGED <<setting, photo, follow, job, inbox, failures, remarkVars>>

WriteReport(p) ==
  LET r == req[p] IN
  /\ At(p, "writeReport")
  /\ CASE r.on = 0 -> \E i \in ReportId :
            /\ Fresh(i, UsedReport)
            /\ report' = [report EXCEPT ![i] =
                 [NoReport EXCEPT !.user = r.user, !.type = r.type, !.ref = r.ref]]
       [] r.on # 0 /\ HasReport(r.on) ->
            report' = [report EXCEPT ![r.on].type = r.type,
                                     ![r.on].ref = IF r.ref = Idle.ref THEN @ ELSE r.ref]
       [] OTHER -> UNCHANGED report
  /\ Done(p)
  /\ UNCHANGED <<setting, photo, follow, job, inbox, failures, remark, vote, mark>>

\* A manager sets the status of a report, or deletes it.
Manage(i) ==
  /\ "report" \in setting.kinds /\ HasReport(i)
  /\ \/ \E s \in ReportStatus : report' = [report EXCEPT ![i].status = s]
     \/ report' = [report EXCEPT ![i] = [NoReport EXCEPT !.gone = TRUE]]
  /\ UNCHANGED <<socialVars, remark, vote, mark>>

\* findAll and findAllOfUser read the reports they list,
ListReport(p) ==
  /\ Ready(p, "report")
  /\ \E i \in ReportId, own \in BOOLEAN :
       /\ HasReport(i)
       /\ own => report[i].type # "BOOKING_PHOTOGRAPHER_REPORT_USER"
       /\ Begin(p, [Idle EXCEPT !.pc = "readReference", !.on = i, !.type = report[i].type,
                                          !.ref = report[i].ref])
  /\ UNCHANGED <<setting, photo, follow, job, inbox, failures, remarkVars>>

\* Mutant: a photo is read as its strangers may.
ReadReferenceMutant(p) ==
  LET r == req[p]
      hidden == r.type = "PHOTO" /\ ~photo[r.ref[2]].public IN
  /\ At(p, "readReference")
  /\ IF r.type = "USER" \/ (Found(r.type, r.ref) /\ ~hidden) THEN Done(p) ELSE req' = [req EXCEPT ![p].pc = "closeReport"]
  /\ UNCHANGED <<setting, photo, follow, job, inbox, failures, remarkVars>>

\* and then what each refers to.  A user who is not there is shown as none.
ReadReference(p) ==
  LET r == req[p] IN
  /\ At(p, "readReference")
  /\ IF r.type = "USER" \/ Found(r.type, r.ref) THEN Done(p)
     ELSE req' = [req EXCEPT ![p].pc = "closeReport"]
  /\ UNCHANGED <<setting, photo, follow, job, inbox, failures, remarkVars>>

\* A report that refers to nothing is closed by the listing.
CloseReport(p) ==
  LET i == req[p].on IN
  /\ At(p, "closeReport")
  /\ report' = IF HasReport(i) THEN [report EXCEPT ![i].status = "CLOSED"] ELSE report
  /\ Done(p)
  /\ UNCHANGED <<setting, photo, follow, job, inbox, failures, remark, vote, mark>>

-----------------------------------------------------------------------------
RemarkWork(p) ==
  \/ NotifyRemark(p) \/ CreateRemark(p) \/ DeleteReplies(p) \/ DeleteRemark(p)
  \/ Vote(p) \/ Mark(p)
  \/ WriteReport(p) \/ ReadReference(p) \/ CloseReport(p)
RemarkStep(p) ==
  \/ \E u \in Users : AskRemark(p, u) \/ AskVote(p, u) \/ AskReport(p, u)
  \/ ListReport(p)
  \/ RemarkWork(p)
=============================================================================
