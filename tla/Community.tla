----------------------------- MODULE Community -----------------------------
(***************************************************************************)
(* The social parts together: newsfeeds, remarks on photos and chats share *)
(* the photos, the requests in flight and the queue of notifications.      *)
(***************************************************************************)
EXTENDS Newsfeeds, Remarks, Chat

vars == <<socialVars, feedVars, remarkVars, chatVars>>

Init == SocialInit /\ FeedInit /\ RemarkInit /\ ChatInit

\* Photos whose rows others refer to.
KeptPhotos == {f \in PhotoId : Remarked(f)}

Step(p) ==
  \/ FeedStep(p, KeptPhotos) /\ UNCHANGED <<remarkVars, chatVars>>
  \/ RemarkStep(p) /\ UNCHANGED <<feedVars, chatVars>>
  \/ ChatStep(p) /\ UNCHANGED <<feedVars, remarkVars>>
  \/ Fail(p) /\ UNCHANGED <<feedVars, remarkVars, chatVars>>

Work(p) ==
  \/ FeedWork(p, KeptPhotos) /\ UNCHANGED <<remarkVars, chatVars>>
  \/ RemarkWork(p) /\ UNCHANGED <<feedVars, chatVars>>
  \/ ChatWork(p) /\ UNCHANGED <<feedVars, remarkVars>>

Shared ==
  \/ \E f \in PhotoId : EditPhoto(f)
  \/ \E u, v \in Users : Follow(u, v)
  \/ \E u \in Users, m \in {0} \cup MessageId : Serve(u, m)

Next ==
  \/ \E p \in Procs : Step(p)
  \/ Shared /\ UNCHANGED <<feedVars, remarkVars, chatVars>>
  \/ \E u \in Users : Unmark(u) /\ UNCHANGED <<feedVars, chatVars>>
  \/ \E i \in ReportId : Manage(i) /\ UNCHANGED <<feedVars, chatVars>>

\* A request that began goes on, and the worker takes every notification up again.
Fairness ==
  /\ \A p \in Procs : WF_vars(Work(p))
  /\ \A u \in Users, m \in {0} \cup MessageId :
       WF_vars(Serve(u, m) /\ UNCHANGED <<feedVars, remarkVars, chatVars>>)

Spec == Init /\ [][Next]_vars /\ Fairness

-----------------------------------------------------------------------------
(* Properties *)

\* The tables and the requests keep their shape.
TypeOK == SocialTypeOK /\ FeedTypeOK /\ RemarkTypeOK /\ ChatTypeOK

\* findAll and validatePermission are written twice: whatever visibilities a user asks for, a
\* newsfeed that is listed to the user is one the user may open, like and comment.
ListedIsAllowed ==
  TypeOK /\ \A u \in Users, n \in FeedId, filter \in SUBSET Visibility : Listed(u, n, filter) => Allowed(u, n)

\* A listing closes a report only when what the report refers to is gone: when it is not
\* interleaved with a change of the report, the managers' own work is never undone by it.
ClosedWasGone ==
  [][\A p \in Procs, i \in ReportId :
       Serial /\ At(p, "closeReport") /\ req[p].on = i /\ ~At(p, "closeReport")'
         => report'[i] = report[i]
            \/ (report[i].type # "USER" /\ ~Found(report[i].type, report[i].ref))]_vars

\* Unless the server stops, everybody a message was sent to finds a notification of it, also
\* when every attempt to push it fails.
Told(m) == Sent(m) => \A u \in Recipients(m) : m \in inbox[u]
Notified == []<>(setting.failures = 0 => \A m \in MessageId : Told(m))
=============================================================================
