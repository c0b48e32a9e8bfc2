---------------------------- MODULE MCCommunity ----------------------------
(***************************************************************************)
(* Community with few users and rows; each setting looks at a few parts.   *)
(***************************************************************************)
EXTENDS Community

CONSTANTS p1, p2

Set(procs, kinds, n, rows, attempts) ==
  [procs |-> procs, kinds |-> kinds, failures |-> n, rows |-> rows,
   attempts |-> attempts]

MCSettings ==
  { \* newsfeeds are written by the owner of the photos, which others bookmark or vote for
    Set({p1}, {"feed", "mark"}, 0, 1, 1),
    Set({p1, p2}, {"like", "follow"}, 0, 0, 1),
    Set({p1}, {"talk"}, 0, 3, 1),
    Set({p1, p2}, {"vote"}, 0, 0, 1),
    \* comments and replies are written and deleted at once
    Set({p1, p2}, {"comment"}, 0, 2, 1),
    Set({p1}, {"comment"}, 0, 3, 1),
    \* what reports refer to is deleted
    Set({p1}, {"report", "photo"}, 0, 0, 1),
    Set({p1}, {"comment", "report"}, 0, 1, 1),
    \* conversations
    Set({p1, p2}, {"chat"}, 0, 0, 2),
    Set({p1}, {"chat"}, 0, 0, 2),
    Set({p1}, {"chat"}, 1, 0, 1) }

MCUsers == {1, 2}
=============================================================================
