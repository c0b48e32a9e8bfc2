---------------------------- MODULE MCCatalogue ----------------------------
(***************************************************************************)
(* Small instances of Catalogue; each setting looks at a few parts.        *)
(***************************************************************************)
EXTENDS Catalogue

CONSTANTS u1, u2, p1

Set(kinds, photos, days, during) == [kinds |-> kinds, photos |-> photos, days |-> days, during |-> during]

MCSettings ==
  { \* photos are hidden, sold, banned and deleted while they are listed
    Set({"list", "upload", "hide", "judge", "delete", "sell", "retype"}, 1, 0, TRUE),
    Set({"list", "upload", "hide", "delete"}, 2, 0, TRUE),
    \* cameras are renamed and deleted; statistics over two days
    Set({"upload", "delete", "camera", "fail"}, 2, 0, TRUE),
    Set({"upload", "cron"}, 2, 1, TRUE),
    \* a report, while photos change and when they do not
    Set({"report", "upload", "book", "sell"}, 2, 1, TRUE),
    Set({"report", "upload", "book", "sell", "delete"}, 2, 1, FALSE),
    \* a report of money, and of what is only counted
    Set({"report", "money"}, 0, 0, FALSE),
    Set({"report", "rows", "upload", "camera"}, 1, 0, FALSE),
    \* packages, and what they cost while an order runs
    Set({"plan"}, 0, 0, FALSE),
    Set({"order"}, 0, 0, FALSE),
    \* packages are offered and booked
    Set({"shelf"}, 0, 0, FALSE) }

\* The ends of January and February of a leap year and of the next.
MCStarts == {[month |-> 0, day |-> 30], [month |-> 1, day |-> 28], [month |-> 12, day |-> 29]}
=============================================================================
