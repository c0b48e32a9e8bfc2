----------------------------- MODULE Catalogue -----------------------------
(***************************************************************************)
(* What is read about photos, cameras, packages and money: listings, the   *)
(* camera statistics, prices and the managers' dashboard, over tables that *)
(* change while they are read.                                             *)
(***************************************************************************)
EXTENDS Cameras, Listings, Plans, Shelf, Dashboard

vars == <<libraryVars, cameraVars, listing, plansVars, shelfVars, dashboardVars>>

Init == LibraryInit /\ CamerasInit /\ ListingsInit /\ PlansInit /\ ShelfInit /\ DashboardInit

\* Whether something may change now: see setting.
Changeable ==
  \/ report = NoReport /\ listing.pc = "idle"
  \/ setting.during /\ (Reporting \/ listing.pc # "idle")

Next ==
  \/ Changeable /\ (Tick \/ PhotoStep) /\ UNCHANGED <<cameraVars, listing, plansVars, shelfVars, dashboardVars>>
  \/ Changeable /\ CamerasStep /\ UNCHANGED <<listing, plansVars, shelfVars, dashboardVars>>
  \/ Changeable /\ MoneyStep /\ UNCHANGED <<cameraVars, listing, plansVars, shelfVars>>
  \/ PlansStep /\ UNCHANGED <<cameraVars, listing, shelfVars, dashboardVars>>
  \/ ShelfStep /\ UNCHANGED <<cameraVars, listing, plansVars, dashboardVars>>
  \/ ListingStep /\ UNCHANGED <<cameraVars, plansVars, shelfVars, dashboardVars>>
  \/ ReportStep({camera[c] : c \in CameraId}) /\ UNCHANGED <<cameraVars, listing, plansVars, shelfVars>>

Spec == Init /\ [][Next]_vars

-----------------------------------------------------------------------------
(* Properties *)

\* The tables, requests and reports keep their shape.
TypeOK == LibraryTypeOK /\ CamerasTypeOK /\ ListingsTypeOK /\ PlansTypeOK /\ ShelfTypeOK /\ DashboardTypeOK

\* A data point of the camera statistics never goes stale: whenever it was generated, for its
\* day or backfilled, it is the most users the camera won on one day before its moment, as the
\* table of users tells it for ever after.
PointsAreLasting ==
  TypeOK /\ \A q \in point :
    LET before == {u \in Users : joined[q.camera][u] \in 1..(q.timestamp - 1)}
        won(u) == {v \in before : Day(joined[q.camera][v]) = Day(joined[q.camera][u])}
    IN (\E u \in before : Cardinality(won(u)) = q.count) /\ (\A u \in before : Cardinality(won(u)) <= q.count)

\* A report counts each photo as sold, raw or of a booking, and no photo twice, although these are
\* queries of their own between which photos are uploaded and put on sale; and once when nothing
\* happens in between.  Photos whose type is changed are left out, and deletions in between.
PartsOfTotal ==
  Reported("data") /\ ~May("retype") =>
    LET parts == report.value["selling"] + report.value["raw"] + report.value["booking"]
    IN /\ ~(May("delete") /\ setting.during) => parts <= report.value["photo"]
       /\ ~setting.during => parts = report.value["photo"]

\* The books balance: over all time, what came in by bank, with what was taken off upgrades, is in
\* the wallets, was paid out, or is revenue; and the photographers' sales are the revenue's.
PaidIn == Sum({i \in TxId : tx[i].status = "SUCCESS" /\ tx[i].method = "SEPAY" /\ tx[i].type # "WITHDRAWAL"},
              LAMBDA t : t.amount)
TakenOff == Sum({i \in TxId : tx[i].status = "SUCCESS" /\ tx[i].type = "UPGRADE_TO_PHOTOGRAPHER"}, LAMBDA t : t.fee)
AllTime == ~setting.during /\ report.from = First /\ report.to >= now
BooksBalance ==
  /\ Reported("data") /\ AllTime =>
       report.value["balance"] + report.value["withdrawal"] + report.value["photoRevenue"]
         + report.value["upgradeRevenue"] \in {PaidIn + TakenOff}
  /\ Reported("sellers") /\ AllTime =>
       SumFunctionOnSet([u \in Users |-> report.value[u]], Users) * (Price \div 10) = PhotoRevenue

\* A listing shows a user only photos the user may open, whatever was asked for, also when a photo
\* was deleted, hidden or banned since its id was looked up.
ListedMayOpen ==
  [][listing.pc = "find" /\ listing.by # "manager"
       => \A f \in listing'.page : MayOpen(listing.user, f)]_vars

\* Managers that write one after the other never give two packages that are offered one name.
OneName ==
  Cardinality(Procs) = 1 => \A i, k \in PlanId : Kept(i) /\ Kept(k) /\ plan[i].name = plan[k].name => i = k

\* Waiting never pays: while the days of an order pass, no package gets cheaper, none ever costs
\* more than its own price or is credited more than was paid, and who orders later never gets less
\* time for as many months, however long the months are.
Net(i, n) == Remain(i, n) - Refund(i, n)
WaitingNeverPays ==
  [][today' # today =>
       /\ \A i \in PlanId, n \in Months : MayQuote(i, n) =>
            /\ Net(i, n) <= Net(i, n)'
            /\ Net(i, n)' <= plan[i].price * n
            /\ plan[i].price * n - order.paid <= Net(i, n)
       /\ \A n \in Months : NotAfter(AddCalendarMonths(today, n), AddCalendarMonths(today, n)')]_vars

\* A customer is booked, and a visitor is shown among all, a package only under terms it had while it was on
\* the shelf, although it may be changed, taken off or deleted before the booking is written; and
\* nobody books a package of their own.
BookedAsOffered ==
  /\ \A d \in deal : d.terms \in offered[d.offer] /\ d.customer # offer[d.offer].owner
  /\ shown.to = "visitor" => \A x \in shown.page : x[2] \in offered[x[1]]
=============================================================================
