--------------------------- MODULE UpgradeOrders ---------------------------
(***************************************************************************)
(* Upgrading to photographer: orders paid from the wallet or by bank, the  *)
(* webhook that activates them, the cron that expires them, and what they  *)
(* switch outside the orders table: the quota, the photographer role on    *)
(* the identity server, and the visibility of photos and packages.         *)
(*                                                                         *)
(* Transactions run at READ COMMITTED.  An UPDATE ... WHERE fixes the rows *)
(* it sees when it starts, waits while another transaction holds one, then *)
(* checks them again; rows written stay held until commit, and the writes  *)
(* become visible there.  Calls to the identity server and to the queue    *)
(* made inside a transaction take effect at once.                          *)
(***************************************************************************)
EXTENDS Naturals, FiniteSets

CONSTANTS
  Users, None,
  Packages,     \* the ENABLED upgrade packages
  Level,        \* package -> maxPhotoQuota
  Decisions,    \* statuses that managers and the clean-up cron give a transaction
  Procs,        \* requests and webhook deliveries in flight at once
  MaxOrders,    \* bound: rows of the orders table
  MaxTransfers, \* bound: bank transfers made
  MaxFailures   \* bound: requests that fail, and restarts of the server

OrderId == 1..MaxOrders
TransactionStatus == {"SUCCESS", "FAILED", "PENDING", "CANCEL", "EXPIRED"}

ASSUME UpgradeAssumption ==
  /\ MaxOrders \in Nat /\ MaxTransfers \in Nat /\ MaxFailures \in Nat
  /\ Level \in [Packages -> Nat]
  /\ Decisions \subseteq TransactionStatus
  /\ None \notin Users \cup Packages

VARIABLES
  order,         \* the UpgradeOrder table with each order's transaction
  transfers,     \* bank transfers that name an order; exact or of another amount
  quota,         \* User.maxPhotoQuota
  photographer,  \* who has the photographer role on the identity server
  withdrawn,     \* user -> what the cron has taken off the site: photos, packages
  jobs,          \* users with a RESTORE_PHOTO_VISIBILITY job in the queue
  req,           \* requests and deliveries in flight
  cron,          \* the run of the expiry cron
  drops,         \* role deletions the cron has started and does not wait for
  failures

rowVars == <<order, quota>>
siteVars == <<photographer, withdrawn, jobs>>
vars == <<order, transfers, quota, photographer, withdrawn, jobs, req, cron, drops, failures>>

OrderStatus == {"PENDING", "ACTIVE", "EXPIRE", "CANCEL"}

\* tx is the status of the order's transaction; due says expiredAt has passed.
Order == [user : Users \cup {None}, package : Packages \cup {None},
          method : {"SEPAY", "WALLET"}, status : OrderStatus \cup {"UNUSED"},
          tx : TransactionStatus, due : BOOLEAN]

FreeOrder == [user |-> None, package |-> None, method |-> "SEPAY",
              status |-> "UNUSED", tx |-> "PENDING", due |-> FALSE]

Request == [pc : {"idle", "findPending", "checkWallet", "createByBanking", "cancelPending",
                  "deactivate", "beginSettle", "settle",
                  "deleteRoles", "addRole", "restore", "commit"},
            user : Users \cup {None}, package : Packages \cup {None},
            id : OrderId \cup {0}, seen : SUBSET OrderId, active : SUBSET OrderId]

Idle == [pc |-> "idle", user |-> None, package |-> None, id |-> 0, seen |-> {}, active |-> {}]

CronIdle == [pc |-> "idle", due |-> {}, list |-> {}]

TypeOK ==
  /\ order \in [OrderId -> Order]
  /\ transfers \subseteq [id : OrderId, exact : BOOLEAN]
  /\ quota \in [Users -> Nat]
  /\ photographer \subseteq Users /\ jobs \subseteq Users /\ drops \subseteq Users
  /\ withdrawn \in [Users -> SUBSET {"photos", "packages"}]
  /\ req \in [Procs -> Request]
  /\ cron \in [pc : {"idle", "hide", "disable", "deactivate"},
               due : SUBSET OrderId, list : SUBSET OrderId]
  /\ failures \in 0..MaxFailures

Init ==
  /\ order = [o \in OrderId |-> FreeOrder]
  /\ transfers = {}
  /\ quota = [u \in Users |-> 0]
  /\ photographer = {} /\ jobs = {} /\ drops = {}
  /\ withdrawn = [u \in Users |-> {}]
  /\ req = [p \in Procs |-> Idle]
  /\ cron = CronIdle
  /\ failures = 0

-----------------------------------------------------------------------------
(* Rows, locks and steps *)

Used(o) == order[o].status # "UNUSED"
Fresh(o) == ~Used(o) /\ \A i \in 1..(o - 1) : Used(i)

OrdersOf(u, st) == {o \in OrderId : order[o].user = u /\ order[o].status = st}

At(p, pc) == req[p].pc = pc
Begin(p, r) == At(p, "idle") /\ req' = [req EXCEPT ![p] = r]
Goto(p, pc) == req' = [req EXCEPT ![p].pc = pc]
Done(p) == req' = [req EXCEPT ![p] = Idle]

\* A wallet upgrade keeps its transaction open through its calls to others.
InTransaction(p) ==
  req[p].id = 0 /\ req[p].pc \in {"deleteRoles", "addRole", "restore", "commit"}

\* The order rows p holds, and whether it holds the user's row.
Holds(p) ==
  CASE At(p, "deactivate") -> req[p].seen
    [] InTransaction(p)    -> req[p].seen \cup req[p].active
    [] OTHER               -> {}

RowsFree(p, rows) == \A q \in Procs \ {p} : Holds(q) \cap rows = {}
UserFree(p, u) == \A q \in Procs \ {p} : InTransaction(q) => req[q].user # u

-----------------------------------------------------------------------------
(* Requesting an upgrade: UpgradeOrderService.requestUpgradePayment *)

\* calculateTransferFee: no downgrade, and not the package one already has.
MayReplace(o, k) ==
  /\ Level[order[o].package] <= Level[k]
  /\ order[o].package # k

\* The bound: every request in flight has a row to create.
RowsLeft ==
  Cardinality({o \in OrderId : ~Used(o)})
    > Cardinality({q \in Procs : ~At(q, "idle") /\ req[q].id = 0})

\* findFirst returns one ACTIVE order of the user, if there is any.
RequestUpgrade(p, u, k) ==
  /\ RowsLeft
  /\ \/ OrdersOf(u, "ACTIVE") = {}
     \/ \E o \in OrdersOf(u, "ACTIVE") : MayReplace(o, k)
  /\ Begin(p, [Idle EXCEPT !.pc = "findPending", !.user = u, !.package = k])
  /\ UNCHANGED <<rowVars, transfers, siteVars, cron, drops, failures>>

\* The PENDING orders are remembered, to be cancelled by id.
FindPending(p) ==
  /\ At(p, "findPending")
  /\ \E next \in {"checkWallet", "createByBanking"} :
       req' = [req EXCEPT ![p] =
                 [@ EXCEPT !.pc = next, !.seen = OrdersOf(req[p].user, "PENDING")]]
  /\ UNCHANGED <<rowVars, transfers, siteVars, cron, drops, failures>>

\* The wallet may be too small.
CheckWallet(p) ==
  /\ At(p, "checkWallet")
  /\ Goto(p, "cancelPending") \/ Done(p)
  /\ UNCHANGED <<rowVars, transfers, siteVars, cron, drops, failures>>

\* cancelOrderAndTransaction, without looking at the status again.
CancelSeen(p) ==
  [o \in OrderId |-> IF o \in req[p].seen
                     THEN [order[o] EXCEPT !.status = "CANCEL", !.tx = "CANCEL"]
                     ELSE order[o]]

NewOrder(p, method, st, tx) ==
  [user |-> req[p].user, package |-> req[p].package, method |-> method,
   status |-> st, tx |-> tx, due |-> FALSE]

CreateByBanking(p) ==
  /\ At(p, "createByBanking")
  /\ RowsFree(p, req[p].seen)
  /\ \E o \in OrderId :
       /\ Fresh(o)
       /\ order' = [CancelSeen(p) EXCEPT ![o] = NewOrder(p, "SEPAY", "PENDING", "PENDING")]
  /\ Done(p)
  /\ UNCHANGED <<transfers, quota, siteVars, cron, drops, failures>>

\* The wallet transaction cancels the PENDING orders; the next UPDATE sees the
\* user's ACTIVE orders ...
CancelPending(p) ==
  /\ At(p, "cancelPending")
  /\ RowsFree(p, req[p].seen)
  /\ req' = [req EXCEPT ![p] =
               [@ EXCEPT !.pc = "deactivate",
                         !.active = OrdersOf(req[p].user, "ACTIVE") \ req[p].seen]]
  /\ UNCHANGED <<rowVars, transfers, siteVars, cron, drops, failures>>

\* ... and waits for them; creating the order waits for nobody, the user's
\* quota for any other transaction of the user.
Deactivate(p) ==
  /\ At(p, "deactivate")
  /\ RowsFree(p, req[p].active) /\ UserFree(p, req[p].user)
  /\ Goto(p, "deleteRoles")
  /\ UNCHANGED <<rowVars, transfers, siteVars, cron, drops, failures>>

\* Mutant: the name of the transaction status is used for the order.
WithExpiredNameMutant(rows, active) ==
  [o \in OrderId |-> IF o \in active /\ rows[o].status = "ACTIVE"
                     THEN [rows[o] EXCEPT !.status = "EXPIRED"] ELSE rows[o]]

\* Mutant: the ACTIVE orders keep their status.
WithExpiredMutant(rows, active) == rows

\* Rows fixed earlier, checked again.
WithExpired(rows, active) ==
  [o \in OrderId |-> IF o \in active /\ rows[o].status = "ACTIVE"
                     THEN [rows[o] EXCEPT !.status = "EXPIRE"] ELSE rows[o]]

\* Mutant: the quota stays.
NewQuotaMutant(p) == quota

NewQuota(p) == [quota EXCEPT ![req[p].user] = Level[req[p].package]]

Commit(p) ==
  /\ At(p, "commit")
  /\ \E o \in OrderId :
       /\ Fresh(o)
       /\ order' = [WithExpired(CancelSeen(p), req[p].active) EXCEPT
                      ![o] = NewOrder(p, "WALLET", "ACTIVE", "SUCCESS")]
  /\ quota' = NewQuota(p)
  /\ Done(p)
  /\ UNCHANGED <<transfers, siteVars, cron, drops, failures>>

-----------------------------------------------------------------------------
(* Calls to the identity server and the queue: a wallet upgrade makes them  *)
(* before its commit, a webhook after its own.                              *)

DeleteRoles(p) ==
  /\ At(p, "deleteRoles")
  /\ photographer' = photographer \ {req[p].user}
  /\ Goto(p, "addRole")
  /\ UNCHANGED <<rowVars, transfers, withdrawn, jobs, cron, drops, failures>>

AddRole(p) ==
  /\ At(p, "addRole")
  /\ photographer' = photographer \cup {req[p].user}
  /\ Goto(p, "restore")
  /\ UNCHANGED <<rowVars, transfers, withdrawn, jobs, cron, drops, failures>>

Restore(p) ==
  /\ At(p, "restore")
  /\ jobs' = jobs \cup {req[p].user}
  /\ IF req[p].id = 0 THEN Goto(p, "commit") ELSE Done(p)
  /\ UNCHANGED <<rowVars, transfers, photographer, withdrawn, cron, drops, failures>>

\* UpgradeServiceConsumer.restorePhotoVisibility: photos only.
RestorePhotoVisibility(u) ==
  /\ u \in jobs
  /\ jobs' = jobs \ {u}
  /\ withdrawn' = [withdrawn EXCEPT ![u] = @ \ {"photos"}]
  /\ UNCHANGED <<rowVars, transfers, photographer, req, cron, drops, failures>>

-----------------------------------------------------------------------------
(* The bank, its webhook, and others who decide a pending transaction *)

Transfer(o, exact) ==
  /\ Used(o)
  /\ Cardinality(transfers) < MaxTransfers
  /\ transfers' = transfers \cup {[id |-> o, exact |-> exact]}
  /\ UNCHANGED <<rowVars, siteVars, req, cron, drops, failures>>

\* Mutant: the amount is not compared.
WebhookReadMutant(p, t) ==
  /\ Used(t.id) /\ order[t.id].tx = "PENDING"
  /\ Begin(p, [Idle EXCEPT !.pc = "beginSettle", !.id = t.id,
                           !.user = order[t.id].user, !.package = order[t.id].package])
  /\ UNCHANGED <<rowVars, transfers, siteVars, cron, drops, failures>>

\* processTransaction reads the transaction: PENDING, and the exact amount.
WebhookRead(p, t) ==
  /\ t.exact
  /\ Used(t.id) /\ order[t.id].tx = "PENDING"
  /\ Begin(p, [Idle EXCEPT !.pc = "beginSettle", !.id = t.id,
                           !.user = order[t.id].user, !.package = order[t.id].package])
  /\ UNCHANGED <<rowVars, transfers, siteVars, cron, drops, failures>>

\* handleUpgradeToPhotographer: one batch that cancels the ACTIVE orders it sees ...
WebhookBegin(p) ==
  /\ At(p, "beginSettle")
  /\ req' = [req EXCEPT ![p] =
               [@ EXCEPT !.pc = "settle", !.active = OrdersOf(req[p].user, "ACTIVE")]]
  /\ UNCHANGED <<rowVars, transfers, siteVars, cron, drops, failures>>

\* ... and activates this one, whatever its status is now.
WebhookSettle(p) ==
  LET o == req[p].id IN
  /\ At(p, "settle")
  /\ RowsFree(p, req[p].active \cup {o}) /\ UserFree(p, req[p].user)
  /\ order' = [i \in OrderId |->
                 IF i = o THEN [order[o] EXCEPT !.status = "ACTIVE", !.tx = "SUCCESS"]
                 ELSE IF i \in req[p].active /\ order[i].status = "ACTIVE"
                 THEN [order[i] EXCEPT !.status = "CANCEL"] ELSE order[i]]
  /\ quota' = NewQuota(p)
  /\ Goto(p, "deleteRoles")
  /\ UNCHANGED <<transfers, siteVars, cron, drops, failures>>

\* Managers and the payment clean-up cron decide the transaction alone; the
\* order is left as it is.  Their own races are the business of Payments.
DecideTransaction(o, st) ==
  /\ Used(o) /\ order[o].tx = "PENDING"
  /\ \A q \in Procs : o \notin Holds(q)
  /\ order' = [order EXCEPT ![o].tx = st]
  /\ UNCHANGED <<transfers, quota, siteVars, req, cron, drops, failures>>

-----------------------------------------------------------------------------
(* The expiry cron: deactivateAndNotifyExpiredOrder *)

\* expiredAt passes.  An order lasts at least a month: nothing its user began
\* earlier is still in flight by then, and a PENDING order's transaction has
\* long been expired by the payment clean-up.
FallDue(o) ==
  /\ order[o].status = "ACTIVE" /\ ~order[o].due
  /\ \A p \in Procs : req[p].user # order[o].user
  /\ order[o].user \notin jobs \cup drops
  /\ order' = [order EXCEPT ![o].due = TRUE]
  /\ UNCHANGED <<transfers, quota, siteVars, req, cron, drops, failures>>

Expirable(o) == order[o].due /\ order[o].status = "ACTIVE"

\* currentDate fixes which rows are due; the list is read once.
CronRead ==
  /\ cron.pc = "idle"
  /\ \E o \in OrderId : Expirable(o)
  /\ cron' = [pc |-> "hide", due |-> {o \in OrderId : order[o].due},
              list |-> {o \in OrderId : Expirable(o)}]
  /\ UNCHANGED <<rowVars, transfers, siteVars, req, drops, failures>>

\* Mutant: filters orders that are expired already.
ExpiringUsersMutant == {order[o].user : o \in {i \in cron.due : order[i].status = "EXPIRE"}}

\* Users with some order that is ACTIVE now and was due when the run began.
ExpiringUsers == {order[o].user : o \in {i \in cron.due : order[i].status = "ACTIVE"}}

Withdraw(what) ==
  withdrawn' = [u \in Users |-> IF u \in ExpiringUsers THEN withdrawn[u] \cup {what}
                                ELSE withdrawn[u]]

CronHide ==
  /\ cron.pc = "hide"
  /\ Withdraw("photos")
  /\ cron' = [cron EXCEPT !.pc = "disable"]
  /\ UNCHANGED <<rowVars, transfers, photographer, jobs, req, drops, failures>>

CronDisable ==
  /\ cron.pc = "disable"
  /\ Withdraw("packages")
  /\ cron' = [cron EXCEPT !.pc = "deactivate"]
  /\ UNCHANGED <<rowVars, transfers, photographer, jobs, req, drops, failures>>

\* Mutant: the roles of nobody are deleted.
ListedUsersMutant == {}

ListedUsers == {order[o].user : o \in cron.list}

\* The UPDATE waits for rows others hold; then a role deletion is started for
\* every order on the list, and the run ends without waiting for them.
CronDeactivate ==
  /\ cron.pc = "deactivate"
  /\ \A q \in Procs : Holds(q) \cap {o \in cron.due : order[o].status = "ACTIVE"} = {}
  /\ order' = WithExpired(order, cron.due)
  /\ drops' = drops \cup ListedUsers
  /\ cron' = CronIdle
  /\ UNCHANGED <<transfers, quota, siteVars, req, failures>>

DropRole(u) ==
  /\ u \in drops
  /\ drops' = drops \ {u}
  /\ photographer' = photographer \ {u}
  /\ UNCHANGED <<rowVars, transfers, withdrawn, jobs, req, cron, failures>>

-----------------------------------------------------------------------------
(* Failures *)

Failing == failures < MaxFailures /\ failures' = failures + 1

\* An error or a transaction timeout ends a request: its writes are rolled back,
\* its calls to the identity server and the queue are not.
FailRequest(p) ==
  /\ Failing
  /\ ~At(p, "idle")
  /\ Done(p)
  /\ UNCHANGED <<rowVars, transfers, siteVars, cron, drops>>

\* The server restarts: the queue is in Redis, everything in flight is lost.
Restart ==
  /\ Failing
  /\ req' = [p \in Procs |-> Idle]
  /\ cron' = CronIdle
  /\ drops' = {}
  /\ UNCHANGED <<rowVars, transfers, siteVars>>

-----------------------------------------------------------------------------
Step(p) ==
  \/ FindPending(p) \/ CheckWallet(p) \/ CreateByBanking(p)
  \/ CancelPending(p) \/ Deactivate(p) \/ Commit(p)
  \/ WebhookBegin(p) \/ WebhookSettle(p)
  \/ DeleteRoles(p) \/ AddRole(p) \/ Restore(p)

Arrive(p) ==
  \/ \E u \in Users, k \in Packages : RequestUpgrade(p, u, k)
  \/ \E t \in transfers : WebhookRead(p, t)

CronStep == CronRead \/ CronHide \/ CronDisable \/ CronDeactivate

Next ==
  \/ \E p \in Procs : Arrive(p) \/ Step(p) \/ FailRequest(p)
  \/ \E u \in Users : RestorePhotoVisibility(u) \/ DropRole(u)
  \/ \E o \in OrderId :
       \/ FallDue(o)
       \/ \E exact \in BOOLEAN : Transfer(o, exact)
       \/ \E st \in Decisions : DecideTransaction(o, st)
  \/ CronStep
  \/ Restart

\* What has begun goes on: the scheduler starts the cron every minute, and
\* awaited calls and queued jobs return.  Users, bank and managers may stop.
Fairness ==
  /\ WF_vars(CronStep)
  /\ \A p \in Procs : WF_vars(Step(p))
  /\ \A u \in Users : WF_vars(RestorePhotoVisibility(u)) /\ WF_vars(DropRole(u))

Spec == Init /\ [][Next]_vars /\ Fairness

-----------------------------------------------------------------------------
(* Properties *)

\* An order that is or was in force has been paid: from the wallet, or by a bank
\* transfer of exactly its amount; and its transaction says so.  The webhook
\* writes by id over whatever the cron, a manager or a newer request did after
\* it read, and a request cancels by id over whatever the webhook did.
ActiveIsPaid ==
  \A o \in OrderId : order[o].status \in {"ACTIVE", "EXPIRE"} =>
    /\ order[o].tx = "SUCCESS"
    /\ order[o].method = "SEPAY" => [id |-> o, exact |-> TRUE] \in transfers

\* "we only allow one package at a time" (deactivateCurentUpgradePackageByUserId).
OneActiveOrder == \A u \in Users : Cardinality(OrdersOf(u, "ACTIVE")) <= 1

\* A subscriber has the quota of the order in force, however wallet upgrades,
\* bank settlements and expiry follow each other.
QuotaOfActive ==
  \A u \in Users : \A o \in OrdersOf(u, "ACTIVE") : quota[u] = Level[order[o].package]

\* When the cron expires an order, its owner's photos and packages are off the
\* site: the statements before it choose them by the orders still ACTIVE, and
\* an upgrade or a restore job may run between any two of them.  (The restore
\* job of an upgrade that was rolled back does undo it.)
ExpiredIsWithdrawn ==
  [][CronDeactivate /\ failures = 0 =>
       \A o \in OrderId :
         order[o].status = "ACTIVE" /\ order'[o].status = "EXPIRE"
           => withdrawn[order[o].user] = {"photos", "packages"}]_vars

\* A subscription that has run out ends, even if requests and the server fail
\* on the way: the next run of the cron takes up what a dead one left.
DueOrderExpires ==
  \A o \in OrderId : Expirable(o) ~> ~Expirable(o)

\* Without failures, who has no order in force does not keep the photographer
\* role, although the deletions run behind the cron's back.
ExpiredLosesRole ==
  [](failures = 0) => \A u \in Users :
    u \in photographer /\ OrdersOf(u, "ACTIVE") = {}
      ~> u \notin photographer \/ OrdersOf(u, "ACTIVE") # {}
=============================================================================
