--------------------------- MODULE UpgradeProofs ---------------------------
(***************************************************************************)
(* Type correctness of UpgradeOrders; that no order is in force which      *)
(* nobody paid; as long as no two requests of one user are in flight, that *)
(* a user has one order in force and its quota; and that what the cron     *)
(* expires has been taken off the site: for any number of users, packages, *)
(* orders and requests.                                                    *)
(***************************************************************************)
EXTENDS UpgradeOrders, FiniteSetTheorems, TLAPS

\* A row that belongs to a user and a package.
Filled(o) == order[o].user \in Users /\ order[o].package \in Packages

\* Rows in use are filled, and so is every row that a request or the cron
\* remembers and may write by id; a delivery in flight names a transfer of the
\* exact amount.
RowsOK == \A o \in OrderId : Used(o) => Filled(o)

RequestOK(p) ==
  /\ req[p].pc # "idle" => req[p].user \in Users /\ req[p].package \in Packages
  /\ req[p].id # 0 => Filled(req[p].id) /\ [id |-> req[p].id, exact |-> TRUE] \in transfers
  /\ \A o \in req[p].seen : Filled(o)

RequestsOK == \A p \in Procs : RequestOK(p)

CronOK == \A o \in cron.list : Filled(o)

IInv == TypeOK /\ RowsOK /\ RequestsOK /\ CronOK /\ ActiveIsPaid

\* What a statement may make of row i: it stays filled, and if it is in force it
\* is paid.
GoodRow(i, r) ==
  /\ r \in Order
  /\ Filled(i) \/ r.status # "UNUSED" => r.user \in Users /\ r.package \in Packages
  /\ r.status \in {"ACTIVE", "EXPIRE"} =>
       /\ r.tx = "SUCCESS"
       /\ r.method = "SEPAY" => [id |-> i, exact |-> TRUE] \in transfers

GoodRows(rows) ==
  /\ rows = [i \in OrderId |-> rows[i]]
  /\ \A i \in OrderId : GoodRow(i, rows[i])

LEMMA InitIInv == Init => IInv
  BY UpgradeAssumption DEF Init, IInv, TypeOK, RowsOK, RequestsOK, RequestOK, CronOK,
     ActiveIsPaid, Used, FreeOrder, Order, Idle, CronIdle, Request, OrderStatus,
     TransactionStatus, OrderId

-----------------------------------------------------------------------------
(* Rows *)

LEMMA OldRowGood == ASSUME IInv, NEW i \in OrderId PROVE GoodRow(i, order[i])
  BY DEF IInv, TypeOK, RowsOK, ActiveIsPaid, GoodRow, Used, Filled

LEMMA CancelSeenGood ==
  ASSUME IInv, NEW p \in Procs PROVE GoodRows(CancelSeen(p))
<1> SUFFICES ASSUME NEW i \in OrderId PROVE GoodRow(i, CancelSeen(p)[i])
  BY DEF GoodRows, CancelSeen
<1>1. GoodRow(i, order[i])
  BY OldRowGood
<1>2. CASE i \in req[p].seen
  <2>1. CancelSeen(p)[i] = [order[i] EXCEPT !.status = "CANCEL", !.tx = "CANCEL"]
    BY <1>2 DEF CancelSeen
  <2>2. Filled(i)
    BY <1>2 DEF IInv, RequestsOK, RequestOK
  <2> QED
    BY <1>1, <2>1, <2>2 DEF GoodRow, Order, OrderStatus, TransactionStatus, Filled
<1>3. CASE i \notin req[p].seen
  BY <1>1, <1>3 DEF CancelSeen
<1> QED
  BY <1>2, <1>3

LEMMA WithExpiredGood ==
  ASSUME NEW rows, NEW active, GoodRows(rows) PROVE GoodRows(WithExpired(rows, active))
<1> SUFFICES ASSUME NEW i \in OrderId PROVE GoodRow(i, WithExpired(rows, active)[i])
  BY DEF GoodRows, WithExpired
<1>1. GoodRow(i, rows[i])
  BY DEF GoodRows
<1>2. CASE i \in active /\ rows[i].status = "ACTIVE"
  <2>1. WithExpired(rows, active)[i] = [rows[i] EXCEPT !.status = "EXPIRE"]
    BY <1>2 DEF WithExpired
  <2> QED
    BY <1>1, <1>2, <2>1 DEF GoodRow, Order, OrderStatus
<1>3. CASE ~(i \in active /\ rows[i].status = "ACTIVE")
  BY <1>1, <1>3 DEF WithExpired
<1> QED
  BY <1>2, <1>3

LEMMA PutGood ==
  ASSUME NEW rows, NEW o \in OrderId, NEW r, GoodRows(rows), GoodRow(o, r)
  PROVE  GoodRows([rows EXCEPT ![o] = r])
  BY DEF GoodRows

LEMMA NewOrderGood ==
  ASSUME IInv, NEW p \in Procs, req[p].pc # "idle", NEW o \in OrderId,
         NEW method \in {"SEPAY", "WALLET"}, NEW st \in OrderStatus,
         NEW t \in TransactionStatus,
         st \in {"ACTIVE", "EXPIRE"} => t = "SUCCESS" /\ method = "WALLET"
  PROVE  GoodRow(o, NewOrder(p, method, st, t))
  BY DEF IInv, RequestsOK, RequestOK, GoodRow, NewOrder, Order, OrderStatus, TransactionStatus

\* What a step that leaves good rows keeps.
LEMMA RowsKept ==
  ASSUME IInv, GoodRows(order'), transfers \subseteq transfers'
  PROVE  /\ order' \in [OrderId -> Order]
         /\ RowsOK' /\ ActiveIsPaid'
         /\ \A i \in OrderId : Filled(i) => Filled(i)'
<1>1. order' \in [OrderId -> Order]
  BY DEF GoodRows, GoodRow
<1>2. RowsOK' /\ \A i \in OrderId : Filled(i) => Filled(i)'
  BY DEF GoodRows, GoodRow, RowsOK, Used, Filled
<1>3. ActiveIsPaid'
  BY DEF GoodRows, GoodRow, ActiveIsPaid
<1> QED
  BY <1>1, <1>2, <1>3

LEMMA UnchangedGood == ASSUME IInv, order' = order PROVE GoodRows(order')
  BY OldRowGood DEF GoodRows, IInv, TypeOK

LEMMA RequestKept ==
  ASSUME IInv, NEW p \in Procs, req'[p] = req[p], transfers \subseteq transfers',
         \A i \in OrderId : Filled(i) => Filled(i)'
  PROVE  RequestOK(p)'
  BY DEF IInv, TypeOK, RequestsOK, RequestOK, Request

-----------------------------------------------------------------------------
(* The steps *)

LEMMA StepIInv == IInv /\ [Next]_vars => IInv'
<1> SUFFICES ASSUME IInv, [Next]_vars PROVE IInv'
  OBVIOUS
<1> USE UpgradeAssumption
<1>1. ASSUME NEW p \in Procs, NEW u \in Users, NEW k \in Packages, RequestUpgrade(p, u, k)
      PROVE IInv'
  <2>1. GoodRows(order') /\ transfers \subseteq transfers'
    BY <1>1, UnchangedGood DEF RequestUpgrade, Begin, At, Idle, rowVars, siteVars
  <2>2. order' \in [OrderId -> Order] /\ RowsOK' /\ ActiveIsPaid'
        /\ \A i \in OrderId : Filled(i) => Filled(i)'
    BY <2>1, RowsKept
  <2>3. req' \in [Procs -> Request]
    BY <1>1 DEF RequestUpgrade, Begin, At, Idle, rowVars, siteVars, IInv, TypeOK, Request
  <2>4. TypeOK'
    BY <1>1, <2>2, <2>3 DEF RequestUpgrade, Begin, At, Idle, rowVars, siteVars, IInv,
       TypeOK, RequestsOK, RequestOK, CronOK, Filled
  <2>5. RequestsOK'
    <3>1. RequestOK(p)'
      BY <1>1, <2>2 DEF RequestUpgrade, Begin, At, Idle, rowVars, siteVars, IInv, TypeOK,
         RowsOK, RequestsOK, RequestOK, Request, Used
    <3>2. ASSUME NEW q \in Procs \ {p} PROVE RequestOK(q)'
      <4>1. req'[q] = req[q]
        BY <1>1 DEF RequestUpgrade, Begin, At, Idle, rowVars, siteVars, IInv, TypeOK
      <4> QED
        BY <2>1, <2>2, <4>1, RequestKept
    <3> QED
      BY <3>1, <3>2 DEF RequestsOK
  <2>6. CronOK'
    BY <1>1, <2>2 DEF RequestUpgrade, Begin, At, Idle, rowVars, siteVars, CronOK, IInv,
       TypeOK, RowsOK, Used
  <2> QED
    BY <2>2, <2>4, <2>5, <2>6 DEF IInv
<1>2. ASSUME NEW p \in Procs, FindPending(p) PROVE IInv'
  <2>1. GoodRows(order') /\ transfers \subseteq transfers'
    BY <1>2, UnchangedGood DEF FindPending, At, OrdersOf, rowVars, siteVars
  <2>2. order' \in [OrderId -> Order] /\ RowsOK' /\ ActiveIsPaid'
        /\ \A i \in OrderId : Filled(i) => Filled(i)'
    BY <2>1, RowsKept
  <2>3. req' \in [Procs -> Request]
    <3> DEFINE S == OrdersOf(req[p].user, "PENDING")
    <3>1. S \subseteq OrderId
      BY DEF OrdersOf
    <3> HIDE DEF S
    <3>2. PICK next \in {"checkWallet", "createByBanking"} :
            req' = [req EXCEPT ![p] = [req[p] EXCEPT !.pc = next, !.seen = S]]
      BY <1>2 DEF FindPending, S
    <3>3. [req[p] EXCEPT !.pc = next, !.seen = S] \in Request
      <4>1. req[p] \in Request
        BY DEF IInv, TypeOK
      <4> QED
        BY <3>1, <3>2, <4>1 DEF Request
    <3> QED
      BY <3>2, <3>3 DEF IInv, TypeOK
  <2>4. TypeOK'
    BY <1>2, <2>2, <2>3 DEF FindPending, At, OrdersOf, rowVars, siteVars, IInv, TypeOK,
       RequestsOK, RequestOK, CronOK, Filled
  <2>5. RequestsOK'
    <3>1. RequestOK(p)'
      BY <1>2, <2>2 DEF FindPending, At, OrdersOf, rowVars, siteVars, IInv, TypeOK, RowsOK,
         RequestsOK, RequestOK, Request, Used
    <3>2. ASSUME NEW q \in Procs \ {p} PROVE RequestOK(q)'
      <4>1. req'[q] = req[q]
        BY <1>2 DEF FindPending, At, OrdersOf, rowVars, siteVars, IInv, TypeOK
      <4> QED
        BY <2>1, <2>2, <4>1, RequestKept
    <3> QED
      BY <3>1, <3>2 DEF RequestsOK
  <2>6. CronOK'
    BY <1>2, <2>2 DEF FindPending, At, OrdersOf, rowVars, siteVars, CronOK, IInv, TypeOK,
       RowsOK, Used
  <2> QED
    BY <2>2, <2>4, <2>5, <2>6 DEF IInv
<1>3. ASSUME NEW p \in Procs, CheckWallet(p) PROVE IInv'
  <2>1. GoodRows(order') /\ transfers \subseteq transfers'
    BY <1>3, UnchangedGood DEF CheckWallet, At, Goto, Done, Idle, rowVars, siteVars
  <2>2. order' \in [OrderId -> Order] /\ RowsOK' /\ ActiveIsPaid'
        /\ \A i \in OrderId : Filled(i) => Filled(i)'
    BY <2>1, RowsKept
  <2>3. req' \in [Procs -> Request]
    BY <1>3 DEF CheckWallet, At, Goto, Done, Idle, rowVars, siteVars, IInv, TypeOK, Request
  <2>4. TypeOK'
    BY <1>3, <2>2, <2>3 DEF CheckWallet, At, Goto, Done, Idle, rowVars, siteVars, IInv,
       TypeOK, RequestsOK, RequestOK, CronOK, Filled
  <2>5. RequestsOK'
    <3>1. RequestOK(p)'
      BY <1>3, <2>2 DEF CheckWallet, At, Goto, Done, Idle, rowVars, siteVars, IInv, TypeOK,
         RowsOK, RequestsOK, RequestOK, Request, Used
    <3>2. ASSUME NEW q \in Procs \ {p} PROVE RequestOK(q)'
      <4>1. req'[q] = req[q]
        BY <1>3 DEF CheckWallet, At, Goto, Done, Idle, rowVars, siteVars, IInv, TypeOK
      <4> QED
        BY <2>1, <2>2, <4>1, RequestKept
    <3> QED
      BY <3>1, <3>2 DEF RequestsOK
  <2>6. CronOK'
    BY <1>3, <2>2 DEF CheckWallet, At, Goto, Done, Idle, rowVars, siteVars, CronOK, IInv,
       TypeOK, RowsOK, Used
  <2> QED
    BY <2>2, <2>4, <2>5, <2>6 DEF IInv
<1>4. ASSUME NEW p \in Procs, CreateByBanking(p) PROVE IInv'
  <2>1. GoodRows(order') /\ transfers \subseteq transfers'
    <3> PICK o \in OrderId :
          order' = [CancelSeen(p) EXCEPT ![o] = NewOrder(p, "SEPAY", "PENDING", "PENDING")]
      BY <1>4 DEF CreateByBanking
    <3>1. GoodRow(o, NewOrder(p, "SEPAY", "PENDING", "PENDING"))
      BY <1>4, NewOrderGood DEF CreateByBanking, At, OrderStatus, TransactionStatus
    <3> QED
      BY <1>4, <3>1, CancelSeenGood, PutGood DEF CreateByBanking
  <2>2. order' \in [OrderId -> Order] /\ RowsOK' /\ ActiveIsPaid'
        /\ \A i \in OrderId : Filled(i) => Filled(i)'
    BY <2>1, RowsKept
  <2>3. req' \in [Procs -> Request]
    BY <1>4 DEF CreateByBanking, At, Done, Idle, rowVars, siteVars, IInv, TypeOK, Request
  <2>4. TypeOK'
    BY <1>4, <2>2, <2>3 DEF CreateByBanking, At, Done, Idle, rowVars, siteVars, IInv,
       TypeOK, RequestsOK, RequestOK, CronOK, Filled
  <2>5. RequestsOK'
    <3>1. RequestOK(p)'
      BY <1>4, <2>2 DEF CreateByBanking, At, Done, Idle, rowVars, siteVars, IInv, TypeOK,
         RowsOK, RequestsOK, RequestOK, Request, Used
    <3>2. ASSUME NEW q \in Procs \ {p} PROVE RequestOK(q)'
      <4>1. req'[q] = req[q]
        BY <1>4 DEF CreateByBanking, At, Done, Idle, rowVars, siteVars, IInv, TypeOK
      <4> QED
        BY <2>1, <2>2, <4>1, RequestKept
    <3> QED
      BY <3>1, <3>2 DEF RequestsOK
  <2>6. CronOK'
    BY <1>4, <2>2 DEF CreateByBanking, At, Done, Idle, rowVars, siteVars, CronOK, IInv,
       TypeOK, RowsOK, Used
  <2> QED
    BY <2>2, <2>4, <2>5, <2>6 DEF IInv
<1>5. ASSUME NEW p \in Procs, CancelPending(p) PROVE IInv'
  <2>1. GoodRows(order') /\ transfers \subseteq transfers'
    BY <1>5, UnchangedGood DEF CancelPending, At, OrdersOf, rowVars, siteVars
  <2>2. order' \in [OrderId -> Order] /\ RowsOK' /\ ActiveIsPaid'
        /\ \A i \in OrderId : Filled(i) => Filled(i)'
    BY <2>1, RowsKept
  <2>3. req' \in [Procs -> Request]
    <3> DEFINE S == OrdersOf(req[p].user, "ACTIVE")
    <3>1. S \subseteq OrderId
      BY DEF OrdersOf
    <3> HIDE DEF S
    <3>2. req' = [req EXCEPT ![p] = [req[p] EXCEPT !.pc = "deactivate", !.active = S \ req[p].seen]]
      BY <1>5 DEF CancelPending, S
    <3>3. [req[p] EXCEPT !.pc = "deactivate", !.active = S \ req[p].seen] \in Request
      <4>1. req[p] \in Request
        BY DEF IInv, TypeOK
      <4> QED
        BY <3>1, <4>1 DEF Request
    <3> QED
      BY <3>2, <3>3 DEF IInv, TypeOK
  <2>4. TypeOK'
    BY <1>5, <2>2, <2>3 DEF CancelPending, At, OrdersOf, rowVars, siteVars, IInv, TypeOK,
       RequestsOK, RequestOK, CronOK, Filled
  <2>5. RequestsOK'
    <3>1. RequestOK(p)'
      BY <1>5, <2>2 DEF CancelPending, At, OrdersOf, rowVars, siteVars, IInv, TypeOK,
         RowsOK, RequestsOK, RequestOK, Request, Used
    <3>2. ASSUME NEW q \in Procs \ {p} PROVE RequestOK(q)'
      <4>1. req'[q] = req[q]
        BY <1>5 DEF CancelPending, At, OrdersOf, rowVars, siteVars, IInv, TypeOK
      <4> QED
        BY <2>1, <2>2, <4>1, RequestKept
    <3> QED
      BY <3>1, <3>2 DEF RequestsOK
  <2>6. CronOK'
    BY <1>5, <2>2 DEF CancelPending, At, OrdersOf, rowVars, siteVars, CronOK, IInv, TypeOK,
       RowsOK, Used
  <2> QED
    BY <2>2, <2>4, <2>5, <2>6 DEF IInv
<1>6. ASSUME NEW p \in Procs, Deactivate(p) PROVE IInv'
  <2>1. GoodRows(order') /\ transfers \subseteq transfers'
    BY <1>6, UnchangedGood DEF Deactivate, At, Goto, rowVars, siteVars
  <2>2. order' \in [OrderId -> Order] /\ RowsOK' /\ ActiveIsPaid'
        /\ \A i \in OrderId : Filled(i) => Filled(i)'
    BY <2>1, RowsKept
  <2>3. req' \in [Procs -> Request]
    BY <1>6 DEF Deactivate, At, Goto, rowVars, siteVars, IInv, TypeOK, Request
  <2>4. TypeOK'
    BY <1>6, <2>2, <2>3 DEF Deactivate, At, Goto, rowVars, siteVars, IInv, TypeOK,
       RequestsOK, RequestOK, CronOK, Filled
  <2>5. RequestsOK'
    <3>1. RequestOK(p)'
      BY <1>6, <2>2 DEF Deactivate, At, Goto, rowVars, siteVars, IInv, TypeOK, RowsOK,
         RequestsOK, RequestOK, Request, Used
    <3>2. ASSUME NEW q \in Procs \ {p} PROVE RequestOK(q)'
      <4>1. req'[q] = req[q]
        BY <1>6 DEF Deactivate, At, Goto, rowVars, siteVars, IInv, TypeOK
      <4> QED
        BY <2>1, <2>2, <4>1, RequestKept
    <3> QED
      BY <3>1, <3>2 DEF RequestsOK
  <2>6. CronOK'
    BY <1>6, <2>2 DEF Deactivate, At, Goto, rowVars, siteVars, CronOK, IInv, TypeOK, RowsOK,
       Used
  <2> QED
    BY <2>2, <2>4, <2>5, <2>6 DEF IInv
<1>7. ASSUME NEW p \in Procs, Commit(p) PROVE IInv'
  <2>1. GoodRows(order') /\ transfers \subseteq transfers'
    <3> PICK o \in OrderId :
          order' = [WithExpired(CancelSeen(p), req[p].active) EXCEPT
                      ![o] = NewOrder(p, "WALLET", "ACTIVE", "SUCCESS")]
      BY <1>7 DEF Commit
    <3>1. GoodRow(o, NewOrder(p, "WALLET", "ACTIVE", "SUCCESS"))
      BY <1>7, NewOrderGood DEF Commit, At, OrderStatus, TransactionStatus
    <3>2. GoodRows(WithExpired(CancelSeen(p), req[p].active))
      BY CancelSeenGood, WithExpiredGood
    <3> QED
      BY <1>7, <3>1, <3>2, PutGood DEF Commit
  <2>2. order' \in [OrderId -> Order] /\ RowsOK' /\ ActiveIsPaid'
        /\ \A i \in OrderId : Filled(i) => Filled(i)'
    BY <2>1, RowsKept
  <2>3. req' \in [Procs -> Request]
    BY <1>7 DEF Commit, NewQuota, At, Done, Idle, rowVars, siteVars, IInv, TypeOK, Request
  <2>4. TypeOK'
    BY <1>7, <2>2, <2>3 DEF Commit, NewQuota, At, Done, Idle, rowVars, siteVars, IInv,
       TypeOK, RequestsOK, RequestOK, CronOK, Filled
  <2>5. RequestsOK'
    <3>1. RequestOK(p)'
      BY <1>7, <2>2 DEF Commit, NewQuota, At, Done, Idle, rowVars, siteVars, IInv, TypeOK,
         RowsOK, RequestsOK, RequestOK, Request, Used
    <3>2. ASSUME NEW q \in Procs \ {p} PROVE RequestOK(q)'
      <4>1. req'[q] = req[q]
        BY <1>7 DEF Commit, NewQuota, At, Done, Idle, rowVars, siteVars, IInv, TypeOK
      <4> QED
        BY <2>1, <2>2, <4>1, RequestKept
    <3> QED
      BY <3>1, <3>2 DEF RequestsOK
  <2>6. CronOK'
    BY <1>7, <2>2 DEF Commit, NewQuota, At, Done, Idle, rowVars, siteVars, CronOK, IInv,
       TypeOK, RowsOK, Used
  <2> QED
    BY <2>2, <2>4, <2>5, <2>6 DEF IInv
<1>8. ASSUME NEW p \in Procs, NEW t \in transfers, WebhookRead(p, t) PROVE IInv'
  <2>1. GoodRows(order') /\ transfers \subseteq transfers'
    BY <1>8, UnchangedGood DEF WebhookRead, Begin, At, Idle, rowVars, siteVars
  <2>2. order' \in [OrderId -> Order] /\ RowsOK' /\ ActiveIsPaid'
        /\ \A i \in OrderId : Filled(i) => Filled(i)'
    BY <2>1, RowsKept
  <2>0. /\ t.id \in OrderId /\ t = [id |-> t.id, exact |-> TRUE]
        /\ order[t.id].user \in Users /\ order[t.id].package \in Packages
    BY <1>8 DEF WebhookRead, IInv, TypeOK, RowsOK, Filled
  <2>3. req' \in [Procs -> Request]
    BY <1>8, <2>0 DEF WebhookRead, Begin, At, Idle, rowVars, siteVars, IInv, TypeOK, Request
  <2>4. TypeOK'
    BY <1>8, <2>2, <2>3 DEF WebhookRead, Begin, At, Idle, rowVars, siteVars, IInv, TypeOK,
       RequestsOK, RequestOK, CronOK, Filled
  <2>5. RequestsOK'
    <3>1. RequestOK(p)'
      BY <1>8, <2>2, <2>0 DEF WebhookRead, Begin, At, Idle, rowVars, siteVars, IInv, TypeOK,
         RowsOK, RequestsOK, RequestOK, Request, Used, Filled
    <3>2. ASSUME NEW q \in Procs \ {p} PROVE RequestOK(q)'
      <4>1. req'[q] = req[q]
        BY <1>8 DEF WebhookRead, Begin, At, Idle, rowVars, siteVars, IInv, TypeOK
      <4> QED
        BY <2>1, <2>2, <4>1, RequestKept
    <3> QED
      BY <3>1, <3>2 DEF RequestsOK
  <2>6. CronOK'
    BY <1>8, <2>2 DEF WebhookRead, Begin, At, Idle, rowVars, siteVars, CronOK, IInv, TypeOK,
       RowsOK, Used
  <2> QED
    BY <2>2, <2>4, <2>5, <2>6 DEF IInv
<1>9. ASSUME NEW p \in Procs, WebhookBegin(p) PROVE IInv'
  <2>1. GoodRows(order') /\ transfers \subseteq transfers'
    BY <1>9, UnchangedGood DEF WebhookBegin, At, OrdersOf, rowVars, siteVars
  <2>2. order' \in [OrderId -> Order] /\ RowsOK' /\ ActiveIsPaid'
        /\ \A i \in OrderId : Filled(i) => Filled(i)'
    BY <2>1, RowsKept
  <2>3. req' \in [Procs -> Request]
    <3> DEFINE S == OrdersOf(req[p].user, "ACTIVE")
    <3>1. S \subseteq OrderId
      BY DEF OrdersOf
    <3> HIDE DEF S
    <3>2. req' = [req EXCEPT ![p] = [req[p] EXCEPT !.pc = "settle", !.active = S]]
      BY <1>9 DEF WebhookBegin, S
    <3>3. [req[p] EXCEPT !.pc = "settle", !.active = S] \in Request
      <4>1. req[p] \in Request
        BY DEF IInv, TypeOK
      <4> QED
        BY <3>1, <4>1 DEF Request
    <3> QED
      BY <3>2, <3>3 DEF IInv, TypeOK
  <2>4. TypeOK'
    BY <1>9, <2>2, <2>3 DEF WebhookBegin, At, OrdersOf, rowVars, siteVars, IInv, TypeOK,
       RequestsOK, RequestOK, CronOK, Filled
  <2>5. RequestsOK'
    <3>1. RequestOK(p)'
      BY <1>9, <2>2 DEF WebhookBegin, At, OrdersOf, rowVars, siteVars, IInv, TypeOK, RowsOK,
         RequestsOK, RequestOK, Request, Used
    <3>2. ASSUME NEW q \in Procs \ {p} PROVE RequestOK(q)'
      <4>1. req'[q] = req[q]
        BY <1>9 DEF WebhookBegin, At, OrdersOf, rowVars, siteVars, IInv, TypeOK
      <4> QED
        BY <2>1, <2>2, <4>1, RequestKept
    <3> QED
      BY <3>1, <3>2 DEF RequestsOK
  <2>6. CronOK'
    BY <1>9, <2>2 DEF WebhookBegin, At, OrdersOf, rowVars, siteVars, CronOK, IInv, TypeOK,
       RowsOK, Used
  <2> QED
    BY <2>2, <2>4, <2>5, <2>6 DEF IInv
<1>10. ASSUME NEW p \in Procs, WebhookSettle(p) PROVE IInv'
  <2>1. GoodRows(order') /\ transfers \subseteq transfers'
    <3> SUFFICES ASSUME NEW i \in OrderId PROVE GoodRow(i, order'[i])
      BY <1>10 DEF WebhookSettle, GoodRows
    <3>1. GoodRow(i, order[i])
      BY OldRowGood
    <3>2. CASE i = req[p].id
      <4>1. order'[i] = [order[i] EXCEPT !.status = "ACTIVE", !.tx = "SUCCESS"]
        BY <1>10, <3>2 DEF WebhookSettle
      <4>2. Filled(i) /\ [id |-> i, exact |-> TRUE] \in transfers
        BY <3>2 DEF IInv, RequestsOK, RequestOK, OrderId
      <4> QED
        BY <3>1, <4>1, <4>2 DEF GoodRow, Order, OrderStatus, TransactionStatus, Filled
    <3>3. CASE i # req[p].id /\ i \in req[p].active /\ order[i].status = "ACTIVE"
      <4>1. order'[i] = [order[i] EXCEPT !.status = "CANCEL"]
        BY <1>10, <3>3 DEF WebhookSettle
      <4> QED
        BY <3>1, <3>3, <4>1 DEF GoodRow, Order, OrderStatus, Filled
    <3>4. CASE i # req[p].id /\ ~(i \in req[p].active /\ order[i].status = "ACTIVE")
      BY <1>10, <3>1, <3>4 DEF WebhookSettle
    <3> QED
      BY <3>2, <3>3, <3>4
  <2>2. order' \in [OrderId -> Order] /\ RowsOK' /\ ActiveIsPaid'
        /\ \A i \in OrderId : Filled(i) => Filled(i)'
    BY <2>1, RowsKept
  <2>3. req' \in [Procs -> Request]
    BY <1>10 DEF WebhookSettle, NewQuota, At, Goto, rowVars, siteVars, IInv, TypeOK, Request
  <2>4. TypeOK'
    BY <1>10, <2>2, <2>3 DEF WebhookSettle, NewQuota, At, Goto, rowVars, siteVars, IInv,
       TypeOK, RequestsOK, RequestOK, CronOK, Filled
  <2>5. RequestsOK'
    <3>1. RequestOK(p)'
      BY <1>10, <2>2 DEF WebhookSettle, NewQuota, At, Goto, rowVars, siteVars, IInv, TypeOK,
         RowsOK, RequestsOK, RequestOK, Request, Used
    <3>2. ASSUME NEW q \in Procs \ {p} PROVE RequestOK(q)'
      <4>1. req'[q] = req[q]
        BY <1>10 DEF WebhookSettle, NewQuota, At, Goto, rowVars, siteVars, IInv, TypeOK
      <4> QED
        BY <2>1, <2>2, <4>1, RequestKept
    <3> QED
      BY <3>1, <3>2 DEF RequestsOK
  <2>6. CronOK'
    BY <1>10, <2>2 DEF WebhookSettle, NewQuota, At, Goto, rowVars, siteVars, CronOK, IInv,
       TypeOK, RowsOK, Used
  <2> QED
    BY <2>2, <2>4, <2>5, <2>6 DEF IInv
<1>11. ASSUME NEW p \in Procs, DeleteRoles(p) PROVE IInv'
  <2>1. GoodRows(order') /\ transfers \subseteq transfers'
    BY <1>11, UnchangedGood DEF DeleteRoles, At, Goto, rowVars, siteVars
  <2>2. order' \in [OrderId -> Order] /\ RowsOK' /\ ActiveIsPaid'
        /\ \A i \in OrderId : Filled(i) => Filled(i)'
    BY <2>1, RowsKept
  <2>3. req' \in [Procs -> Request]
    BY <1>11 DEF DeleteRoles, At, Goto, rowVars, siteVars, IInv, TypeOK, Request
  <2>4. TypeOK'
    BY <1>11, <2>2, <2>3 DEF DeleteRoles, At, Goto, rowVars, siteVars, IInv, TypeOK,
       RequestsOK, RequestOK, CronOK, Filled
  <2>5. RequestsOK'
    <3>1. RequestOK(p)'
      BY <1>11, <2>2 DEF DeleteRoles, At, Goto, rowVars, siteVars, IInv, TypeOK, RowsOK,
         RequestsOK, RequestOK, Request, Used
    <3>2. ASSUME NEW q \in Procs \ {p} PROVE RequestOK(q)'
      <4>1. req'[q] = req[q]
        BY <1>11 DEF DeleteRoles, At, Goto, rowVars, siteVars, IInv, TypeOK
      <4> QED
        BY <2>1, <2>2, <4>1, RequestKept
    <3> QED
      BY <3>1, <3>2 DEF RequestsOK
  <2>6. CronOK'
    BY <1>11, <2>2 DEF DeleteRoles, At, Goto, rowVars, siteVars, CronOK, IInv, TypeOK,
       RowsOK, Used
  <2> QED
    BY <2>2, <2>4, <2>5, <2>6 DEF IInv
<1>12. ASSUME NEW p \in Procs, AddRole(p) PROVE IInv'
  <2>1. GoodRows(order') /\ transfers \subseteq transfers'
    BY <1>12, UnchangedGood DEF AddRole, At, Goto, rowVars, siteVars
  <2>2. order' \in [OrderId -> Order] /\ RowsOK' /\ ActiveIsPaid'
        /\ \A i \in OrderId : Filled(i) => Filled(i)'
    BY <2>1, RowsKept
  <2>0. req[p].user \in Users
    BY <1>12 DEF AddRole, At, IInv, RequestsOK, RequestOK
  <2>3. req' \in [Procs -> Request]
    BY <1>12 DEF AddRole, At, Goto, rowVars, siteVars, IInv, TypeOK, Request
  <2>4. TypeOK'
    BY <1>12, <2>2, <2>3, <2>0 DEF AddRole, At, Goto, rowVars, siteVars, IInv, TypeOK,
       RequestsOK, RequestOK, CronOK, Filled
  <2>5. RequestsOK'
    <3>1. RequestOK(p)'
      BY <1>12, <2>2, <2>0 DEF AddRole, At, Goto, rowVars, siteVars, IInv, TypeOK, RowsOK,
         RequestsOK, RequestOK, Request, Used
    <3>2. ASSUME NEW q \in Procs \ {p} PROVE RequestOK(q)'
      <4>1. req'[q] = req[q]
        BY <1>12 DEF AddRole, At, Goto, rowVars, siteVars, IInv, TypeOK
      <4> QED
        BY <2>1, <2>2, <4>1, RequestKept
    <3> QED
      BY <3>1, <3>2 DEF RequestsOK
  <2>6. CronOK'
    BY <1>12, <2>2 DEF AddRole, At, Goto, rowVars, siteVars, CronOK, IInv, TypeOK, RowsOK,
       Used
  <2> QED
    BY <2>2, <2>4, <2>5, <2>6 DEF IInv
<1>13. ASSUME NEW p \in Procs, Restore(p) PROVE IInv'
  <2>1. GoodRows(order') /\ transfers \subseteq transfers'
    BY <1>13, UnchangedGood DEF Restore, At, Goto, Done, Idle, rowVars, siteVars
  <2>2. order' \in [OrderId -> Order] /\ RowsOK' /\ ActiveIsPaid'
        /\ \A i \in OrderId : Filled(i) => Filled(i)'
    BY <2>1, RowsKept
  <2>3. req' \in [Procs -> Request]
    <3>1. CASE req[p].id = 0
      BY <1>13, <3>1 DEF Restore, Goto, IInv, TypeOK, Request
    <3>2. CASE req[p].id # 0
      BY <1>13, <3>2 DEF Restore, Done, Idle, IInv, TypeOK, Request
    <3> QED
      BY <3>1, <3>2
  <2>4. TypeOK'
    BY <1>13, <2>2, <2>3 DEF Restore, At, Goto, Done, Idle, rowVars, siteVars, IInv, TypeOK,
       RequestsOK, RequestOK, CronOK, Filled
  <2>5. RequestsOK'
    <3>1. RequestOK(p)'
      BY <1>13, <2>2 DEF Restore, At, Goto, Done, Idle, rowVars, siteVars, IInv, TypeOK,
         RowsOK, RequestsOK, RequestOK, Request, Used
    <3>2. ASSUME NEW q \in Procs \ {p} PROVE RequestOK(q)'
      <4>1. req'[q] = req[q]
        BY <1>13 DEF Restore, At, Goto, Done, Idle, rowVars, siteVars, IInv, TypeOK
      <4> QED
        BY <2>1, <2>2, <4>1, RequestKept
    <3> QED
      BY <3>1, <3>2 DEF RequestsOK
  <2>6. CronOK'
    BY <1>13, <2>2 DEF Restore, At, Goto, Done, Idle, rowVars, siteVars, CronOK, IInv,
       TypeOK, RowsOK, Used
  <2> QED
    BY <2>2, <2>4, <2>5, <2>6 DEF IInv
<1>14. ASSUME NEW p \in Procs, FailRequest(p) PROVE IInv'
  <2>1. GoodRows(order') /\ transfers \subseteq transfers'
    BY <1>14, UnchangedGood DEF FailRequest, Failing, At, Done, Idle, rowVars, siteVars
  <2>2. order' \in [OrderId -> Order] /\ RowsOK' /\ ActiveIsPaid'
        /\ \A i \in OrderId : Filled(i) => Filled(i)'
    BY <2>1, RowsKept
  <2>3. req' \in [Procs -> Request]
    BY <1>14 DEF FailRequest, Failing, At, Done, Idle, rowVars, siteVars, IInv, TypeOK,
       Request
  <2>4. TypeOK'
    BY <1>14, <2>2, <2>3 DEF FailRequest, Failing, At, Done, Idle, rowVars, siteVars, IInv,
       TypeOK, RequestsOK, RequestOK, CronOK, Filled
  <2>5. RequestsOK'
    <3>1. RequestOK(p)'
      BY <1>14, <2>2 DEF FailRequest, Failing, At, Done, Idle, rowVars, siteVars, IInv,
         TypeOK, RowsOK, RequestsOK, RequestOK, Request, Used
    <3>2. ASSUME NEW q \in Procs \ {p} PROVE RequestOK(q)'
      <4>1. req'[q] = req[q]
        BY <1>14 DEF FailRequest, Failing, At, Done, Idle, rowVars, siteVars, IInv, TypeOK
      <4> QED
        BY <2>1, <2>2, <4>1, RequestKept
    <3> QED
      BY <3>1, <3>2 DEF RequestsOK
  <2>6. CronOK'
    BY <1>14, <2>2 DEF FailRequest, Failing, At, Done, Idle, rowVars, siteVars, CronOK,
       IInv, TypeOK, RowsOK, Used
  <2> QED
    BY <2>2, <2>4, <2>5, <2>6 DEF IInv
<1>15. ASSUME NEW u \in Users, RestorePhotoVisibility(u) \/ DropRole(u) PROVE IInv'
  <2>1. GoodRows(order') /\ transfers \subseteq transfers'
    BY <1>15, UnchangedGood DEF RestorePhotoVisibility, DropRole, rowVars, siteVars
  <2>2. order' \in [OrderId -> Order] /\ RowsOK' /\ ActiveIsPaid'
        /\ \A i \in OrderId : Filled(i) => Filled(i)'
    BY <2>1, RowsKept
  <2>3. req' \in [Procs -> Request]
    BY <1>15 DEF RestorePhotoVisibility, DropRole, rowVars, siteVars, IInv, TypeOK, Request
  <2>4. TypeOK'
    BY <1>15, <2>2, <2>3 DEF RestorePhotoVisibility, DropRole, rowVars, siteVars, IInv,
       TypeOK, RequestsOK, RequestOK, CronOK, Filled
  <2>5. RequestsOK'
    BY <1>15, <2>1, <2>2, RequestKept DEF RestorePhotoVisibility, DropRole, rowVars,
       siteVars, RequestsOK
  <2>6. CronOK'
    BY <1>15, <2>2 DEF RestorePhotoVisibility, DropRole, rowVars, siteVars, CronOK, IInv,
       TypeOK, RowsOK, Used
  <2> QED
    BY <2>2, <2>4, <2>5, <2>6 DEF IInv
<1>16. ASSUME NEW o \in OrderId, NEW exact \in BOOLEAN, Transfer(o, exact) PROVE IInv'
  <2>1. GoodRows(order') /\ transfers \subseteq transfers'
    BY <1>16, UnchangedGood DEF Transfer, rowVars, siteVars
  <2>2. order' \in [OrderId -> Order] /\ RowsOK' /\ ActiveIsPaid'
        /\ \A i \in OrderId : Filled(i) => Filled(i)'
    BY <2>1, RowsKept
  <2>3. req' \in [Procs -> Request]
    BY <1>16 DEF Transfer, rowVars, siteVars, IInv, TypeOK, Request
  <2>4. TypeOK'
    BY <1>16, <2>2, <2>3 DEF Transfer, rowVars, siteVars, IInv, TypeOK, RequestsOK,
       RequestOK, CronOK, Filled
  <2>5. RequestsOK'
    BY <1>16, <2>1, <2>2, RequestKept DEF Transfer, rowVars, siteVars, RequestsOK
  <2>6. CronOK'
    BY <1>16, <2>2 DEF Transfer, rowVars, siteVars, CronOK, IInv, TypeOK, RowsOK, Used
  <2> QED
    BY <2>2, <2>4, <2>5, <2>6 DEF IInv
<1>17. ASSUME NEW o \in OrderId, NEW st \in Decisions, DecideTransaction(o, st) PROVE IInv'
  <2>1. GoodRows(order') /\ transfers \subseteq transfers'
    <3> SUFFICES ASSUME NEW i \in OrderId PROVE GoodRow(i, order'[i])
      BY <1>17 DEF DecideTransaction, GoodRows, IInv, TypeOK
    <3>1. GoodRow(i, order[i])
      BY OldRowGood
    <3>2. CASE i = o
      <4>1. order'[i] = [order[i] EXCEPT !.tx = st]
        BY <1>17, <3>2 DEF DecideTransaction, IInv, TypeOK
      <4>2. order'[i] \in Order
        BY <1>17, <3>1, <4>1 DEF GoodRow, Order
      <4> QED
        BY <1>17, <3>1, <3>2, <4>1, <4>2 DEF DecideTransaction, GoodRow, Order, Filled
    <3>3. CASE i # o
      BY <1>17, <3>1, <3>3 DEF DecideTransaction, IInv, TypeOK
    <3> QED
      BY <3>2, <3>3
  <2>2. order' \in [OrderId -> Order] /\ RowsOK' /\ ActiveIsPaid'
        /\ \A i \in OrderId : Filled(i) => Filled(i)'
    BY <2>1, RowsKept
  <2>3. req' \in [Procs -> Request]
    BY <1>17 DEF DecideTransaction, rowVars, siteVars, IInv, TypeOK, Request
  <2>4. TypeOK'
    BY <1>17, <2>2, <2>3 DEF DecideTransaction, rowVars, siteVars, IInv, TypeOK, RequestsOK,
       RequestOK, CronOK, Filled
  <2>5. RequestsOK'
    BY <1>17, <2>1, <2>2, RequestKept DEF DecideTransaction, rowVars, siteVars, RequestsOK
  <2>6. CronOK'
    BY <1>17, <2>2 DEF DecideTransaction, rowVars, siteVars, CronOK, IInv, TypeOK, RowsOK,
       Used
  <2> QED
    BY <2>2, <2>4, <2>5, <2>6 DEF IInv
<1>18. ASSUME NEW o \in OrderId, FallDue(o) PROVE IInv'
  <2>1. GoodRows(order') /\ transfers \subseteq transfers'
    <3> SUFFICES ASSUME NEW i \in OrderId PROVE GoodRow(i, order'[i])
      BY <1>18 DEF FallDue, GoodRows, IInv, TypeOK
    <3>1. GoodRow(i, order[i])
      BY OldRowGood
    <3>2. CASE i = o
      <4>1. order'[i] = [order[i] EXCEPT !.due = TRUE]
        BY <1>18, <3>2 DEF FallDue, IInv, TypeOK
      <4>2. order'[i] \in Order
        BY <1>18, <3>1, <4>1 DEF GoodRow, Order
      <4> QED
        BY <1>18, <3>1, <3>2, <4>1, <4>2 DEF FallDue, GoodRow, Order, Filled
    <3>3. CASE i # o
      BY <1>18, <3>1, <3>3 DEF FallDue, IInv, TypeOK
    <3> QED
      BY <3>2, <3>3
  <2>2. order' \in [OrderId -> Order] /\ RowsOK' /\ ActiveIsPaid'
        /\ \A i \in OrderId : Filled(i) => Filled(i)'
    BY <2>1, RowsKept
  <2>3. req' \in [Procs -> Request]
    BY <1>18 DEF FallDue, rowVars, siteVars, IInv, TypeOK, Request
  <2>4. TypeOK'
    BY <1>18, <2>2, <2>3 DEF FallDue, rowVars, siteVars, IInv, TypeOK, RequestsOK,
       RequestOK, CronOK, Filled
  <2>5. RequestsOK'
    BY <1>18, <2>1, <2>2, RequestKept DEF FallDue, rowVars, siteVars, RequestsOK
  <2>6. CronOK'
    BY <1>18, <2>2 DEF FallDue, rowVars, siteVars, CronOK, IInv, TypeOK, RowsOK, Used
  <2> QED
    BY <2>2, <2>4, <2>5, <2>6 DEF IInv
<1>19. CASE CronRead
  <2>1. GoodRows(order') /\ transfers \subseteq transfers'
    BY <1>19, UnchangedGood DEF CronRead, Expirable, rowVars, siteVars
  <2>2. order' \in [OrderId -> Order] /\ RowsOK' /\ ActiveIsPaid'
        /\ \A i \in OrderId : Filled(i) => Filled(i)'
    BY <2>1, RowsKept
  <2>3. req' \in [Procs -> Request]
    BY <1>19 DEF CronRead, Expirable, rowVars, siteVars, IInv, TypeOK, Request
  <2>4. TypeOK'
    BY <1>19, <2>2, <2>3 DEF CronRead, Expirable, rowVars, siteVars, IInv, TypeOK,
       RequestsOK, RequestOK, CronOK, Filled
  <2>5. RequestsOK'
    BY <1>19, <2>1, <2>2, RequestKept DEF CronRead, Expirable, rowVars, siteVars, RequestsOK
  <2>6. CronOK'
    BY <1>19, <2>2 DEF CronRead, Expirable, rowVars, siteVars, CronOK, IInv, TypeOK, RowsOK,
       Used
  <2> QED
    BY <2>2, <2>4, <2>5, <2>6 DEF IInv
<1>20. CASE CronHide \/ CronDisable
  <2>1. GoodRows(order') /\ transfers \subseteq transfers'
    BY <1>20, UnchangedGood DEF CronHide, CronDisable, Withdraw, rowVars, siteVars
  <2>2. order' \in [OrderId -> Order] /\ RowsOK' /\ ActiveIsPaid'
        /\ \A i \in OrderId : Filled(i) => Filled(i)'
    BY <2>1, RowsKept
  <2>3. req' \in [Procs -> Request]
    BY <1>20 DEF CronHide, CronDisable, Withdraw, rowVars, siteVars, IInv, TypeOK, Request
  <2>4. TypeOK'
    BY <1>20, <2>2, <2>3 DEF CronHide, CronDisable, Withdraw, rowVars, siteVars, IInv,
       TypeOK, RequestsOK, RequestOK, CronOK, Filled
  <2>5. RequestsOK'
    BY <1>20, <2>1, <2>2, RequestKept DEF CronHide, CronDisable, Withdraw, rowVars,
       siteVars, RequestsOK
  <2>6. CronOK'
    BY <1>20, <2>2 DEF CronHide, CronDisable, Withdraw, rowVars, siteVars, CronOK, IInv,
       TypeOK, RowsOK, Used
  <2> QED
    BY <2>2, <2>4, <2>5, <2>6 DEF IInv
<1>21. CASE CronDeactivate
  <2>1. GoodRows(order') /\ transfers \subseteq transfers'
    BY <1>21, UnchangedGood, OldRowGood, WithExpiredGood DEF CronDeactivate, GoodRows, IInv,
       TypeOK
  <2>2. order' \in [OrderId -> Order] /\ RowsOK' /\ ActiveIsPaid'
        /\ \A i \in OrderId : Filled(i) => Filled(i)'
    BY <2>1, RowsKept
  <2>3. req' \in [Procs -> Request]
    BY <1>21 DEF CronDeactivate, ListedUsers, CronIdle, rowVars, siteVars, IInv, TypeOK,
       Request
  <2>4. TypeOK'
    BY <1>21, <2>2, <2>3 DEF CronDeactivate, ListedUsers, CronIdle, rowVars, siteVars, IInv,
       TypeOK, RequestsOK, RequestOK, CronOK, Filled
  <2>5. RequestsOK'
    BY <1>21, <2>1, <2>2, RequestKept DEF CronDeactivate, ListedUsers, CronIdle, rowVars,
       siteVars, RequestsOK
  <2>6. CronOK'
    BY <1>21, <2>2 DEF CronDeactivate, ListedUsers, CronIdle, rowVars, siteVars, CronOK,
       IInv, TypeOK, RowsOK, Used
  <2> QED
    BY <2>2, <2>4, <2>5, <2>6 DEF IInv
<1>22. CASE Restart
  <2>1. GoodRows(order') /\ transfers \subseteq transfers'
    BY <1>22, UnchangedGood DEF Restart, Failing, rowVars, siteVars
  <2>2. RowsOK' /\ ActiveIsPaid' /\ order' \in [OrderId -> Order]
    BY <2>1, RowsKept
  <2>3. TypeOK' /\ RequestsOK' /\ CronOK'
    BY <1>22, <2>2 DEF Restart, Failing, Idle, CronIdle, rowVars, siteVars, IInv, TypeOK,
       Request,
       RequestsOK, RequestOK, CronOK
  <2> QED
    BY <2>2, <2>3 DEF IInv
<1>23. CASE UNCHANGED vars
  BY <1>23 DEF vars, IInv, TypeOK, RowsOK, RequestsOK, RequestOK, CronOK, ActiveIsPaid,
     Used, Filled
<1> QED
  BY <1>1, <1>2, <1>3, <1>4, <1>5, <1>6, <1>7, <1>8, <1>9, <1>10, <1>11, <1>12, <1>13,
     <1>14, <1>15, <1>16, <1>17, <1>18, <1>19, <1>20, <1>21, <1>22, <1>23
     DEF Next, Arrive, Step, CronStep

\* Every reachable state is well formed.
THEOREM UpgradesTypeCorrect == Spec => []TypeOK
<1>1. IInv => TypeOK
  BY DEF IInv
<1> QED
  BY InitIInv, StepIInv, <1>1, PTL DEF Spec

\* No order is or was in force without having been paid, with its transaction
\* saying so.
THEOREM OrdersArePaid == Spec => []ActiveIsPaid
<1>1. IInv => ActiveIsPaid
  BY DEF IInv
<1> QED
  BY InitIInv, StepIInv, <1>1, PTL DEF Spec

-----------------------------------------------------------------------------
(***************************************************************************)
(* One order in force, as long as a user has one request in flight: what   *)
(* steps do to one order and to one request, and the invariant.            *)
(***************************************************************************)

\* No two requests or deliveries of one user are in flight.
OneAtATime ==
  \A p, q \in Procs : p # q /\ req[p].user = req[q].user => req[p].user = None

InForce(i) == order[i].status = "ACTIVE"

\* Orders keep their owner and package, and none comes into force.
OrderKept(i) ==
  /\ ~Used(i)' => order'[i].user = None
  /\ Used(i) => order'[i].user = order[i].user /\ order'[i].package = order[i].package
  /\ InForce(i)' => InForce(i)

OrdersKept == quota' = quota /\ \A i \in OrderId : OrderKept(i)

\* A request stays in the step it is in with all it holds, or goes on.
SameRequest(q) ==
  /\ req'[q].user = req[q].user /\ req'[q].package = req[q].package /\ req'[q].id = req[q].id

GoesOn(q) ==
  /\ SameRequest(q)
  /\ \/ /\ req'[q].seen = req[q].seen /\ req'[q].active = req[q].active
        /\ \/ req[q].pc = "checkWallet" /\ req'[q].pc = "cancelPending"
           \/ req[q].pc = "deactivate" /\ req'[q].pc = "deleteRoles"
           \/ req[q].pc = "settle" /\ req'[q].pc = "deleteRoles"
           \/ req[q].pc = "deleteRoles" /\ req'[q].pc = "addRole"
           \/ req[q].pc = "addRole" /\ req'[q].pc = "restore"
           \/ req[q].pc = "restore" /\ req'[q].pc = "commit" /\ req[q].id = 0
     \/ /\ req[q].pc = "findPending" /\ req'[q].pc \in {"checkWallet", "createByBanking"}
     \/ /\ req[q].pc = "cancelPending" /\ req'[q].pc = "deactivate" /\ order' = order
        /\ OrdersOf(req[q].user, "ACTIVE") \subseteq req'[q].active \cup req'[q].seen
     \/ /\ req[q].pc = "beginSettle" /\ req'[q].pc = "settle" /\ order' = order
        /\ OrdersOf(req[q].user, "ACTIVE") \subseteq req'[q].active

BeginsAt(q) ==
  \/ req'[q].pc = "findPending" /\ req'[q].id = 0
  \/ /\ req'[q].pc = "beginSettle" /\ order' = order
     /\ req'[q].id \in OrderId /\ Used(req'[q].id)
     /\ order[req'[q].id].user = req'[q].user /\ order[req'[q].id].package = req'[q].package

RequestStep(q) == req'[q] = req[q] \/ req'[q] = Idle \/ BeginsAt(q) \/ GoesOn(q)

LEMMA SameOrders ==
  ASSUME UNCHANGED rowVars, \A i \in OrderId : ~Used(i) => order[i].user = None
  PROVE  OrdersKept
  BY DEF rowVars, OrdersKept, OrderKept, Used, InForce

LEMMA CancelKept ==
  ASSUME IInv, \A i \in OrderId : ~Used(i) => order[i].user = None,
         NEW p \in Procs, NEW i \in OrderId
  PROVE  LET r == CancelSeen(p)[i]
         IN  /\ r.status = "UNUSED" => r.user = None
             /\ r.user = order[i].user /\ r.package = order[i].package
             /\ r.status = "ACTIVE" => InForce(i) /\ i \notin req[p].seen
<1>1. order[i] \in Order
  BY DEF IInv, TypeOK
<1>2. CASE i \in req[p].seen
  <2>1. CancelSeen(p)[i] = [order[i] EXCEPT !.status = "CANCEL", !.tx = "CANCEL"]
    BY <1>2 DEF CancelSeen
  <2> QED
    BY <1>1, <2>1 DEF Order
<1>3. CASE i \notin req[p].seen
  BY <1>3 DEF CancelSeen, Used, InForce
<1> QED
  BY <1>2, <1>3

LEMMA DoneStep ==
  ASSUME IInv, NEW p \in Procs, Done(p), NEW q \in Procs
  PROVE  RequestStep(q)
  BY DEF Done, IInv, TypeOK, RequestStep

LEMMA GotoStep ==
  ASSUME IInv, NEW p \in Procs, NEW pc, Goto(p, pc), NEW q \in Procs,
         \/ req[p].pc = "checkWallet" /\ pc = "cancelPending"
         \/ req[p].pc = "deactivate" /\ pc = "deleteRoles"
         \/ req[p].pc = "settle" /\ pc = "deleteRoles"
         \/ req[p].pc = "deleteRoles" /\ pc = "addRole"
         \/ req[p].pc = "addRole" /\ pc = "restore"
         \/ req[p].pc = "restore" /\ pc = "commit" /\ req[p].id = 0
  PROVE  RequestStep(q)
<1>1. CASE q # p
  BY <1>1 DEF Goto, IInv, TypeOK, RequestStep
<1>2. CASE q = p
  <2>1. req'[q] = [req[q] EXCEPT !.pc = pc] /\ req[q] \in Request
    BY <1>2 DEF Goto, IInv, TypeOK
  <2>2. /\ SameRequest(q) /\ req'[q].pc = pc
        /\ req'[q].seen = req[q].seen /\ req'[q].active = req[q].active
    BY <2>1 DEF Request, SameRequest
  <2> QED
    BY <1>2, <2>2 DEF GoesOn, RequestStep
<1> QED
  BY <1>1, <1>2

LEMMA RequestSteps ==
  ASSUME IInv, [Next]_vars, NEW q \in Procs
  PROVE  RequestStep(q)
<1>0. req[q] \in Request /\ req \in [Procs -> Request]
  BY DEF IInv, TypeOK
<1>1. CASE UNCHANGED req
  BY <1>1 DEF RequestStep
<1>2. CASE \E p \in Procs : Done(p)
  BY <1>2, DoneStep
<1>3. ASSUME NEW p \in Procs, NEW u \in Users, NEW k \in Packages, RequestUpgrade(p, u, k)
      PROVE  RequestStep(q)
  <2>1. req' = [req EXCEPT ![p] = [Idle EXCEPT !.pc = "findPending", !.user = u, !.package = k]]
    BY <1>3 DEF RequestUpgrade, Begin
  <2>2. [Idle EXCEPT !.pc = "findPending", !.user = u, !.package = k].pc = "findPending"
        /\ [Idle EXCEPT !.pc = "findPending", !.user = u, !.package = k].id = 0
    BY DEF Idle
  <2> QED
    BY <1>0, <2>1, <2>2 DEF RequestStep, BeginsAt
<1>4. ASSUME NEW p \in Procs, NEW t \in transfers, WebhookRead(p, t) PROVE RequestStep(q)
  <2> DEFINE r == [Idle EXCEPT !.pc = "beginSettle", !.id = t.id,
                               !.user = order[t.id].user, !.package = order[t.id].package]
  <2>1. req' = [req EXCEPT ![p] = r] /\ order' = order /\ Used(t.id) /\ t.id \in OrderId
    BY <1>4 DEF WebhookRead, Begin, rowVars, IInv, TypeOK
  <2>2. /\ r.pc = "beginSettle" /\ r.id = t.id /\ r.user = order[t.id].user
        /\ r.package = order[t.id].package
    BY DEF Idle
  <2> HIDE DEF r
  <2>3. q # p => req'[q] = req[q]
    BY <1>0, <2>1
  <2>4. q = p => req'[q] = r
    BY <1>0, <2>1
  <2> QED
    BY <2>1, <2>2, <2>3, <2>4 DEF RequestStep, BeginsAt
<1>5. ASSUME NEW p \in Procs, FindPending(p) PROVE RequestStep(q)
  <2> DEFINE S == OrdersOf(req[p].user, "PENDING")
  <2>1. PICK next \in {"checkWallet", "createByBanking"} :
          req' = [req EXCEPT ![p] = [req[p] EXCEPT !.pc = next, !.seen = S]]
    BY <1>5 DEF FindPending
  <2> HIDE DEF S
  <2>2. CASE q # p
    BY <1>0, <2>1, <2>2 DEF RequestStep
  <2>3. CASE q = p
    <3>1. req'[q] = [req[q] EXCEPT !.pc = next, !.seen = S]
      BY <1>0, <2>1, <2>3
    <3>2. SameRequest(q) /\ req'[q].pc = next
      BY <1>0, <3>1 DEF Request, SameRequest
    <3> QED
      BY <1>5, <2>3, <3>2 DEF FindPending, At, RequestStep, GoesOn
  <2> QED
    BY <2>2, <2>3
<1>6. ASSUME NEW p \in Procs, CancelPending(p) PROVE RequestStep(q)
  <2> DEFINE S == OrdersOf(req[p].user, "ACTIVE")
  <2>1. req' = [req EXCEPT ![p] = [req[p] EXCEPT !.pc = "deactivate", !.active = S \ req[p].seen]]
        /\ order' = order
    BY <1>6 DEF CancelPending, rowVars
  <2> HIDE DEF S
  <2>2. CASE q # p
    BY <1>0, <2>1, <2>2 DEF RequestStep
  <2>3. CASE q = p
    <3>1. req'[q] = [req[q] EXCEPT !.pc = "deactivate", !.active = S \ req[q].seen]
      BY <1>0, <2>1, <2>3
    <3>2. /\ SameRequest(q) /\ req'[q].pc = "deactivate"
          /\ req'[q].active = S \ req[q].seen /\ req'[q].seen = req[q].seen
      BY <1>0, <3>1 DEF Request, SameRequest
    <3>3. S \subseteq req'[q].active \cup req'[q].seen
      BY <3>2
    <3> QED
      BY <1>6, <2>1, <2>3, <3>2, <3>3 DEF CancelPending, At, RequestStep, GoesOn, S
  <2> QED
    BY <2>2, <2>3
<1>7. ASSUME NEW p \in Procs, WebhookBegin(p) PROVE RequestStep(q)
  <2> DEFINE S == OrdersOf(req[p].user, "ACTIVE")
  <2>1. req' = [req EXCEPT ![p] = [req[p] EXCEPT !.pc = "settle", !.active = S]] /\ order' = order
    BY <1>7 DEF WebhookBegin, rowVars
  <2> HIDE DEF S
  <2>2. CASE q # p
    BY <1>0, <2>1, <2>2 DEF RequestStep
  <2>3. CASE q = p
    <3>1. req'[q] = [req[q] EXCEPT !.pc = "settle", !.active = S]
      BY <1>0, <2>1, <2>3
    <3>2. SameRequest(q) /\ req'[q].pc = "settle" /\ req'[q].active = S
      BY <1>0, <3>1 DEF Request, SameRequest
    <3> QED
      BY <1>7, <2>1, <2>3, <3>2 DEF WebhookBegin, At, RequestStep, GoesOn, S
  <2> QED
    BY <2>2, <2>3
<1>8. ASSUME NEW p \in Procs, CheckWallet(p) \/ Deactivate(p) \/ WebhookSettle(p) \/ DeleteRoles(p)
                              \/ AddRole(p) \/ Restore(p)
      PROVE  RequestStep(q)
  BY <1>2, <1>8, GotoStep DEF CheckWallet, Deactivate, WebhookSettle, DeleteRoles, AddRole, Restore, At
<1>9. ASSUME NEW p \in Procs, CreateByBanking(p) \/ Commit(p) \/ FailRequest(p)
      PROVE  RequestStep(q)
  BY <1>2, <1>9 DEF CreateByBanking, Commit, FailRequest
<1>10. CASE Restart
  BY <1>10 DEF Restart, RequestStep
<1>11. CASE \E u \in Users : RestorePhotoVisibility(u) \/ DropRole(u)
  BY <1>1, <1>11 DEF RestorePhotoVisibility, DropRole
<1>12. CASE \E o \in OrderId : \/ FallDue(o)
                               \/ \E exact \in BOOLEAN : Transfer(o, exact)
                               \/ \E st \in Decisions : DecideTransaction(o, st)
  BY <1>1, <1>12 DEF FallDue, Transfer, DecideTransaction
<1>13. CASE CronStep
  BY <1>1, <1>13 DEF CronStep, CronRead, CronHide, CronDisable, CronDeactivate
<1>14. CASE UNCHANGED vars
  BY <1>1, <1>14 DEF vars
<1> QED
  BY <1>3, <1>4, <1>5, <1>6, <1>7, <1>8, <1>9, <1>10, <1>11, <1>12, <1>13, <1>14
     DEF Next, Arrive, Step

-----------------------------------------------------------------------------
WalletUpgrade == {"findPending", "checkWallet", "createByBanking", "cancelPending",
                  "deactivate", "commit"}

\* A wallet upgrade past cancelPending will end every order in force of its user,
\* and a delivery past its own read too: nobody else brings one into force.
EndsAll(p) ==
  /\ req[p].id # 0 => /\ order[req[p].id].user = req[p].user
                      /\ order[req[p].id].package = req[p].package
  /\ req[p].pc \in WalletUpgrade => req[p].id = 0
  /\ req[p].pc \in {"beginSettle", "settle"} => req[p].id # 0
  /\ req[p].pc \in {"deactivate", "deleteRoles", "addRole", "restore", "commit"} /\ req[p].id = 0
       => OrdersOf(req[p].user, "ACTIVE") \subseteq req[p].active \cup req[p].seen
  /\ req[p].pc = "settle" => OrdersOf(req[p].user, "ACTIVE") \subseteq req[p].active

FreeIsNobodys == \A i \in OrderId : ~Used(i) => order[i].user = None

OneInForce ==
  \A i, j \in OrderId : InForce(i) /\ InForce(j) => (order[i].user = order[j].user => i = j)

QuotaInForce == \A i \in OrderId : InForce(i) => quota[order[i].user] = Level[order[i].package]

OneOK ==
  /\ FreeIsNobodys /\ OneInForce /\ QuotaInForce
  /\ \A p \in Procs : EndsAll(p)

LEMMA OneInit == Init => OneOK
<1> SUFFICES ASSUME Init PROVE OneOK
  OBVIOUS
<1>1. \A i \in OrderId : ~InForce(i) /\ order[i].user = None
  BY DEF Init, FreeOrder, InForce
<1>2. \A p \in Procs : EndsAll(p)
  BY DEF Init, Idle, EndsAll, WalletUpgrade
<1> QED
  BY <1>1, <1>2 DEF OneOK, FreeIsNobodys, OneInForce, QuotaInForce

\* An order comes into force by a commit or by a delivery, which end the others
\* of the user they know of and set the quota.
Replaces(p, o) ==
  /\ req[p].pc # "idle"
  /\ order'[o].user = req[p].user /\ order'[o].package = req[p].package
  /\ quota' = NewQuota(p)
  /\ ~Used(o) \/ order[o].user = req[p].user
  /\ \A i \in OrderId : i # o => OrderKept(i)
  /\ \A i \in OrderId : i # o /\ InForce(i)' => order'[i].user # req[p].user
  /\ Used(o) => order'[o].package = order[o].package
  /\ Used(o)'
  /\ req'[p].pc \in {"idle", "deleteRoles"} /\ (req'[p].pc = "deleteRoles" => req'[p].id # 0)

LEMMA CommitReplaces ==
  ASSUME IInv, OneOK, NEW p \in Procs, Commit(p)
  PROVE  \E o \in OrderId : Replaces(p, o)
<1>1. PICK o \in OrderId :
        /\ Fresh(o)
        /\ order' = [WithExpired(CancelSeen(p), req[p].active) EXCEPT
                       ![o] = NewOrder(p, "WALLET", "ACTIVE", "SUCCESS")]
  BY DEF Commit
<1>2. DOMAIN WithExpired(CancelSeen(p), req[p].active) = OrderId
  BY DEF WithExpired
<1>3. order'[o] = NewOrder(p, "WALLET", "ACTIVE", "SUCCESS")
  BY <1>1, <1>2
<1>4. ASSUME NEW i \in OrderId, i # o
      PROVE  OrderKept(i) /\ (InForce(i)' => order'[i].user # req[p].user)
  <2>1. order'[i] = WithExpired(CancelSeen(p), req[p].active)[i]
    BY <1>1, <1>2, <1>4
  <2>2. PICK r : r = CancelSeen(p)[i]
    OBVIOUS
  <2>3. /\ r.status = "UNUSED" => r.user = None
        /\ r.user = order[i].user /\ r.package = order[i].package
        /\ r.status = "ACTIVE" => InForce(i) /\ i \notin req[p].seen
    BY <2>2, CancelKept DEF OneOK, FreeIsNobodys
  <2>4. r = order[i] \/ r = [order[i] EXCEPT !.status = "CANCEL", !.tx = "CANCEL"]
    BY <2>2 DEF CancelSeen
  <2>5. r \in Order
    <3>1. order[i] \in Order
      BY DEF IInv, TypeOK
    <3> QED
      BY <2>4, <3>1 DEF Order, OrderStatus, TransactionStatus
  <2>6. CASE i \in req[p].active /\ r.status = "ACTIVE"
    <3>1. order'[i] = [r EXCEPT !.status = "EXPIRE"]
      BY <2>1, <2>2, <2>6 DEF WithExpired
    <3>2. order'[i].status = "EXPIRE" /\ order'[i].user = r.user /\ order'[i].package = r.package
      BY <2>5, <3>1 DEF Order
    <3> QED
      BY <2>3, <3>2 DEF OrderKept, InForce, Used
  <2>7. CASE ~(i \in req[p].active /\ r.status = "ACTIVE")
    <3>1. order'[i] = r
      BY <2>1, <2>2, <2>7 DEF WithExpired
    <3>2. OrderKept(i)
      BY <2>3, <3>1 DEF OrderKept, InForce, Used
    <3>3. ASSUME InForce(i)', order'[i].user = req[p].user PROVE FALSE
      <4>1. InForce(i) /\ i \notin req[p].seen /\ i \notin req[p].active
        BY <2>3, <2>7, <3>1, <3>3 DEF InForce
      <4>2. i \in OrdersOf(req[p].user, "ACTIVE")
        BY <2>3, <3>1, <3>3, <4>1 DEF InForce, OrdersOf
      <4>3. OrdersOf(req[p].user, "ACTIVE") \subseteq req[p].active \cup req[p].seen
        BY DEF OneOK, EndsAll, Commit, At, WalletUpgrade
      <4> QED
        BY <4>1, <4>2, <4>3
    <3> QED
      BY <3>2, <3>3
  <2> QED
    BY <2>6, <2>7
<1>5. order'[o].user = req[p].user /\ order'[o].package = req[p].package /\ Used(o)'
  BY <1>3 DEF NewOrder, Used
<1>6. req'[p] = Idle /\ quota' = NewQuota(p)
  BY DEF Commit, Done, IInv, TypeOK
<1> QED
  BY <1>1, <1>4, <1>5, <1>6 DEF Replaces, Fresh, Idle, Commit, At

LEMMA SettleReplaces ==
  ASSUME IInv, OneOK, NEW p \in Procs, WebhookSettle(p)
  PROVE  \E o \in OrderId : Replaces(p, o)
<1>0. req[p] \in Request /\ EndsAll(p) /\ req[p].pc = "settle"
  BY DEF IInv, TypeOK, OneOK, WebhookSettle, At
<1>1. PICK o \in OrderId : o = req[p].id
  BY <1>0 DEF EndsAll, Request
<1>2. order' = [i \in OrderId |->
                 IF i = o THEN [order[o] EXCEPT !.status = "ACTIVE", !.tx = "SUCCESS"]
                 ELSE IF i \in req[p].active /\ order[i].status = "ACTIVE"
                 THEN [order[i] EXCEPT !.status = "CANCEL"] ELSE order[i]]
  BY <1>1 DEF WebhookSettle
<1>3. \A i \in OrderId : order[i] \in Order
  BY DEF IInv, TypeOK
<1>4. /\ order'[o].user = order[o].user /\ order'[o].package = order[o].package
      /\ order'[o].status = "ACTIVE"
  BY <1>2, <1>3 DEF Order
<1>5. order[o].user = req[p].user /\ order[o].package = req[p].package /\ req[p].id # 0
  BY <1>0, <1>1 DEF EndsAll
<1>6. ASSUME NEW i \in OrderId, i # o
      PROVE  OrderKept(i) /\ (InForce(i)' => order'[i].user # req[p].user)
  <2>1. CASE i \in req[p].active /\ order[i].status = "ACTIVE"
    <3>1. order'[i] = [order[i] EXCEPT !.status = "CANCEL"]
      BY <1>2, <1>6, <2>1
    <3>2. /\ order'[i].status = "CANCEL" /\ order'[i].user = order[i].user
          /\ order'[i].package = order[i].package
      BY <1>3, <3>1 DEF Order
    <3> QED
      BY <3>2 DEF OrderKept, InForce, Used
  <2>2. CASE ~(i \in req[p].active /\ order[i].status = "ACTIVE")
    <3>1. order'[i] = order[i]
      BY <1>2, <1>6, <2>2
    <3>2. OrderKept(i)
      BY <3>1 DEF OrderKept, InForce, Used, OneOK, FreeIsNobodys
    <3>3. ASSUME InForce(i), order[i].user = req[p].user PROVE FALSE
      <4>1. i \in OrdersOf(req[p].user, "ACTIVE")
        BY <3>3 DEF InForce, OrdersOf
      <4> QED
        BY <1>0, <2>2, <3>3, <4>1 DEF EndsAll, InForce
    <3> QED
      BY <3>1, <3>2, <3>3 DEF InForce
  <2> QED
    BY <2>1, <2>2
<1>7. /\ req'[p].pc = "deleteRoles" /\ req'[p].id = req[p].id /\ quota' = NewQuota(p)
  <2>1. req'[p] = [req[p] EXCEPT !.pc = "deleteRoles"]
    BY DEF WebhookSettle, Goto, IInv, TypeOK
  <2> QED
    BY <1>0, <2>1 DEF Request, WebhookSettle
<1> QED
  BY <1>0, <1>4, <1>5, <1>6, <1>7 DEF Replaces, Used

LEMMA OrderSteps ==
  ASSUME IInv, OneOK, [Next]_vars
  PROVE  OrdersKept \/ \E p \in Procs : \E o \in OrderId : Replaces(p, o)
<1>0. \A i \in OrderId : ~Used(i) => order[i].user = None
  BY DEF OneOK, FreeIsNobodys
<1>1. CASE UNCHANGED rowVars
  BY <1>0, <1>1, SameOrders
<1>2. CASE \E p \in Procs : Commit(p) \/ WebhookSettle(p)
  BY <1>2, CommitReplaces, SettleReplaces
<1>3. ASSUME NEW p \in Procs, CreateByBanking(p) PROVE OrdersKept
  <2>1. PICK o \in OrderId :
          /\ Fresh(o)
          /\ order' = [CancelSeen(p) EXCEPT ![o] = NewOrder(p, "SEPAY", "PENDING", "PENDING")]
    BY <1>3 DEF CreateByBanking
  <2>2. DOMAIN CancelSeen(p) = OrderId
    BY DEF CancelSeen
  <2>3. order'[o].status = "PENDING"
    BY <2>1, <2>2 DEF NewOrder
  <2>4. OrderKept(o)
    BY <2>1, <2>3 DEF OrderKept, Fresh, Used, InForce
  <2>5. ASSUME NEW i \in OrderId, i # o PROVE OrderKept(i)
    <3>1. order'[i] = CancelSeen(p)[i]
      BY <2>1, <2>2, <2>5
    <3> QED
      BY <1>0, <3>1, CancelKept DEF OrderKept, Used, InForce
  <2> QED
    BY <1>3, <2>4, <2>5 DEF OrdersKept, CreateByBanking
<1>4. ASSUME NEW o \in OrderId, FallDue(o) PROVE OrdersKept
  <2>1. \A i \in OrderId : order[i] \in Order
    BY DEF IInv, TypeOK
  <2>2. order' = [order EXCEPT ![o].due = TRUE] /\ quota' = quota
    BY <1>4 DEF FallDue
  <2>3. \A i \in OrderId : /\ order'[i].status = order[i].status /\ order'[i].user = order[i].user
                           /\ order'[i].package = order[i].package
    BY <2>1, <2>2 DEF IInv, TypeOK, Order
  <2> QED
    BY <1>0, <2>2, <2>3 DEF OrdersKept, OrderKept, Used, InForce
<1>5. ASSUME NEW o \in OrderId, NEW st \in Decisions, DecideTransaction(o, st) PROVE OrdersKept
  <2>1. \A i \in OrderId : order[i] \in Order
    BY DEF IInv, TypeOK
  <2>2. order' = [order EXCEPT ![o].tx = st] /\ quota' = quota
    BY <1>5 DEF DecideTransaction
  <2>3. \A i \in OrderId : /\ order'[i].status = order[i].status /\ order'[i].user = order[i].user
                           /\ order'[i].package = order[i].package
    BY <2>1, <2>2 DEF IInv, TypeOK, Order
  <2> QED
    BY <1>0, <2>2, <2>3 DEF OrdersKept, OrderKept, Used, InForce
<1>6. CASE CronDeactivate
  <2>1. order' = WithExpired(order, cron.due) /\ quota' = quota
    BY <1>6 DEF CronDeactivate
  <2>2. ASSUME NEW i \in OrderId PROVE OrderKept(i)
    <3>1. order[i] \in Order
      BY DEF IInv, TypeOK
    <3>2. order'[i] = order[i] \/ order'[i] = [order[i] EXCEPT !.status = "EXPIRE"]
      BY <2>1 DEF WithExpired
    <3>3. /\ order'[i].status = order[i].status \/ order'[i].status = "EXPIRE"
          /\ order'[i].user = order[i].user /\ order'[i].package = order[i].package
      BY <3>1, <3>2 DEF Order
    <3> QED
      BY <1>0, <3>3 DEF OrderKept, Used, InForce
  <2> QED
    BY <2>1, <2>2 DEF OrdersKept
<1>7. CASE \/ \E p \in Procs : \/ Arrive(p) \/ FailRequest(p)
                               \/ FindPending(p) \/ CheckWallet(p) \/ CancelPending(p) \/ Deactivate(p)
                               \/ WebhookBegin(p) \/ DeleteRoles(p) \/ AddRole(p) \/ Restore(p)
           \/ \E u \in Users : RestorePhotoVisibility(u) \/ DropRole(u)
           \/ \E o \in OrderId, exact \in BOOLEAN : Transfer(o, exact)
           \/ CronRead \/ CronHide \/ CronDisable \/ Restart \/ UNCHANGED vars
  <2>1. UNCHANGED rowVars
    BY <1>7 DEF Arrive, RequestUpgrade, WebhookRead, FailRequest, FindPending, CheckWallet,
       CancelPending, Deactivate, WebhookBegin, DeleteRoles, AddRole, Restore,
       RestorePhotoVisibility, DropRole, Transfer, CronRead, CronHide, CronDisable, Restart,
       vars, rowVars
  <2> QED
    BY <1>1, <2>1
<1> QED
  BY <1>2, <1>3, <1>4, <1>5, <1>6, <1>7 DEF Next, Step, CronStep

\* What a request knows of its user's orders stays true while nobody else brings
\* one of them into force.
LEMMA EndsAllKept ==
  ASSUME IInv, OneOK, NEW q \in Procs, RequestStep(q),
         \A i \in OrderId : Used(i) =>
           order'[i].user = order[i].user /\ order'[i].package = order[i].package,
         \A i \in OrderId : InForce(i)' /\ order'[i].user = req[q].user =>
           InForce(i) /\ order[i].user = req[q].user
  PROVE  EndsAll(q)'
<1>0. EndsAll(q) /\ req[q] \in Request
  BY DEF OneOK, IInv, TypeOK
<1>1. OrdersOf(req[q].user, "ACTIVE") = {o \in OrderId : InForce(o) /\ order[o].user = req[q].user}
  BY DEF OrdersOf, InForce
<1>2. req'[q].user = req[q].user =>
        OrdersOf(req[q].user, "ACTIVE")' \subseteq OrdersOf(req[q].user, "ACTIVE")
  <2> SUFFICES ASSUME req'[q].user = req[q].user, NEW i \in OrderId,
                      InForce(i)', order'[i].user = req[q].user
               PROVE  i \in OrdersOf(req[q].user, "ACTIVE")
    BY DEF OrdersOf, InForce
  <2> QED
    BY <1>1
<1>3. req[q].id # 0 => /\ order'[req[q].id].user = req[q].user
                       /\ order'[req[q].id].package = req[q].package
  <2> SUFFICES ASSUME req[q].id # 0
               PROVE  /\ order'[req[q].id].user = req[q].user
                      /\ order'[req[q].id].package = req[q].package
    OBVIOUS
  <2>1. PICK o \in OrderId : o = req[q].id
    BY <1>0 DEF Request
  <2>2. order[o].user \in Users
    BY <2>1 DEF IInv, RequestsOK, RequestOK, Filled
  <2>3. Used(o)
    BY <2>2, UpgradeAssumption DEF OneOK, FreeIsNobodys
  <2> QED
    BY <1>0, <2>1, <2>3 DEF EndsAll
<1>4. CASE req'[q] = Idle
  BY <1>4 DEF Idle, EndsAll, WalletUpgrade
<1>5. CASE BeginsAt(q)
  <2>1. CASE req'[q].pc = "findPending" /\ req'[q].id = 0
    BY <2>1 DEF EndsAll, WalletUpgrade
  <2>2. CASE /\ req'[q].pc = "beginSettle" /\ order' = order
             /\ req'[q].id \in OrderId /\ Used(req'[q].id)
             /\ order[req'[q].id].user = req'[q].user
             /\ order[req'[q].id].package = req'[q].package
    <3>1. req'[q].id # 0
      BY <2>2, UpgradeAssumption DEF OrderId
    <3> QED
      BY <2>2, <3>1 DEF EndsAll, WalletUpgrade
  <2> QED
    BY <1>5, <2>1, <2>2 DEF BeginsAt
<1>6. CASE req'[q] = req[q]
  BY <1>0, <1>2, <1>3, <1>6 DEF EndsAll
<1>7. CASE GoesOn(q)
  BY <1>0, <1>2, <1>3, <1>7 DEF EndsAll, GoesOn, SameRequest, OrdersOf, WalletUpgrade
<1> QED
  BY <1>4, <1>5, <1>6, <1>7 DEF RequestStep

LEMMA OneNext ==
  ASSUME IInv, OneOK, OneAtATime, [Next]_vars
  PROVE  OneOK'
<1>0. /\ \A q \in Procs : RequestStep(q) /\ EndsAll(q) /\ RequestOK(q)
      /\ FreeIsNobodys /\ OneInForce /\ QuotaInForce
  BY RequestSteps DEF OneOK, IInv, RequestsOK
<1>1. CASE OrdersKept
  <2>1. FreeIsNobodys' /\ OneInForce' /\ QuotaInForce'
    BY <1>0, <1>1 DEF OrdersKept, OrderKept, FreeIsNobodys, OneInForce, QuotaInForce, InForce, Used
  <2>2. \A q \in Procs : EndsAll(q)'
    <3> SUFFICES ASSUME NEW q \in Procs PROVE EndsAll(q)'
      OBVIOUS
    <3>1. \A i \in OrderId : Used(i) =>
            order'[i].user = order[i].user /\ order'[i].package = order[i].package
      BY <1>1 DEF OrdersKept, OrderKept
    <3>2. \A i \in OrderId : InForce(i)' => InForce(i) /\ order'[i].user = order[i].user
      BY <1>1, <3>1 DEF OrdersKept, OrderKept, InForce, Used
    <3> QED
      BY <1>0, <3>1, <3>2, EndsAllKept
  <2> QED
    BY <2>1, <2>2 DEF OneOK
<1>2. ASSUME NEW p \in Procs, NEW o \in OrderId, Replaces(p, o) PROVE OneOK'
  <2>1. /\ order'[o].user = req[p].user /\ order'[o].package = req[p].package
        /\ quota' = NewQuota(p) /\ Used(o)'
        /\ \A i \in OrderId : i # o => OrderKept(i)
        /\ \A i \in OrderId : i # o /\ InForce(i)' => order'[i].user # req[p].user
    BY <1>2 DEF Replaces
  <2>2. \A i \in OrderId : Used(i) =>
          order'[i].user = order[i].user /\ order'[i].package = order[i].package
    BY <1>2 DEF Replaces, OrderKept
  <2>3. \A i \in OrderId : i # o /\ InForce(i)' =>
          /\ InForce(i) /\ order'[i].user = order[i].user /\ order'[i].package = order[i].package
          /\ order'[i].user # req[p].user
    BY <2>1, <2>2 DEF OrderKept, InForce, Used
  <2>4. FreeIsNobodys'
    BY <2>1 DEF FreeIsNobodys, OrderKept
  <2>5. OneInForce'
    BY <1>0, <2>1, <2>3 DEF OneInForce
  <2>6. req[p].user \in Users /\ req[p].user # None
    <3>1. req[p].pc # "idle"
      BY <1>2 DEF Replaces
    <3> QED
      BY <1>0, <3>1, UpgradeAssumption DEF RequestOK
  <2>7. QuotaInForce'
    <3>1. quota'[req[p].user] = Level[req[p].package]
      BY <2>1, <2>6 DEF NewQuota, IInv, TypeOK
    <3>2. \A u : u # req[p].user => quota'[u] = quota[u]
      BY <2>1 DEF NewQuota, IInv, TypeOK
    <3> QED
      BY <1>0, <2>1, <2>3, <3>1, <3>2 DEF QuotaInForce
  <2>8. ASSUME NEW q \in Procs PROVE EndsAll(q)'
    <3>1. CASE q = p
      <4>1. /\ req'[p].pc \in {"idle", "deleteRoles"}
            /\ req'[p].pc = "deleteRoles" => req'[p].id # 0
        BY <1>2 DEF Replaces
      <4>2. req'[p].id # 0 => /\ order'[req'[p].id].user = req'[p].user
                              /\ order'[req'[p].id].package = req'[p].package
        <5> SUFFICES ASSUME req'[p].id # 0
                     PROVE  /\ order'[req'[p].id].user = req'[p].user
                            /\ order'[req'[p].id].package = req'[p].package
          OBVIOUS
        <5>1. SameRequest(p)
          BY <1>0, <4>1 DEF RequestStep, Idle, BeginsAt, GoesOn, SameRequest
        <5>2. PICK i \in OrderId : i = req[p].id
          BY <5>1 DEF SameRequest, IInv, TypeOK, Request
        <5>3. order[i].user = req[p].user /\ order[i].package = req[p].package
          BY <1>0, <5>1, <5>2 DEF SameRequest, EndsAll
        <5>4. Used(i)
          BY <1>0, <2>6, <5>3 DEF FreeIsNobodys
        <5> QED
          BY <2>2, <5>1, <5>2, <5>3, <5>4 DEF SameRequest
      <4> QED
        BY <3>1, <4>1, <4>2 DEF EndsAll, WalletUpgrade
    <3>2. CASE q # p
      <4>1. req[q].user # req[p].user
        BY <2>6, <3>2 DEF OneAtATime
      <4>2. \A i \in OrderId : InForce(i)' /\ order'[i].user = req[q].user =>
              InForce(i) /\ order[i].user = req[q].user
        BY <2>1, <2>3, <4>1
      <4> QED
        BY <1>0, <2>2, <4>2, EndsAllKept
    <3> QED
      BY <3>1, <3>2
  <2> QED
    BY <2>4, <2>5, <2>7, <2>8 DEF OneOK
<1> QED
  BY <1>1, <1>2, OrderSteps

LEMMA OneInvariance == Spec /\ []OneAtATime => [](IInv /\ OneOK)
  BY InitIInv, StepIInv, OneInit, OneNext, PTL DEF Spec

LEMMA AtMostOne ==
  ASSUME NEW S, \A x, y \in S : x = y PROVE Cardinality(S) <= 1
<1>1. CASE S = {}
  BY <1>1, FS_EmptySet
<1>2. CASE S # {}
  <2>1. PICK x : S = {x}
    BY <1>2
  <2> QED
    BY <2>1, FS_Singleton
<1> QED
  BY <1>1, <1>2

\* A user has one order in force at most, however purchases, deliveries, managers
\* and the expiry cron interleave, as long as no two requests of that user do.
THEOREM OneOrderInForce == Spec /\ []OneAtATime => []OneActiveOrder
<1>1. OneOK => OneActiveOrder
  <2> SUFFICES ASSUME OneOK, NEW u \in Users
               PROVE  Cardinality(OrdersOf(u, "ACTIVE")) <= 1
    BY DEF OneActiveOrder
  <2>1. \A x, y \in OrdersOf(u, "ACTIVE") : x = y
    BY DEF OneOK, OneInForce, InForce, OrdersOf
  <2> QED
    BY <2>1, AtMostOne
<1> QED
  BY <1>1, OneInvariance, PTL

\* Under the same condition the quota is the one of the order in force.
THEOREM QuotaFollowsOrder == Spec /\ []OneAtATime => []QuotaOfActive
<1>1. OneOK => QuotaOfActive
  BY DEF OneOK, QuotaInForce, InForce, OrdersOf, QuotaOfActive
<1> QED
  BY <1>1, OneInvariance, PTL

-----------------------------------------------------------------------------
(***************************************************************************)
(* What the cron expires has been withdrawn, in every interleaving: the    *)
(* invariant.                                                              *)
(***************************************************************************)

\* The orders of a user that the cron will expire.
Over(u) == {o \in OrderId : Expirable(o) /\ order[o].user = u}

Committing(u) == \E p \in Procs : At(p, "commit") /\ req[p].user = u

\* An order that is due was settled for good: no delivery that is still to come, and none in
\* flight, brings it into force again.
DueOK ==
  /\ \A o \in OrderId : order[o].due => Used(o) /\ order[o].tx # "PENDING"
  /\ \A o \in cron.due : order[o].due

\* An upgrade in flight ends the orders of its user that are due, since none falls due meanwhile:
\* a wallet upgrade at its commit, a delivery before it queues the restore job.
FlightOK(p) ==
  /\ req[p].id # 0 => Used(req[p].id) /\ order[req[p].id].user = req[p].user
  /\ req[p].pc \in {"beginSettle", "settle"} => req[p].id # 0 /\ ~order[req[p].id].due
  /\ req[p].pc \in WalletUpgrade => req[p].id = 0
  /\ req[p].pc \in {"deactivate", "deleteRoles", "addRole", "restore", "commit"} /\ req[p].id = 0
       => Over(req[p].user) \subseteq req[p].active \cup req[p].seen
  /\ req[p].pc = "settle" => Over(req[p].user) \subseteq req[p].active
  /\ req[p].pc \in {"deleteRoles", "addRole", "restore"} /\ req[p].id # 0 => Over(req[p].user) = {}

FlightsOK == \A p \in Procs : FlightOK(p)

\* A restore job of a user with an order that is due belongs to an upgrade that holds its row.
RestoresOK == \A u \in jobs : Over(u) = {} \/ Committing(u)

TakenOK ==
  \A o \in cron.due : Expirable(o) =>
    /\ cron.pc \in {"disable", "deactivate"}
         => "photos" \in withdrawn[order[o].user] \/ Committing(order[o].user)
    /\ cron.pc = "deactivate" => "packages" \in withdrawn[order[o].user]

WithdrawnOK == DueOK /\ FlightsOK /\ (failures = 0 => RestoresOK /\ TakenOK)

LEMMA WithdrawnInit == Init => WithdrawnOK
BY DEF Init, WithdrawnOK, DueOK, FlightsOK, FlightOK, RestoresOK, TakenOK, FreeOrder, Idle, CronIdle, WalletUpgrade

\* What every step but FallDue makes of an order.
RowStep(i) ==
  /\ Used(i) => Used(i)' /\ order'[i].user = order[i].user /\ order'[i].due = order[i].due
  /\ ~Used(i) => ~order'[i].due
  /\ order'[i].due => order'[i].tx # "PENDING"
  /\ Expirable(i)' => Expirable(i)
RowsStep == \A i \in OrderId : RowStep(i)

LEMMA SameRows == ASSUME DueOK, order' = order PROVE RowsStep
BY DEF DueOK, RowsStep, RowStep, Used, Expirable

LEMMA OverShrinks ==
  ASSUME RowsStep, NEW u
  PROVE  /\ \A o \in OrderId : Expirable(o)' /\ order'[o].user = u => o \in Over(u)
         /\ {o \in OrderId : Expirable(o)' /\ order'[o].user = u} \subseteq Over(u)
<1> SUFFICES ASSUME NEW o \in OrderId, Expirable(o)', order'[o].user = u PROVE o \in Over(u)
  OBVIOUS
<1>1. Expirable(o)
  BY DEF RowsStep, RowStep
<1>2. Used(o)
  BY <1>1 DEF Expirable, Used
<1> QED
  BY <1>1, <1>2 DEF RowsStep, RowStep, Over

LEMMA DueKept ==
  ASSUME IInv, DueOK, RowsStep, cron'.due \subseteq cron.due
  PROVE  DueOK'
<1>1. ASSUME NEW o \in OrderId, order'[o].due PROVE Used(o)' /\ order'[o].tx # "PENDING"
  BY <1>1 DEF RowsStep, RowStep
<1>2. ASSUME NEW o \in cron'.due PROVE order'[o].due
  <2>1. o \in cron.due /\ o \in OrderId
    BY <1>2 DEF IInv, TypeOK
  <2>2. order[o].due /\ Used(o)
    BY <2>1 DEF DueOK
  <2> QED
    BY <2>1, <2>2 DEF RowsStep, RowStep
<1> QED
  BY <1>1, <1>2 DEF DueOK

LEMMA FlightKept ==
  ASSUME IInv, FlightsOK, RowsStep, NEW q \in Procs, req'[q] = req[q]
  PROVE  FlightOK(q)'
<1>1. FlightOK(q) /\ req[q] \in Request
  BY DEF FlightsOK, IInv, TypeOK
<1>2. Over(req[q].user)' \subseteq Over(req[q].user)
  BY OverShrinks DEF Over
<1>3. req[q].id # 0 => req[q].id \in OrderId /\ RowStep(req[q].id)
  BY <1>1 DEF Request, RowsStep
<1>4. req[q].id # 0 => Used(req[q].id)' /\ order'[req[q].id].user = req[q].user
  BY <1>1, <1>3 DEF FlightOK, RowStep
<1>5. req[q].pc \in {"beginSettle", "settle"} => req[q].id # 0 /\ ~order'[req[q].id].due
  BY <1>1, <1>3 DEF FlightOK, RowStep
<1>6. req[q].pc = "settle" => Over(req[q].user)' \subseteq req[q].active
  BY <1>1, <1>2 DEF FlightOK
<1>7. req[q].pc \in {"deactivate", "deleteRoles", "addRole", "restore", "commit"} /\ req[q].id = 0
       => Over(req[q].user)' \subseteq req[q].active \cup req[q].seen
  BY <1>1, <1>2 DEF FlightOK
<1>8. req[q].pc \in {"deleteRoles", "addRole", "restore"} /\ req[q].id # 0 => Over(req[q].user)' = {}
  BY <1>1, <1>2 DEF FlightOK
<1> QED
  BY <1>1, <1>4, <1>5, <1>6, <1>7, <1>8 DEF FlightOK

LEMMA IdleFlight == ASSUME NEW q \in Procs, req'[q] = Idle PROVE FlightOK(q)'
BY DEF Idle, FlightOK, WalletUpgrade

\* Others are not disturbed by a step of one request.
LEMMA OtherFlights ==
  ASSUME IInv, FlightsOK, RowsStep, NEW p \in Procs, NEW r, req' = [req EXCEPT ![p] = r], FlightOK(p)'
  PROVE  FlightsOK'
<1> SUFFICES ASSUME NEW q \in Procs PROVE FlightOK(q)'
  BY DEF FlightsOK
<1>1. CASE q = p
  BY <1>1
<1>2. CASE q # p
  <2>1. req'[q] = req[q]
    BY <1>2 DEF IInv, TypeOK
  <2> QED
    BY <2>1, FlightKept
<1> QED
  BY <1>1, <1>2

\* Upgrades at their commit stay there, but for those that leave their user no order that is due.
CommitsKept ==
  \A q \in Procs : At(q, "commit") =>
    req'[q] = req[q] \/ \A o \in OrderId : Expirable(o)' => order'[o].user # req[q].user

LEMMA CommittingKept ==
  ASSUME CommitsKept, NEW o \in OrderId, Expirable(o)', Committing(order'[o].user)
  PROVE  Committing(order[o].user)'
<1>1. PICK q \in Procs : At(q, "commit") /\ req[q].user = order'[o].user
  BY DEF Committing
<1>2. req'[q] = req[q]
  BY <1>1 DEF CommitsKept
<1> QED
  BY <1>1, <1>2 DEF Committing, At

LEMMA RestoresKept ==
  ASSUME RestoresOK, RowsStep, CommitsKept, jobs' \subseteq jobs
  PROVE  RestoresOK'
<1> SUFFICES ASSUME NEW u \in jobs', NEW o \in OrderId, Expirable(o)', order'[o].user = u
             PROVE  Committing(u)'
  BY DEF RestoresOK, Over
<1>1. o \in Over(u)
  BY OverShrinks
<1>2. Committing(u)
  BY <1>1 DEF RestoresOK
<1>3. Committing(order[o].user)'
  BY <1>2, CommittingKept
<1> QED
  BY <1>3 DEF Committing

\* A step that touches neither photos nor packages.
LEMMA QuietStep ==
  ASSUME IInv, WithdrawnOK, RowsStep, FlightsOK', CommitsKept, UNCHANGED <<withdrawn, jobs, cron, failures>>
  PROVE  WithdrawnOK'
<1>1. DueOK'
  BY DueKept DEF WithdrawnOK
<1>2. ASSUME failures = 0 PROVE RestoresOK' /\ TakenOK'
  <2>1. RestoresOK /\ TakenOK
    BY <1>2 DEF WithdrawnOK
  <2>2. RestoresOK'
    BY <2>1, RestoresKept
  <2>3. ASSUME NEW o \in cron.due, Expirable(o)'
        PROVE  /\ cron.pc \in {"disable", "deactivate"}
                    => "photos" \in withdrawn[order'[o].user] \/ Committing(order[o].user)'
               /\ cron.pc = "deactivate" => "packages" \in withdrawn[order'[o].user]
    <3>1. o \in OrderId /\ RowStep(o)
      BY DEF IInv, TypeOK, RowsStep
    <3>2. Expirable(o) /\ order'[o].user = order[o].user
      BY <2>3, <3>1 DEF RowStep, Expirable, Used
    <3>3. Committing(order'[o].user) => Committing(order[o].user)'
      BY <2>3, <3>1, CommittingKept
    <3> QED
      BY <2>1, <3>2, <3>3 DEF TakenOK
  <2> QED
    BY <2>2, <2>3 DEF TakenOK
<1> QED
  BY <1>1, <1>2 DEF WithdrawnOK


\* Orders that are replaced, and the one that is made.
LEMMA NewRow ==
  ASSUME IInv, DueOK, NEW p \in Procs, NEW o \in OrderId, Fresh(o), NEW rows,
         \A i \in OrderId : \/ rows[i] = order[i]
                            \/ rows[i] = [order[i] EXCEPT !.status = "CANCEL", !.tx = "CANCEL"]
                            \/ rows[i] = [order[i] EXCEPT !.status = "EXPIRE"],
         rows = [i \in OrderId |-> rows[i]],
         NEW method, NEW st, NEW t, order' = [rows EXCEPT ![o] = NewOrder(p, method, st, t)]
  PROVE  RowsStep
<1> SUFFICES ASSUME NEW i \in OrderId PROVE RowStep(i)
  BY DEF RowsStep
<1>1. order[i] \in Order /\ (order[i].due => Used(i) /\ order[i].tx # "PENDING")
  BY DEF IInv, TypeOK, DueOK
<1>2. CASE i = o
  <2>1. order'[i] = NewOrder(p, method, st, t)
    BY <1>2
  <2>2. NewOrder(p, method, st, t).due = FALSE
    BY DEF NewOrder
  <2>3. ~order'[i].due /\ ~Used(i)
    BY <1>2, <2>1, <2>2 DEF Fresh
  <2>4. ~Expirable(i)'
    BY <2>3 DEF Expirable
  <2> QED
    BY <2>3, <2>4, Zenon DEF RowStep
<1>3. CASE i # o
  <2>1. order'[i] = rows[i]
    BY <1>3
  <2>2. PICK x : x = order[i]
    OBVIOUS
  <2>3. CASE rows[i] = x
    BY <1>1, <2>1, <2>2, <2>3 DEF RowStep, Expirable, Used
  <2>4. CASE rows[i] = [x EXCEPT !.status = "CANCEL", !.tx = "CANCEL"]
    <3>1. /\ rows[i].user = x.user /\ rows[i].due = x.due /\ rows[i].status = "CANCEL" /\ rows[i].tx = "CANCEL"
      BY <1>1, <2>2, <2>4 DEF Order
    <3> QED
      BY <1>1, <2>1, <2>2, <3>1 DEF RowStep, Expirable, Used
  <2>5. CASE rows[i] = [x EXCEPT !.status = "EXPIRE"]
    <3>1. /\ rows[i].user = x.user /\ rows[i].due = x.due /\ rows[i].status = "EXPIRE" /\ rows[i].tx = x.tx
      BY <1>1, <2>2, <2>5 DEF Order
    <3> QED
      BY <1>1, <2>1, <2>2, <3>1 DEF RowStep, Expirable, Used
  <2> QED
    BY <2>2, <2>3, <2>4, <2>5
<1> QED
  BY <1>2, <1>3

LEMMA CreateRows ==
  ASSUME IInv, DueOK, NEW p \in Procs, CreateByBanking(p)
  PROVE  RowsStep
<1>1. PICK o \in OrderId : Fresh(o) /\ order' = [CancelSeen(p) EXCEPT ![o] = NewOrder(p, "SEPAY", "PENDING", "PENDING")]
  BY DEF CreateByBanking
<1>2. PICK rows : rows = CancelSeen(p)
  OBVIOUS
<1>3. rows = [i \in OrderId |-> rows[i]]
  BY <1>2 DEF CancelSeen
<1>4. \A i \in OrderId : \/ rows[i] = order[i]
                         \/ rows[i] = [order[i] EXCEPT !.status = "CANCEL", !.tx = "CANCEL"]
  BY <1>2 DEF CancelSeen
<1> QED
  BY <1>1, <1>2, <1>3, <1>4, NewRow

\* A commit, and that no order of the user that is due stays in force.
LEMMA CommitRows ==
  ASSUME IInv, DueOK, NEW p \in Procs, Commit(p)
  PROVE  /\ RowsStep
         /\ \A i \in OrderId : Expirable(i)' => i \notin req[p].active \cup req[p].seen
<1>1. PICK o \in OrderId : /\ Fresh(o)
                           /\ order' = [WithExpired(CancelSeen(p), req[p].active) EXCEPT
                                          ![o] = NewOrder(p, "WALLET", "ACTIVE", "SUCCESS")]
  BY DEF Commit
<1>2. PICK rows : rows = WithExpired(CancelSeen(p), req[p].active)
  OBVIOUS
<1>3. rows = [i \in OrderId |-> rows[i]]
  BY <1>2 DEF WithExpired
<1>4. ASSUME NEW i \in OrderId
      PROVE  /\ \/ rows[i] = order[i]
                \/ rows[i] = [order[i] EXCEPT !.status = "CANCEL", !.tx = "CANCEL"]
                \/ rows[i] = [order[i] EXCEPT !.status = "EXPIRE"]
             /\ i \in req[p].active \cup req[p].seen => rows[i].status # "ACTIVE"
  <2>1. PICK x : x = CancelSeen(p)[i]
    OBVIOUS
  <2>2. rows[i] = IF i \in req[p].active /\ x.status = "ACTIVE" THEN [x EXCEPT !.status = "EXPIRE"] ELSE x
    BY <1>2, <2>1 DEF WithExpired
  <2>3. order[i] \in Order
    BY DEF IInv, TypeOK
  <2>4. CASE i \in req[p].seen
    <3>1. x = [order[i] EXCEPT !.status = "CANCEL", !.tx = "CANCEL"]
      BY <2>1, <2>4 DEF CancelSeen
    <3>2. x.status = "CANCEL"
      BY <2>3, <3>1 DEF Order
    <3>3. rows[i] = x
      BY <2>2, <3>2
    <3> QED
      BY <3>1, <3>2, <3>3
  <2>5. CASE i \notin req[p].seen
    <3>1. x = order[i]
      BY <2>1, <2>5 DEF CancelSeen
    <3>2. CASE i \in req[p].active /\ x.status = "ACTIVE"
      <4>1. rows[i] = [order[i] EXCEPT !.status = "EXPIRE"]
        BY <2>2, <3>1, <3>2
      <4>2. rows[i].status = "EXPIRE"
        BY <2>3, <4>1 DEF Order
      <4> QED
        BY <4>1, <4>2
    <3>3. CASE ~(i \in req[p].active /\ x.status = "ACTIVE")
      BY <2>2, <2>5, <3>1, <3>3
    <3> QED
      BY <3>2, <3>3
  <2> QED
    BY <2>4, <2>5
<1>5. RowsStep
  BY <1>1, <1>2, <1>3, <1>4, NewRow
<1>6. ASSUME NEW i \in OrderId, Expirable(i)' PROVE i \notin req[p].active \cup req[p].seen
  <2>1. CASE i = o
    <3>1. order'[i] = NewOrder(p, "WALLET", "ACTIVE", "SUCCESS")
      BY <1>1, <1>2, <1>3, <2>1
    <3>2. order'[i].due = FALSE
      BY <3>1 DEF NewOrder
    <3> QED
      BY <1>6, <3>2 DEF Expirable
  <2>2. CASE i # o
    <3>1. order'[i] = rows[i]
      BY <1>1, <1>2, <1>3, <2>2
    <3> QED
      BY <1>4, <1>6, <3>1 DEF Expirable
  <2> QED
    BY <2>1, <2>2
<1> QED
  BY <1>5, <1>6

LEMMA SettleRows ==
  ASSUME IInv, DueOK, NEW p \in Procs, FlightOK(p), WebhookSettle(p)
  PROVE  /\ RowsStep
         /\ \A i \in OrderId : Expirable(i)' => i \notin req[p].active
<1>1. PICK o \in OrderId : o = req[p].id /\ Used(o) /\ ~order[o].due
  BY DEF FlightOK, WebhookSettle, At, IInv, TypeOK, Request
<1>2. order' = [i \in OrderId |->
                  IF i = o THEN [order[o] EXCEPT !.status = "ACTIVE", !.tx = "SUCCESS"]
                  ELSE IF i \in req[p].active /\ order[i].status = "ACTIVE"
                  THEN [order[i] EXCEPT !.status = "CANCEL"] ELSE order[i]]
  BY <1>1 DEF WebhookSettle
<1>3. ASSUME NEW i \in OrderId
      PROVE  RowStep(i) /\ (Expirable(i)' => i \notin req[p].active)
  <2>1. order[i] \in Order /\ (order[i].due => Used(i) /\ order[i].tx # "PENDING")
    BY DEF IInv, TypeOK, DueOK
  <2>2. CASE i = o
    <3>1. order'[i] = [order[i] EXCEPT !.status = "ACTIVE", !.tx = "SUCCESS"]
      BY <1>2, <2>2
    <3>2. /\ order'[i].user = order[i].user /\ order'[i].due = order[i].due
          /\ order'[i].status = "ACTIVE" /\ order'[i].tx = "SUCCESS"
      BY <2>1, <3>1 DEF Order
    <3> QED
      BY <1>1, <2>2, <3>2 DEF RowStep, Expirable, Used
  <2>3. CASE i # o /\ i \in req[p].active /\ order[i].status = "ACTIVE"
    <3>1. order'[i] = [order[i] EXCEPT !.status = "CANCEL"]
      BY <1>2, <2>3
    <3>2. /\ order'[i].user = order[i].user /\ order'[i].due = order[i].due
          /\ order'[i].status = "CANCEL" /\ order'[i].tx = order[i].tx
      BY <2>1, <3>1 DEF Order
    <3> QED
      BY <2>1, <2>3, <3>2 DEF RowStep, Expirable, Used
  <2>4. CASE i # o /\ ~(i \in req[p].active /\ order[i].status = "ACTIVE")
    <3>1. order'[i] = order[i]
      BY <1>2, <2>4
    <3> QED
      BY <2>1, <2>4, <3>1 DEF RowStep, Expirable, Used
  <2> QED
    BY <2>2, <2>3, <2>4
<1> QED
  BY <1>3 DEF RowsStep

LEMMA DecideRows ==
  ASSUME IInv, DueOK, NEW o \in OrderId, NEW st \in Decisions, DecideTransaction(o, st)
  PROVE  RowsStep
<1> SUFFICES ASSUME NEW i \in OrderId PROVE RowStep(i)
  BY DEF RowsStep
<1>1. order[i] \in Order /\ (order[i].due => Used(i) /\ order[i].tx # "PENDING")
  BY DEF IInv, TypeOK, DueOK
<1>2. order[o].tx = "PENDING" /\ order' = [order EXCEPT ![o].tx = st]
  BY DEF DecideTransaction
<1>3. CASE i = o
  <2>1. order'[i] = [order[i] EXCEPT !.tx = st]
    BY <1>2, <1>3 DEF IInv, TypeOK
  <2>2. /\ order'[i].user = order[i].user /\ order'[i].due = order[i].due
        /\ order'[i].status = order[i].status
    BY <1>1, <2>1 DEF Order
  <2> QED
    BY <1>1, <1>2, <1>3, <2>2 DEF RowStep, Expirable, Used
<1>4. CASE i # o
  <2>1. order'[i] = order[i]
    BY <1>2, <1>4 DEF IInv, TypeOK
  <2> QED
    BY <1>1, <2>1 DEF RowStep, Expirable, Used
<1> QED
  BY <1>3, <1>4

LEMMA DeactivateRows == ASSUME IInv, DueOK, CronDeactivate PROVE RowsStep
<1> SUFFICES ASSUME NEW i \in OrderId PROVE RowStep(i)
  BY DEF RowsStep
<1>1. order[i] \in Order /\ (order[i].due => Used(i) /\ order[i].tx # "PENDING")
  BY DEF IInv, TypeOK, DueOK
<1>2. order'[i] = IF i \in cron.due /\ order[i].status = "ACTIVE" THEN [order[i] EXCEPT !.status = "EXPIRE"] ELSE order[i]
  BY DEF CronDeactivate, WithExpired
<1>3. CASE i \in cron.due /\ order[i].status = "ACTIVE"
  <2>1. order'[i] = [order[i] EXCEPT !.status = "EXPIRE"]
    BY <1>2, <1>3
  <2>2. /\ order'[i].user = order[i].user /\ order'[i].due = order[i].due
        /\ order'[i].status = "EXPIRE" /\ order'[i].tx = order[i].tx
    BY <1>1, <2>1 DEF Order
  <2> QED
    BY <1>1, <1>3, <2>2 DEF RowStep, Expirable, Used
<1>4. CASE ~(i \in cron.due /\ order[i].status = "ACTIVE")
  <2>1. order'[i] = order[i]
    BY <1>2, <1>4
  <2> QED
    BY <1>1, <2>1 DEF RowStep, Expirable, Used
<1> QED
  BY <1>3, <1>4

\* Requests that write no orders.
LEMMA RequestFlight ==
  ASSUME IInv, DueOK, FlightsOK, NEW p \in Procs, order' = order,
         \/ \E u \in Users, k \in Packages : RequestUpgrade(p, u, k)
         \/ \E t \in transfers : WebhookRead(p, t)
  PROVE  FlightsOK'
<1>0. RowsStep
  BY SameRows
<1>1. ASSUME NEW u \in Users, NEW k \in Packages, RequestUpgrade(p, u, k) PROVE FlightsOK'
  <2>1. PICK r : r = [Idle EXCEPT !.pc = "findPending", !.user = u, !.package = k]
    OBVIOUS
  <2>2. req' = [req EXCEPT ![p] = r]
    BY <1>1, <2>1 DEF RequestUpgrade, Begin
  <2>3. req'[p] = r /\ r.pc = "findPending" /\ r.id = 0
    BY <2>1, <2>2 DEF IInv, TypeOK, Idle
  <2>4. FlightOK(p)'
    BY <2>3 DEF FlightOK
  <2> QED
    BY <1>0, <2>2, <2>4, OtherFlights
<1>2. ASSUME NEW t \in transfers, WebhookRead(p, t) PROVE FlightsOK'
  <2>1. PICK r : r = [Idle EXCEPT !.pc = "beginSettle", !.id = t.id, !.user = order[t.id].user,
                                  !.package = order[t.id].package]
    OBVIOUS
  <2>2. req' = [req EXCEPT ![p] = r]
    BY <1>2, <2>1 DEF WebhookRead, Begin
  <2>3. r.pc = "beginSettle" /\ r.id = t.id /\ r.user = order[t.id].user
    BY <2>1 DEF Idle
  <2>4. req'[p] = r
    BY <2>2 DEF IInv, TypeOK
  <2>5. t.id \in OrderId /\ t.id # 0 /\ Used(t.id) /\ ~order[t.id].due
    <3>1. t.id \in OrderId
      BY DEF IInv, TypeOK
    <3>2. t.id # 0
      BY <3>1, UpgradeAssumption DEF OrderId
    <3>3. Used(t.id) /\ order[t.id].tx = "PENDING"
      BY <1>2 DEF WebhookRead
    <3> QED
      BY <3>1, <3>2, <3>3 DEF DueOK
  <2>6. Used(t.id)'
    BY <2>5 DEF Used
  <2>7. FlightOK(p)'
    BY <2>3, <2>4, <2>5, <2>6 DEF FlightOK, WalletUpgrade
  <2> QED
    BY <1>0, <2>2, <2>7, OtherFlights
<1> QED
  BY <1>1, <1>2

LEMMA FlightGoes ==
  ASSUME IInv, FlightsOK, order' = order, NEW p \in Procs, NEW r, req' = [req EXCEPT ![p] = r],
         r.user = req[p].user, r.id = req[p].id,
         \/ req[p].pc = "findPending" /\ r.pc \in {"checkWallet", "createByBanking"}
         \/ req[p].pc = "checkWallet" /\ r.pc = "cancelPending"
         \/ /\ req[p].pc = "cancelPending" /\ r.pc = "deactivate"
            /\ OrdersOf(r.user, "ACTIVE") \subseteq r.active \cup r.seen
         \/ req[p].pc = "beginSettle" /\ r.pc = "settle" /\ OrdersOf(r.user, "ACTIVE") \subseteq r.active
         \/ /\ r.active = req[p].active /\ r.seen = req[p].seen
            /\ \/ req[p].pc = "deactivate" /\ r.pc = "deleteRoles"
               \/ req[p].pc = "deleteRoles" /\ r.pc = "addRole"
               \/ req[p].pc = "addRole" /\ r.pc = "restore"
               \/ req[p].pc = "restore" /\ r.pc = "commit" /\ r.id = 0,
         RowsStep
  PROVE  FlightsOK'
<1>1. req'[p] = r /\ FlightOK(p) /\ req[p] \in Request
  BY DEF IInv, TypeOK, FlightsOK
<1>2. Over(r.user)' = Over(r.user) /\ Over(r.user) \subseteq OrdersOf(r.user, "ACTIVE")
  BY DEF Over, Expirable, OrdersOf
<1>3. r.id # 0 => Used(r.id)' /\ order'[r.id].user = r.user
  BY <1>1 DEF FlightOK, Used
<1>4. r.pc \in {"beginSettle", "settle"} => r.id # 0 /\ ~order'[r.id].due
  BY <1>1 DEF FlightOK
<1>5. r.pc \in WalletUpgrade => r.id = 0
  BY <1>1 DEF FlightOK, WalletUpgrade
<1>6. r.pc \in {"deactivate", "deleteRoles", "addRole", "restore", "commit"} /\ r.id = 0
        => Over(r.user)' \subseteq r.active \cup r.seen
  BY <1>1, <1>2 DEF FlightOK, WalletUpgrade
<1>7. r.pc = "settle" => Over(r.user)' \subseteq r.active
  BY <1>1, <1>2 DEF FlightOK
<1>8. r.pc \in {"deleteRoles", "addRole", "restore"} /\ r.id # 0 => Over(r.user)' = {}
  BY <1>1, <1>2 DEF FlightOK, WalletUpgrade
<1>9. FlightOK(p)'
  BY <1>1, <1>3, <1>4, <1>5, <1>6, <1>7, <1>8 DEF FlightOK
<1> QED
  BY <1>9, OtherFlights

LEMMA FlightEnds ==
  ASSUME IInv, FlightsOK, RowsStep, NEW p \in Procs, Done(p)
  PROVE  FlightsOK'
<1>1. req' = [req EXCEPT ![p] = Idle] /\ req'[p] = Idle
  BY DEF Done, IInv, TypeOK
<1>2. FlightOK(p)'
  BY <1>1, IdleFlight
<1> QED
  BY <1>1, <1>2, OtherFlights

LEMMA FlightSteps ==
  ASSUME IInv, FlightsOK, order' = order, RowsStep, NEW p \in Procs,
         \/ FindPending(p) \/ CheckWallet(p) \/ CancelPending(p) \/ Deactivate(p) \/ WebhookBegin(p)
         \/ DeleteRoles(p) \/ AddRole(p) \/ Restore(p)
  PROVE  FlightsOK'
<1>0. req[p] \in Request
  BY DEF IInv, TypeOK
<1>1. CASE FindPending(p)
  <2>1. PICK S : S = OrdersOf(req[p].user, "PENDING")
    OBVIOUS
  <2>2. PICK next \in {"checkWallet", "createByBanking"} : req' = [req EXCEPT ![p] = [req[p] EXCEPT !.pc = next, !.seen = S]]
    BY <1>1, <2>1 DEF FindPending
  <2>3. PICK r : r = [req[p] EXCEPT !.pc = next, !.seen = S]
    OBVIOUS
  <2>4. r.user = req[p].user /\ r.id = req[p].id /\ r.pc = next
    BY <1>0, <2>3 DEF Request
  <2> QED
    BY <1>1, <2>2, <2>3, <2>4, FlightGoes DEF FindPending, At
<1>2. CASE CancelPending(p)
  <2>1. PICK S : S = OrdersOf(req[p].user, "ACTIVE")
    OBVIOUS
  <2>2. PICK r : r = [req[p] EXCEPT !.pc = "deactivate", !.active = S \ req[p].seen]
    OBVIOUS
  <2>3. req' = [req EXCEPT ![p] = r]
    BY <1>2, <2>1, <2>2 DEF CancelPending
  <2>4. /\ r.user = req[p].user /\ r.id = req[p].id /\ r.pc = "deactivate"
        /\ r.active = S \ req[p].seen /\ r.seen = req[p].seen
    BY <1>0, <2>2 DEF Request
  <2>5. OrdersOf(r.user, "ACTIVE") \subseteq r.active \cup r.seen
    BY <2>1, <2>4
  <2> QED
    BY <1>2, <2>3, <2>4, <2>5, FlightGoes DEF CancelPending, At
<1>3. CASE WebhookBegin(p)
  <2>1. PICK S : S = OrdersOf(req[p].user, "ACTIVE")
    OBVIOUS
  <2>2. PICK r : r = [req[p] EXCEPT !.pc = "settle", !.active = S]
    OBVIOUS
  <2>3. req' = [req EXCEPT ![p] = r]
    BY <1>3, <2>1, <2>2 DEF WebhookBegin
  <2>4. r.user = req[p].user /\ r.id = req[p].id /\ r.pc = "settle" /\ r.active = S
    BY <1>0, <2>2 DEF Request
  <2>5. OrdersOf(r.user, "ACTIVE") \subseteq r.active
    BY <2>1, <2>4
  <2> QED
    BY <1>3, <2>3, <2>4, <2>5, FlightGoes DEF WebhookBegin, At
<1>4. ASSUME NEW pc, Goto(p, pc),
             \/ req[p].pc = "checkWallet" /\ pc = "cancelPending"
             \/ req[p].pc = "deactivate" /\ pc = "deleteRoles"
             \/ req[p].pc = "deleteRoles" /\ pc = "addRole"
             \/ req[p].pc = "addRole" /\ pc = "restore"
             \/ req[p].pc = "restore" /\ pc = "commit" /\ req[p].id = 0
      PROVE  FlightsOK'
  <2>1. PICK r : r = [req[p] EXCEPT !.pc = pc]
    OBVIOUS
  <2>2. req' = [req EXCEPT ![p] = r]
    BY <1>4, <2>1 DEF Goto
  <2>3. r.user = req[p].user /\ r.id = req[p].id /\ r.pc = pc /\ r.active = req[p].active /\ r.seen = req[p].seen
    BY <1>0, <2>1 DEF Request
  <2> QED
    BY <1>4, <2>2, <2>3, FlightGoes
<1>5. Done(p) => FlightsOK'
  BY FlightEnds
<1>6. CASE CheckWallet(p)
  BY <1>4, <1>5, <1>6 DEF CheckWallet, At
<1>7. CASE Deactivate(p) \/ DeleteRoles(p) \/ AddRole(p)
  BY <1>4, <1>7 DEF Deactivate, DeleteRoles, AddRole, At
<1>8. CASE Restore(p)
  BY <1>4, <1>5, <1>8 DEF Restore, At
<1> QED
  BY <1>1, <1>2, <1>3, <1>6, <1>7, <1>8

LEMMA SettleFlight ==
  ASSUME IInv, WithdrawnOK, NEW p \in Procs, WebhookSettle(p)
  PROVE  RowsStep /\ FlightsOK'
<1>1. FlightOK(p) /\ FlightsOK /\ DueOK /\ req[p] \in Request
  BY DEF WithdrawnOK, FlightsOK, IInv, TypeOK
<1>2. RowsStep /\ \A i \in OrderId : Expirable(i)' => i \notin req[p].active
  BY <1>1, SettleRows
<1>3. PICK r : r = [req[p] EXCEPT !.pc = "deleteRoles"]
  OBVIOUS
<1>4. req' = [req EXCEPT ![p] = r] /\ req[p].pc = "settle"
  BY <1>3 DEF WebhookSettle, Goto, At
<1>5. req'[p] = r /\ r.user = req[p].user /\ r.id = req[p].id /\ r.pc = "deleteRoles"
  BY <1>1, <1>3, <1>4 DEF IInv, TypeOK, Request
<1>6. r.id # 0 /\ r.id \in OrderId /\ Used(r.id) /\ order[r.id].user = r.user /\ Over(r.user) \subseteq req[p].active
  BY <1>1, <1>4, <1>5 DEF FlightOK, Request
<1>7. Used(r.id)' /\ order'[r.id].user = r.user
  BY <1>2, <1>6 DEF RowsStep, RowStep
<1>8. Over(r.user)' = {}
  <2> SUFFICES ASSUME NEW i \in OrderId, Expirable(i)', order'[i].user = r.user PROVE FALSE
    BY <1>5 DEF Over
  <2> QED
    BY <1>2, <1>6, OverShrinks
<1>9. FlightOK(p)'
  BY <1>5, <1>6, <1>7, <1>8 DEF FlightOK, WalletUpgrade
<1> QED
  BY <1>1, <1>2, <1>4, <1>9, OtherFlights

\* The steps of requests; what a commit does follows.
LEMMA RequestWithdraws ==
  ASSUME IInv, WithdrawnOK, NEW p \in Procs, Arrive(p) \/ (Step(p) /\ ~Restore(p) /\ ~Commit(p))
  PROVE  WithdrawnOK'
<1>0. FlightsOK /\ DueOK
  BY DEF WithdrawnOK
<1>1. CASE Arrive(p)
  <2>1. order' = order /\ At(p, "idle") /\ UNCHANGED <<withdrawn, jobs, cron, failures>>
    BY <1>1 DEF Arrive, RequestUpgrade, WebhookRead, Begin, rowVars, siteVars
  <2>2. FlightsOK' /\ RowsStep
    BY <1>0, <1>1, <2>1, RequestFlight, SameRows DEF Arrive
  <2>3. CommitsKept
    BY <1>1, <2>1 DEF CommitsKept, Arrive, RequestUpgrade, WebhookRead, Begin, At, IInv, TypeOK
  <2> QED
    BY <2>1, <2>2, <2>3, QuietStep
<1>2. CASE \/ FindPending(p) \/ CheckWallet(p) \/ CancelPending(p) \/ Deactivate(p) \/ WebhookBegin(p)
           \/ DeleteRoles(p) \/ AddRole(p)
  <2>1. order' = order /\ UNCHANGED <<withdrawn, jobs, cron, failures>>
    BY <1>2 DEF FindPending, CheckWallet, CancelPending, Deactivate, WebhookBegin, DeleteRoles, AddRole, rowVars, siteVars
  <2>2. RowsStep
    BY <1>0, <2>1, SameRows
  <2>3. FlightsOK'
    BY <1>0, <1>2, <2>1, <2>2, FlightSteps
  <2>4. CommitsKept
    <3>1. ~At(p, "commit")
      BY <1>2 DEF FindPending, CheckWallet, CancelPending, Deactivate, WebhookBegin, DeleteRoles, AddRole, At
    <3>2. \A q \in Procs : q # p => req'[q] = req[q]
      BY <1>2 DEF FindPending, CheckWallet, CancelPending, Deactivate, WebhookBegin, DeleteRoles, AddRole, Goto, Done,
                  IInv, TypeOK
    <3> QED
      BY <3>1, <3>2 DEF CommitsKept
  <2> QED
    BY <2>1, <2>2, <2>3, <2>4, QuietStep
<1>3. CASE CreateByBanking(p)
  <2>1. RowsStep
    BY <1>0, <1>3, CreateRows
  <2>2. Done(p) /\ At(p, "createByBanking") /\ UNCHANGED <<withdrawn, jobs, cron, failures>>
    BY <1>3 DEF CreateByBanking, siteVars
  <2>3. FlightsOK'
    BY <1>0, <2>1, <2>2, FlightEnds
  <2>4. CommitsKept
    BY <2>2 DEF CommitsKept, Done, At, IInv, TypeOK
  <2> QED
    BY <2>1, <2>2, <2>3, <2>4, QuietStep
<1>4. CASE WebhookSettle(p)
  <2>1. RowsStep /\ FlightsOK'
    BY <1>4, SettleFlight
  <2>2. At(p, "settle") /\ Goto(p, "deleteRoles") /\ UNCHANGED <<withdrawn, jobs, cron, failures>>
    BY <1>4 DEF WebhookSettle, siteVars
  <2>3. CommitsKept
    BY <2>2 DEF CommitsKept, Goto, At, IInv, TypeOK
  <2> QED
    BY <2>1, <2>2, <2>3, QuietStep
<1> QED
  BY <1>1, <1>2, <1>3, <1>4 DEF Step

\* A restore job is queued once no order of its user is due, or by an upgrade that goes on to commit.
LEMMA RestoreWithdraws ==
  ASSUME IInv, WithdrawnOK, NEW p \in Procs, Restore(p)
  PROVE  WithdrawnOK'
<1>0. FlightsOK /\ DueOK /\ FlightOK(p)
  BY DEF WithdrawnOK, FlightsOK
<1>1. order' = order /\ UNCHANGED <<withdrawn, cron, failures>> /\ jobs' = jobs \cup {req[p].user} /\ At(p, "restore")
  BY DEF Restore, rowVars
<1>2. RowsStep
  BY <1>0, <1>1, SameRows
<1>3. FlightsOK' /\ DueOK'
  BY <1>0, <1>1, <1>2, FlightSteps, DueKept
<1>4. \A q \in Procs : At(q, "commit") => req'[q] = req[q]
  BY <1>1 DEF Restore, Goto, Done, At, IInv, TypeOK
<1>5. ASSUME NEW u \in Users \cup {None}, Committing(u) PROVE Committing(u)'
  BY <1>4, <1>5 DEF Committing, At
<1>6. Over(req[p].user) = {} \/ (req'[p].pc = "commit" /\ req'[p].user = req[p].user)
  <2>1. CASE req[p].id = 0
    <3>1. req'[p] = [req[p] EXCEPT !.pc = "commit"]
      BY <2>1 DEF Restore, Goto, IInv, TypeOK
    <3> QED
      BY <3>1 DEF IInv, TypeOK, Request
  <2>2. CASE req[p].id # 0
    BY <1>0, <1>1, <2>2 DEF FlightOK, At
  <2> QED
    BY <2>1, <2>2
<1>7. ASSUME failures = 0 PROVE RestoresOK' /\ TakenOK'
  <2>1. ASSUME NEW u \in jobs' PROVE Over(u)' = {} \/ Committing(u)'
    <3>1. Over(u)' = Over(u)
      BY <1>1 DEF Over, Expirable
    <3>2. CASE u = req[p].user
      BY <1>6, <3>1, <3>2 DEF Committing, At
    <3>3. CASE u \in jobs
      <4>1. u \in Users
        BY <3>3 DEF IInv, TypeOK
      <4> QED
        BY <1>5, <1>7, <3>1, <3>3, <4>1 DEF WithdrawnOK, RestoresOK
    <3> QED
      BY <1>1, <3>2, <3>3
  <2>2. ASSUME NEW o \in cron.due, Expirable(o)
        PROVE  /\ cron.pc \in {"disable", "deactivate"}
                    => "photos" \in withdrawn[order[o].user] \/ Committing(order[o].user)'
               /\ cron.pc = "deactivate" => "packages" \in withdrawn[order[o].user]
    <3>1. ASSUME Committing(order[o].user) PROVE Committing(order[o].user)'
      <4>1. PICK q \in Procs : At(q, "commit") /\ req[q].user = order[o].user
        BY <3>1 DEF Committing
      <4> QED
        BY <1>1, <1>4, <4>1 DEF Committing, At
    <3> QED
      BY <1>7, <2>2, <3>1 DEF WithdrawnOK, TakenOK
  <2> QED
    BY <1>1, <2>1, <2>2 DEF RestoresOK, TakenOK, Expirable
<1> QED
  BY <1>1, <1>3, <1>7 DEF WithdrawnOK
\* A commit, which ends the orders of its user that are due.
LEMMA CommitWithdraws ==
  ASSUME IInv, WithdrawnOK, NEW p \in Procs, Commit(p)
  PROVE  WithdrawnOK'
<1>1. FlightsOK /\ DueOK /\ FlightOK(p)
  BY DEF WithdrawnOK, FlightsOK
<1>2. At(p, "commit") /\ Done(p) /\ UNCHANGED <<withdrawn, jobs, cron, failures>>
  BY DEF Commit, siteVars
<1>3. RowsStep /\ \A i \in OrderId : Expirable(i)' => i \notin req[p].active \cup req[p].seen
  BY <1>1, CommitRows
<1>4. Over(req[p].user) \subseteq req[p].active \cup req[p].seen
  BY <1>1, <1>2 DEF FlightOK, At, WalletUpgrade
<1>5. \A i \in OrderId : Expirable(i)' => order'[i].user # req[p].user
  BY <1>3, <1>4, OverShrinks
<1>6. CommitsKept
  BY <1>2, <1>5 DEF CommitsKept, Done, IInv, TypeOK
<1>7. FlightsOK'
  BY <1>1, <1>2, <1>3, FlightEnds
<1> QED
  BY <1>2, <1>3, <1>6, <1>7, QuietStep

\* The job that shows the photos again.
LEMMA ShowWithdraws ==
  ASSUME IInv, WithdrawnOK, NEW u \in Users, RestorePhotoVisibility(u)
  PROVE  WithdrawnOK'
<1>1. UNCHANGED <<order, req, cron, failures>> /\ u \in jobs /\ jobs' = jobs \ {u}
      /\ withdrawn' = [withdrawn EXCEPT ![u] = @ \ {"photos"}]
  BY DEF RestorePhotoVisibility, rowVars
<1>2. DueOK /\ FlightsOK
  BY DEF WithdrawnOK
<1>3. RowsStep
  BY <1>1, <1>2, SameRows
<1>4. FlightsOK' /\ DueOK'
  BY <1>1, <1>2, <1>3, FlightKept, DueKept DEF FlightsOK
<1>5. CommitsKept
  BY <1>1 DEF CommitsKept
<1>6. ASSUME failures = 0 PROVE RestoresOK' /\ TakenOK'
  <2>1. RestoresOK /\ TakenOK
    BY <1>6 DEF WithdrawnOK
  <2>2. RestoresOK'
    BY <1>1, <1>3, <1>5, <2>1, RestoresKept
  <2>3. ASSUME NEW o \in cron.due, Expirable(o)
        PROVE  /\ cron.pc \in {"disable", "deactivate"}
                    => "photos" \in withdrawn'[order[o].user] \/ Committing(order[o].user)
               /\ cron.pc = "deactivate" => "packages" \in withdrawn'[order[o].user]
    <3>1. o \in OrderId /\ order[o].user \in Users
      <4>1. o \in OrderId
        BY DEF IInv, TypeOK
      <4>2. Used(o)
        BY <2>3, <4>1 DEF Expirable, Used
      <4> QED
        BY <4>1, <4>2 DEF IInv, RowsOK, Filled
    <3>2. CASE order[o].user = u
      <4>1. Committing(u)
        BY <1>1, <2>1, <2>3, <3>1, <3>2 DEF RestoresOK, Over
      <4>2. withdrawn'[u] = withdrawn[u] \ {"photos"}
        BY <1>1 DEF IInv, TypeOK
      <4> QED
        BY <2>1, <2>3, <3>2, <4>1, <4>2 DEF TakenOK
    <3>3. CASE order[o].user # u
      <4>1. withdrawn'[order[o].user] = withdrawn[order[o].user]
        BY <1>1, <3>1, <3>3 DEF IInv, TypeOK
      <4> QED
        BY <2>1, <2>3, <4>1 DEF TakenOK
    <3> QED
      BY <3>2, <3>3
  <2> QED
    BY <1>1, <2>2, <2>3 DEF TakenOK, Expirable, Committing, At
<1> QED
  BY <1>1, <1>4, <1>6 DEF WithdrawnOK

\* An order falls due when its user has nothing in flight and no job in the queue.
LEMMA DueWithdraws ==
  ASSUME IInv, WithdrawnOK, NEW o \in OrderId, FallDue(o)
  PROVE  WithdrawnOK'
<1>1. /\ UNCHANGED <<req, cron, failures, withdrawn, jobs>>
      /\ order[o].status = "ACTIVE" /\ ~order[o].due
      /\ order[o].user \notin jobs
      /\ \A p \in Procs : req[p].user # order[o].user
      /\ order' = [order EXCEPT ![o].due = TRUE]
  BY DEF FallDue, siteVars
<1>2. DueOK /\ FlightsOK
  BY DEF WithdrawnOK
<1>3. order[o] \in Order /\ Used(o) /\ order[o].tx = "SUCCESS"
  BY <1>1 DEF IInv, TypeOK, ActiveIsPaid, Used
<1>4. \A i \in OrderId : i # o => order'[i] = order[i]
  BY <1>1 DEF IInv, TypeOK
<1>5. order'[o].user = order[o].user /\ order'[o].status = "ACTIVE" /\ order'[o].tx = "SUCCESS"
  <2>1. order'[o] = [order[o] EXCEPT !.due = TRUE]
    BY <1>1 DEF IInv, TypeOK
  <2> QED
    BY <1>1, <1>3, <2>1 DEF Order
<1>6. ASSUME NEW u, u # order[o].user
      PROVE  {i \in OrderId : Expirable(i)' /\ order'[i].user = u} = Over(u)
  <2>1. ASSUME NEW i \in OrderId PROVE (Expirable(i)' /\ order'[i].user = u) <=> (Expirable(i) /\ order[i].user = u)
    BY <1>4, <1>5, <1>6 DEF Expirable
  <2> QED
    BY <2>1 DEF Over
<1>7. DueOK'
  <2>1. ASSUME NEW i \in OrderId, order'[i].due PROVE Used(i)' /\ order'[i].tx # "PENDING"
    BY <1>2, <1>4, <1>5, <2>1 DEF DueOK, Used
  <2>2. ASSUME NEW i \in cron.due PROVE order'[i].due
    <3>1. i \in OrderId /\ order[i].due
      BY <1>2 DEF DueOK, IInv, TypeOK
    <3> QED
      BY <1>1, <1>4, <3>1
  <2> QED
    BY <1>1, <2>1, <2>2 DEF DueOK
<1>8. FlightsOK'
  <2> SUFFICES ASSUME NEW q \in Procs PROVE FlightOK(q)'
    BY DEF FlightsOK
  <2>1. FlightOK(q) /\ req[q] \in Request /\ req'[q] = req[q] /\ req[q].user # order[o].user
    BY <1>1, <1>2 DEF FlightsOK, IInv, TypeOK
  <2>2. {i \in OrderId : Expirable(i)' /\ order'[i].user = req[q].user} = Over(req[q].user)
    BY <1>6, <2>1
  <2>3. Over(req[q].user)' = Over(req[q].user)
    BY <2>1, <2>2, Zenon DEF Over
  <2>4. req[q].id # 0 => req[q].id \in OrderId /\ order'[req[q].id] = order[req[q].id]
    BY <1>4, <2>1 DEF FlightOK, Request
  <2>5. req[q].id # 0 => Used(req[q].id)' /\ order'[req[q].id].user = req[q].user
    BY <2>1, <2>4 DEF FlightOK, Used
  <2>6. req[q].pc \in {"beginSettle", "settle"} => req[q].id # 0 /\ ~order'[req[q].id].due
    BY <2>1, <2>4 DEF FlightOK
  <2>7. req[q].pc = "settle" => Over(req[q].user)' \subseteq req[q].active
    BY <2>1, <2>3 DEF FlightOK
  <2>8. req[q].pc \in {"deactivate", "deleteRoles", "addRole", "restore", "commit"} /\ req[q].id = 0
         => Over(req[q].user)' \subseteq req[q].active \cup req[q].seen
    BY <2>1, <2>3 DEF FlightOK
  <2>9. req[q].pc \in {"deleteRoles", "addRole", "restore"} /\ req[q].id # 0 => Over(req[q].user)' = {}
    BY <2>1, <2>3 DEF FlightOK
  <2> QED
    BY <2>1, <2>5, <2>6, <2>7, <2>8, <2>9 DEF FlightOK
<1>9. ASSUME failures = 0 PROVE RestoresOK' /\ TakenOK'
  <2>1. RestoresOK /\ TakenOK
    BY <1>9 DEF WithdrawnOK
  <2>2. ASSUME NEW u \in jobs PROVE Over(u)' = {} \/ Committing(u)'
    BY <1>1, <1>6, <2>1 DEF RestoresOK, Over, Committing, At
  <2>3. ASSUME NEW i \in cron.due, Expirable(i)' PROVE i \in OrderId /\ i # o /\ order'[i] = order[i] /\ Expirable(i)
    <3>1. i \in OrderId /\ order[i].due
      BY <1>2 DEF DueOK, IInv, TypeOK
    <3>2. order'[i] = order[i]
      BY <1>1, <1>4, <3>1
    <3> QED
      BY <1>1, <2>3, <3>1, <3>2 DEF Expirable
  <2>4. TakenOK'
    BY <1>1, <2>1, <2>3 DEF TakenOK, Committing, At
  <2> QED
    BY <1>1, <2>2, <2>4 DEF RestoresOK
<1> QED
  BY <1>1, <1>7, <1>8, <1>9 DEF WithdrawnOK

\* The cron reads what is due, withdraws photos, then packages, of who has an order that is due,
\* and expires the orders.
LEMMA CronWithdraws ==
  ASSUME IInv, WithdrawnOK, CronRead \/ CronHide \/ CronDisable
  PROVE  WithdrawnOK'
<1>1. UNCHANGED <<order, jobs, req, failures>>
  BY DEF CronRead, CronHide, CronDisable, rowVars, siteVars
<1>2. DueOK /\ FlightsOK
  BY DEF WithdrawnOK
<1>3. RowsStep
  BY <1>1, <1>2, SameRows
<1>4. FlightsOK'
  BY <1>1, <1>2, <1>3, FlightKept DEF FlightsOK
<1>5. failures = 0 => RestoresOK'
  BY <1>1, <1>3, RestoresKept DEF CommitsKept, WithdrawnOK
<1>6. CASE CronRead
  <2>1. cron'.pc = "hide" /\ cron'.due = {o \in OrderId : order[o].due}
    BY <1>6 DEF CronRead
  <2>2. DueOK'
    BY <1>1, <1>2, <2>1 DEF DueOK, Used
  <2>3. TakenOK'
    BY <2>1 DEF TakenOK
  <2> QED
    BY <1>1, <1>4, <1>5, <2>2, <2>3 DEF WithdrawnOK
<1>7. ASSUME NEW what, Withdraw(what), NEW o \in cron.due, Expirable(o)
      PROVE  withdrawn'[order[o].user] = withdrawn[order[o].user] \cup {what}
  <2>1. o \in OrderId
    BY DEF IInv, TypeOK
  <2>2. order[o].status = "ACTIVE" /\ Used(o)
    BY <1>7, <2>1 DEF Expirable, Used
  <2>3. order[o].user \in Users
    BY <2>1, <2>2 DEF IInv, RowsOK, Filled
  <2>4. order[o].user \in ExpiringUsers
    BY <2>2 DEF ExpiringUsers
  <2> QED
    BY <1>7, <2>3, <2>4 DEF Withdraw
<1>8. CASE CronHide
  <2>1. cron'.due = cron.due /\ cron'.pc = "disable" /\ Withdraw("photos")
    BY <1>8 DEF CronHide, IInv, TypeOK
  <2>2. DueOK'
    BY <1>2, <1>3, <2>1, DueKept
  <2>3. \A o \in cron.due : Expirable(o) => "photos" \in withdrawn'[order[o].user]
    BY <1>7, <2>1
  <2>4. TakenOK'
    BY <1>1, <2>1, <2>3 DEF TakenOK, Expirable
  <2> QED
    BY <1>1, <1>4, <1>5, <2>2, <2>4 DEF WithdrawnOK
<1>9. CASE CronDisable
  <2>1. cron'.due = cron.due /\ cron.pc = "disable" /\ cron'.pc = "deactivate" /\ Withdraw("packages")
    BY <1>9 DEF CronDisable, IInv, TypeOK
  <2>2. DueOK'
    BY <1>2, <1>3, <2>1, DueKept
  <2>3. ASSUME failures = 0, NEW o \in cron.due, Expirable(o)
        PROVE  /\ "photos" \in withdrawn'[order[o].user] \/ Committing(order[o].user)
               /\ "packages" \in withdrawn'[order[o].user]
    <3>1. "photos" \in withdrawn[order[o].user] \/ Committing(order[o].user)
      BY <2>1, <2>3 DEF WithdrawnOK, TakenOK
    <3>2. withdrawn'[order[o].user] = withdrawn[order[o].user] \cup {"packages"}
      BY <1>7, <2>1, <2>3
    <3> QED
      BY <3>1, <3>2
  <2>4. failures = 0 => TakenOK'
    BY <1>1, <2>1, <2>3 DEF TakenOK, Expirable, Committing, At
  <2> QED
    BY <1>1, <1>4, <1>5, <2>2, <2>4 DEF WithdrawnOK
<1> QED
  BY <1>6, <1>8, <1>9

LEMMA ExpiryKeeps ==
  ASSUME IInv, WithdrawnOK, CronDeactivate
  PROVE  WithdrawnOK'
<1>1. UNCHANGED <<withdrawn, jobs, req, failures>> /\ cron' = CronIdle
  BY DEF CronDeactivate, siteVars
<1>2. DueOK /\ FlightsOK
  BY DEF WithdrawnOK
<1>3. RowsStep
  BY <1>2, DeactivateRows
<1>4. cron'.due = {}
  BY <1>1 DEF CronIdle
<1>5. FlightsOK' /\ DueOK'
  BY <1>1, <1>2, <1>3, <1>4, FlightKept, DueKept DEF FlightsOK
<1>6. failures = 0 => RestoresOK'
  BY <1>1, <1>3, RestoresKept DEF CommitsKept, WithdrawnOK
<1>7. TakenOK'
  BY <1>4 DEF TakenOK
<1> QED
  BY <1>1, <1>5, <1>6, <1>7 DEF WithdrawnOK

\* A failure leaves the rows as they are; what it took back is not restored.
LEMMA FailureKeeps ==
  ASSUME IInv, WithdrawnOK, (\E p \in Procs : FailRequest(p)) \/ Restart
  PROVE  WithdrawnOK'
<1>1. order' = order /\ failures' # 0
  BY DEF FailRequest, Restart, Failing, rowVars, IInv, TypeOK
<1>2. DueOK /\ FlightsOK
  BY DEF WithdrawnOK
<1>3. RowsStep
  BY <1>1, <1>2, SameRows
<1>4. CASE \E p \in Procs : FailRequest(p)
  <2>1. PICK p \in Procs : FailRequest(p)
    BY <1>4
  <2>2. Done(p) /\ cron' = cron
    BY <2>1 DEF FailRequest
  <2>3. FlightsOK' /\ DueOK'
    BY <1>2, <1>3, <2>2, FlightEnds, DueKept
  <2> QED
    BY <1>1, <2>3 DEF WithdrawnOK
<1>5. CASE Restart
  <2>1. cron'.due = {} /\ \A q \in Procs : req'[q] = Idle
    BY <1>5 DEF Restart, CronIdle
  <2>2. FlightsOK'
    BY <2>1, IdleFlight DEF FlightsOK
  <2>3. DueOK'
    BY <1>2, <1>3, <2>1, DueKept
  <2> QED
    BY <1>1, <2>2, <2>3 DEF WithdrawnOK
<1> QED
  BY <1>4, <1>5

LEMMA WithdrawnNext == IInv /\ WithdrawnOK /\ [Next]_vars => WithdrawnOK'
<1> SUFFICES ASSUME IInv, WithdrawnOK, [Next]_vars PROVE WithdrawnOK'
  OBVIOUS
<1>0. FlightsOK /\ DueOK
  BY DEF WithdrawnOK
<1>1. ASSUME NEW p \in Procs, Arrive(p) \/ Step(p) PROVE WithdrawnOK'
  <2>1. CASE Arrive(p) \/ (Step(p) /\ ~Restore(p) /\ ~Commit(p))
    BY <2>1, RequestWithdraws
  <2>2. CASE Restore(p)
    BY <2>2, RestoreWithdraws
  <2>3. CASE Commit(p)
    BY <2>3, CommitWithdraws
  <2> QED
    BY <1>1, <2>1, <2>2, <2>3
<1>2. ASSUME UNCHANGED <<req, cron, withdrawn, jobs, failures>>, RowsStep PROVE WithdrawnOK'
  <2>1. FlightsOK'
    BY <1>0, <1>2, FlightKept DEF FlightsOK
  <2> QED
    BY <1>2, <2>1, QuietStep DEF CommitsKept
<1>3. ASSUME NEW u \in Users, DropRole(u) PROVE WithdrawnOK'
  <2>1. order' = order /\ UNCHANGED <<req, cron, withdrawn, jobs, failures>>
    BY <1>3 DEF DropRole, rowVars
  <2> QED
    BY <1>0, <1>2, <2>1, SameRows
<1>4. ASSUME NEW o \in OrderId, NEW exact \in BOOLEAN, Transfer(o, exact) PROVE WithdrawnOK'
  <2>1. order' = order /\ UNCHANGED <<req, cron, withdrawn, jobs, failures>>
    BY <1>4 DEF Transfer, rowVars, siteVars
  <2> QED
    BY <1>0, <1>2, <2>1, SameRows
<1>5. ASSUME NEW o \in OrderId, NEW st \in Decisions, DecideTransaction(o, st) PROVE WithdrawnOK'
  <2>1. UNCHANGED <<req, cron, withdrawn, jobs, failures>>
    BY <1>5 DEF DecideTransaction, siteVars
  <2> QED
    BY <1>0, <1>2, <1>5, <2>1, DecideRows
<1>6. CASE UNCHANGED vars
  <2>1. order' = order /\ UNCHANGED <<req, cron, withdrawn, jobs, failures>>
    BY <1>6 DEF vars
  <2> QED
    BY <1>0, <1>2, <2>1, SameRows
<1>7. ASSUME NEW u \in Users, RestorePhotoVisibility(u) PROVE WithdrawnOK'
  BY <1>7, ShowWithdraws
<1>8. ASSUME NEW o \in OrderId, FallDue(o) PROVE WithdrawnOK'
  BY <1>8, DueWithdraws
<1>9. CASE CronStep
  BY <1>9, CronWithdraws, ExpiryKeeps DEF CronStep
<1>10. CASE (\E p \in Procs : FailRequest(p)) \/ Restart
  BY <1>10, FailureKeeps
<1> QED
  BY <1>1, <1>3, <1>4, <1>5, <1>6, <1>7, <1>8, <1>9, <1>10 DEF Next

\* When the cron expires an order, its owner's photos and packages are off the site: in every
\* interleaving of the cron's statements with upgrades, deliveries and restore jobs, as long as no
\* request fails and the server does not restart.
THEOREM ExpiryWithdraws == Spec => ExpiredIsWithdrawn
<1>1. ASSUME IInv, WithdrawnOK, CronDeactivate, failures = 0, NEW o \in OrderId,
             order[o].status = "ACTIVE", order'[o].status = "EXPIRE"
      PROVE  withdrawn[order[o].user] = {"photos", "packages"}
  <2>1. o \in cron.due /\ cron.pc = "deactivate"
    BY <1>1 DEF CronDeactivate, WithExpired
  <2>2. Expirable(o) /\ order[o].user \in Users
    BY <1>1, <2>1 DEF Expirable, WithdrawnOK, DueOK, IInv, RowsOK, Filled, Used
  <2>3. ~Committing(order[o].user)
    <3> SUFFICES ASSUME NEW q \in Procs, At(q, "commit"), req[q].user = order[o].user PROVE FALSE
      BY DEF Committing
    <3>1. FlightOK(q) /\ req[q].id = 0
      BY <1>1 DEF WithdrawnOK, FlightsOK, FlightOK, At, WalletUpgrade
    <3>2. o \in req[q].active \cup req[q].seen
      BY <1>1, <2>2, <3>1 DEF FlightOK, At, Over
    <3>3. Holds(q) = req[q].seen \cup req[q].active
      BY <3>1 DEF Holds, InTransaction, At
    <3> QED
      BY <1>1, <2>1, <3>2, <3>3 DEF CronDeactivate
  <2>4. "photos" \in withdrawn[order[o].user] /\ "packages" \in withdrawn[order[o].user]
    BY <1>1, <2>1, <2>2, <2>3 DEF WithdrawnOK, TakenOK
  <2>5. withdrawn[order[o].user] \subseteq {"photos", "packages"}
    BY <1>1, <2>2 DEF IInv, TypeOK
  <2> QED
    BY <2>4, <2>5
<1>2. IInv /\ WithdrawnOK /\ [Next]_vars =>
        [CronDeactivate /\ failures = 0 =>
           \A o \in OrderId :
             order[o].status = "ACTIVE" /\ order'[o].status = "EXPIRE"
               => withdrawn[order[o].user] = {"photos", "packages"}]_vars
  BY <1>1
<1> QED
  BY <1>2, InitIInv, StepIInv, WithdrawnInit, WithdrawnNext, PTL DEF Spec, ExpiredIsWithdrawn
=============================================================================
