----------------------------- MODULE Dashboard -----------------------------
(***************************************************************************)
(* The managers' dashboard: a report over a window of time is a sequence   *)
(* of queries, each awaited, over tables that may change in between.  It   *)
(* is asked for, never scheduled, and kept nowhere.                        *)
(***************************************************************************)
EXTENDS Library, Wallet, Sequences, SequencesExt

CONSTANTS
  Price,         \* of a photo
  UpgradePrice,  \* of an upgrade package
  MaxTx          \* bound: rows of the Transaction table

\* The queries of the dashboard, in their order.
DataQueries == <<"customer", "photographer", "photoRevenue", "upgradeRevenue", "package", "camera",
                 "selling", "raw", "booking", "photo", "bookingSize", "photoSize", "withdrawal", "balance">>

ASSUME DashboardAssumption ==
  {Price, UpgradePrice, MaxTx} \subseteq Nat /\ \A k \in DOMAIN DataQueries : DataQueries[k] \notin Users

TxId == 1..MaxTx

VARIABLES
  tx,      \* the Transaction table
  others,  \* when the rows of the tables that are only counted were created
  report   \* the report in progress, or the last one

dashboardVars == <<tx, others, report>>

\* credit is the IMAGE_SELL row of a purchase; discount, of an upgrade, is kept in fee.
Row == [user : Users \cup {None}, type : TransactionType, method : PaymentMethod, amount : Nat, fee : Nat,
        status : {"SUCCESS", "PENDING", Unused}, at : {0} \cup Time, credit : {0} \cup TxId]
NoRow == [user |-> None, type |-> "DEPOSIT", method |-> "SEPAY", amount |-> 0, fee |-> 0,
          status |-> Unused, at |-> 0, credit |-> 0]

Others == {"CUSTOMER", "PHOTOGRAPHER", "PACKAGE"}

\* Mutant: raw photos are counted before those on sale.
QueriesMutant(kind) ==
  CASE kind = "data"    -> [DataQueries EXCEPT ![7] = "raw", ![8] = "selling"]
    [] kind = "balance" -> <<"balance", "withdrawal">>
    [] kind = "sellers" -> SetToSeq(Users)
    [] kind = "none"    -> <<>>
\* The dashboard, where photos on sale are counted before raw ones, the balance of all time, and
\* the sales of each photographer.
Queries(kind) ==
  CASE kind = "data"    -> DataQueries
    [] kind = "balance" -> <<"balance", "withdrawal">>
    [] kind = "sellers" -> SetToSeq(Users)
    [] kind = "none"    -> <<>>
NoReport == [kind |-> "none", next |-> 0, from |-> 0, to |-> 0, value |-> <<>>]
Reporting == report.next \in DOMAIN Queries(report.kind)
Reported(kind) == report.kind = kind /\ report.next > Len(Queries(kind))

DashboardTypeOK ==
  /\ tx \in [TxId -> Row]
  /\ others \in [Others -> SUBSET Time]
  /\ {report.from, report.to} \subseteq {0} \cup Time
  /\ DOMAIN report.value = {Queries(report.kind)[k] : k \in 1..(report.next - 1)}

DashboardInit ==
  /\ tx = [i \in TxId |-> NoRow]
  /\ others = [k \in Others |-> {}]
  /\ report = NoReport

-----------------------------------------------------------------------------
(* Money: Payments.tla has the steps *)

Used(i) == tx[i].status # Unused
NewId(i) == ~Used(i) /\ \A k \in 1..(i - 1) : Used(k)
New(u, type, method, amount, fee, status) ==
  [NoRow EXCEPT !.user = u, !.type = type, !.method = method, !.amount = amount, !.fee = fee,
                !.status = status, !.at = now]
Insert(i, row) == NewId(i) /\ tx' = [tx EXCEPT ![i] = row] /\ UNCHANGED <<libraryVars, others, report>>
Affords(u, amount) == WalletBalance(tx, u) >= amount

\* A deposit, a purchase or an upgrade to be paid by bank waits for the webhook.
Deposit(i, u) == Insert(i, New(u, "DEPOSIT", "SEPAY", 2 * Price, 0, "PENDING"))
Withdraw(i, u) == Affords(u, Price) /\ Insert(i, New(u, "WITHDRAWAL", "SEPAY", Price, 0, "PENDING"))
BuyByBank(i, u) == Insert(i, New(u, "IMAGE_BUY", "SEPAY", Price, Price \div 10, "PENDING"))
\* What an earlier package is worth still is taken off the price and kept as the fee.
UpgradeByBank(i, u) ==
  \E d \in {0, UpgradePrice \div 2} : Insert(i, New(u, "UPGRADE_TO_PHOTOGRAPHER", "SEPAY", UpgradePrice - d, d, "PENDING"))
UpgradeByWallet(i, u) ==
  \E d \in {0, UpgradePrice \div 2} :
    Affords(u, UpgradePrice - d) /\ Insert(i, New(u, "UPGRADE_TO_PHOTOGRAPHER", "WALLET", UpgradePrice - d, d, "SUCCESS"))

\* A purchase creates the row of the buyer and that of the photographer.
SellRow(u) == New(u, "IMAGE_SELL", "WALLET", Price, Price \div 10, "SUCCESS")
BuyByWallet(i, u) ==
  /\ Affords(u, Price) /\ NewId(i) /\ i + 1 \in TxId
  /\ \E seller \in Users \ {u} :
       tx' = [tx EXCEPT ![i] = [New(u, "IMAGE_BUY", "WALLET", Price, Price \div 10, "SUCCESS") EXCEPT !.credit = i + 1],
                        ![i + 1] = SellRow(seller)]
  /\ UNCHANGED <<libraryVars, others, report>>

Settle(i) ==
  /\ tx[i].status = "PENDING"
  /\ IF tx[i].type = "IMAGE_BUY"
       THEN \E k \in TxId, seller \in Users \ {tx[i].user} :
              NewId(k) /\ tx' = [tx EXCEPT ![i].status = "SUCCESS", ![i].credit = k, ![k] = SellRow(seller)]
       ELSE tx' = [tx EXCEPT ![i].status = "SUCCESS"]
  /\ UNCHANGED <<libraryVars, others, report>>

\* A sign-up, a promotion, a new photoshoot package; a package is also deleted.
Add(k) == others' = [others EXCEPT ![k] = @ \cup {now}] /\ UNCHANGED <<libraryVars, tx, report>>
DropPackage ==
  /\ \E t \in others["PACKAGE"] : others' = [others EXCEPT !["PACKAGE"] = @ \ {t}]
  /\ UNCHANGED <<libraryVars, tx, report>>

-----------------------------------------------------------------------------
(* Queries *)

In(t) == report.from <= t /\ t <= report.to
Succeeded(type) == {i \in TxId : tx[i].status = "SUCCESS" /\ tx[i].type = type /\ In(tx[i].at)}
Sum(rows, Of(_)) == SumFunctionOnSet([i \in rows |-> Of(tx[i])], rows)

\* Purchases that were credited, by the time they were made.
PhotoRevenue ==
  LET bought == {i \in TxId : tx[i].credit # 0 /\ In(tx[i].at)}
  IN SumFunctionOnSet([i \in bought |-> tx[tx[i].credit].fee], bought)

\* Mutant: what was taken off the price is left out.
UpgradeRevenueMutant == Sum(Succeeded("UPGRADE_TO_PHOTOGRAPHER"), LAMBDA t : t.amount)
UpgradeRevenue == Sum(Succeeded("UPGRADE_TO_PHOTOGRAPHER"), LAMBDA t : t.amount + t.fee)

Withdrawn == Sum(Succeeded("WITHDRAWAL"), LAMBDA t : t.amount)
Balance == Sum({i \in TxId : tx[i].status = "SUCCESS" /\ In(tx[i].at)}, WalletEffect)
SalesOf(u) == Cardinality({i \in Succeeded("IMAGE_BUY") : tx[tx[i].credit].user = u})

\* The database client finds no deleted photo: the second alternative of each filter, a photo
\* that was deleted after the window, finds none.
Counted(photos) == Cardinality({f \in photos : Live(f) /\ In(photo[f].created)})
OnSale(f) == \E t \in photo[f].sales : In(t)
SellingPhotos == Counted({f \in PhotoId : OnSale(f)})
RawPhotos == Counted({f \in PhotoId : photo[f].type = "RAW" /\ ~OnSale(f)})
BookingPhotos == Counted({f \in PhotoId : photo[f].type = "BOOKING"})

\* Sums are not filtered by the client: here the second alternative does find photos.  Photo f
\* is of size f.
Sized(photos) ==
  SumSet({f \in photos : Has(f) /\ In(photo[f].created) /\ (Live(f) \/ photo[f].deleted >= report.to)})

\* The lists of the most used packages, the most sold photos and the best sellers' details are
\* left out.
Value(x, cameras) ==
  CASE x = "customer"       -> Cardinality({t \in others["CUSTOMER"] : In(t)})
    [] x = "photographer"   -> Cardinality({t \in others["PHOTOGRAPHER"] : In(t)})
    [] x = "photoRevenue"   -> PhotoRevenue
    [] x = "upgradeRevenue" -> UpgradeRevenue
    [] x = "package"        -> Cardinality({t \in others["PACKAGE"] : In(t)})
    [] x = "camera"         -> Cardinality({c \in cameras : In(c.created) /\ ~c.deleted})
    [] x = "selling"        -> SellingPhotos
    [] x = "raw"            -> RawPhotos
    [] x = "booking"        -> BookingPhotos
    [] x = "photo"          -> Counted(PhotoId)
    [] x = "bookingSize"    -> Sized({f \in PhotoId : photo[f].booked})
    [] x = "photoSize"      -> Sized({f \in PhotoId : photo[f].type = "RAW"})
    [] x = "withdrawal"     -> Withdrawn
    [] x = "balance"        -> Balance
    [] x \in Users          -> SalesOf(x)

\* One report is made: a bound.
Ask(kind, from, to) ==
  /\ May("report") /\ report = NoReport /\ from <= to
  /\ report' = [NoReport EXCEPT !.kind = kind, !.next = 1, !.from = from, !.to = to]
  /\ UNCHANGED <<libraryVars, tx, others>>

Query(cameras) ==
  /\ Reporting
  /\ LET x == Queries(report.kind)[report.next]
         value == [y \in {x} \cup DOMAIN report.value |-> IF y = x THEN Value(x, cameras) ELSE report.value[y]]
     IN report' = [report EXCEPT !.next = @ + 1, !.value = value]
  /\ UNCHANGED <<libraryVars, tx, others>>

MoneyStep ==
  \/ /\ May("money")
     /\ \/ \E i \in TxId, u \in Users : \/ Deposit(i, u) \/ Withdraw(i, u) \/ BuyByBank(i, u) \/ BuyByWallet(i, u)
                                        \/ UpgradeByBank(i, u) \/ UpgradeByWallet(i, u)
        \/ \E i \in TxId : Settle(i)
  \/ May("rows") /\ (DropPackage \/ \E k \in Others : Add(k))

\* The reports of money alone are asked for when money moves: a bound.
ReportStep(cameras) ==
  \/ Query(cameras)
  \/ \E from, to \in {First, now, now + 1}, kind \in {"data"} \cup (IF May("money") THEN {"sellers"} ELSE {}) :
       Ask(kind, from, to)
  \/ May("money") /\ Ask("balance", First, now)
=============================================================================
