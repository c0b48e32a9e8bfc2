------------------------------ MODULE Payments ------------------------------
(***************************************************************************)
(* The payment core: the Transaction table shared by deposits, withdrawals *)
(* and photo purchases, the SePay bank webhook that settles rows, the      *)
(* manager endpoints that decide them, and the clean-up cron.              *)
(*                                                                         *)
(* Every awaited database call is a step.  A request in flight is a record *)
(* req[p] that holds where it is and what it has read, so that another     *)
(* request, a webhook or the cron can run between its read and its write.  *)
(* Statements inside one Prisma $transaction run at READ COMMITTED: reads  *)
(* are steps of their own, and the writes take effect together at commit.  *)
(***************************************************************************)
EXTENDS Wallet

CONSTANTS
  Users,            \* accounts
  Photos,           \* photos on sale, each at one resolution and price
  None,             \* the absent user or photo
  SellerOf,         \* photo -> photographer
  Price,            \* photo -> price of its pricetag
  Amounts,          \* amounts users deposit and withdraw
  TransferAmounts,  \* amounts that reach the bank account
  Procs,            \* user and manager requests in flight at once
  Hooks,            \* webhook deliveries in flight at once
  ManagerStatuses,  \* statuses managers send to PATCH /manager/transaction
  MaxTx,            \* bound: rows of the transaction table
  MaxTransfers      \* bound: bank transfers made

TxId == 1..MaxTx
Prices == {Price[ph] : ph \in Photos}

ASSUME PaymentsAssumption ==
  /\ MaxTx \in Nat /\ MaxTransfers \in Nat
  /\ None \notin Users \cup Photos
  /\ SellerOf \in [Photos -> Users]
  /\ Price \in [Photos -> Nat]
  \* Prices are Decimals: money is counted in a unit in which every fee is whole.
  /\ \A ph \in Photos : Price[ph] % 10 = 0
  /\ Amounts \subseteq Nat
  /\ TransferAmounts \subseteq Nat
  /\ Procs \cap Hooks = {}
  /\ ManagerStatuses \subseteq TransactionStatus

VARIABLES
  tx,         \* the Transaction table, with the one-to-one rows hanging off it
  transfers,  \* bank transfers made so far: a webhook may report each many times
  req         \* the requests and webhook deliveries in flight

vars == <<tx, transfers, req>>

\* A row: "paid" is a paymentPayload written by the bank webhook; photo and
\* credit are the UserToUserTransaction of an IMAGE_BUY (what was bought, and
\* toUserTransactionId, 0 while it is null); proof and reason are
\* successPhotoUrl and failReason of the WithdrawalTransaction.
Row == [user : Users \cup {None}, type : TransactionType,
        method : PaymentMethod, amount : Nat, fee : Nat,
        status : TransactionStatus \cup {Unused}, paid : BOOLEAN,
        photo : Photos \cup {None}, credit : TxId \cup {0},
        proof : BOOLEAN, reason : BOOLEAN]

FreeRow == [user |-> None, type |-> "DEPOSIT", method |-> "SEPAY",
            amount |-> 0, fee |-> 0, status |-> Unused, paid |-> FALSE,
            photo |-> None, credit |-> 0, proof |-> FALSE, reason |-> FALSE]

NewRow(u, type, method, amt, st) ==
  [FreeRow EXCEPT !.user = u, !.type = type, !.method = method,
                  !.amount = amt, !.status = st]

Pc == {"idle", "findPendingWithdrawal", "createWithdrawal",
       "findPendingBuys", "checkWallet", "payByWallet", "payByBank",
       "uploadProof", "deny", "managerWallet", "managerWrite", "settle"}

Request == [pc : Pc, user : Users \cup {None}, amount : Nat, id : TxId \cup {0},
            photo : Photos \cup {None}, seen : SUBSET TxId,
            status : TransactionStatus]

Idle == [pc |-> "idle", user |-> None, amount |-> 0, id |-> 0,
         photo |-> None, seen |-> {}, status |-> "PENDING"]

TypeOK ==
  /\ tx \in [TxId -> Row]
  /\ transfers \subseteq [id : TxId, amount : Nat]
  /\ req \in [Procs \cup Hooks -> Request]

Init ==
  /\ tx = [id \in TxId |-> FreeRow]
  /\ transfers = {}
  /\ req = [p \in Procs \cup Hooks |-> Idle]

-----------------------------------------------------------------------------
(* Rows and steps of requests *)

Used(id) == tx[id].status # Unused
Pending(id) == tx[id].status = "PENDING"
Balance(u) == WalletBalance(tx, u)

\* Ids are handed out in creation order.
Fresh(id) == ~Used(id) /\ \A j \in 1..(id - 1) : Used(j)

Begin(p, r) == req[p].pc = "idle" /\ req' = [req EXCEPT ![p] = r]
At(p, pc) == req[p].pc = pc
Goto(p, pc) == req' = [req EXCEPT ![p].pc = pc]
Done(p) == req' = [req EXCEPT ![p] = Idle]

-----------------------------------------------------------------------------
(* Deposits and withdrawals: SepayService *)

CreateDeposit(u, a) ==
  \E id \in TxId :
    /\ Fresh(id)
    /\ tx' = [tx EXCEPT ![id] = NewRow(u, "DEPOSIT", "SEPAY", a, "PENDING")]
    /\ UNCHANGED <<transfers, req>>

\* Mutant: the balance is not checked.
WithdrawBalanceMutant(p, u, a) ==
  /\ Begin(p, [Idle EXCEPT !.pc = "findPendingWithdrawal", !.user = u, !.amount = a])
  /\ UNCHANGED <<tx, transfers>>

\* createWithdrawal: the balance is read before the transaction begins ...
WithdrawBalance(p, u, a) ==
  /\ Balance(u) >= a
  /\ Begin(p, [Idle EXCEPT !.pc = "findPendingWithdrawal", !.user = u, !.amount = a])
  /\ UNCHANGED <<tx, transfers>>

HasPendingWithdrawal(u) ==
  \E id \in TxId : /\ tx[id].user = u
                   /\ tx[id].type = "WITHDRAWAL"
                   /\ Pending(id)

\* ... then, inside it, findFirst: ExistPendingWithdrawalException or go on ...
WithdrawFind(p) ==
  /\ At(p, "findPendingWithdrawal")
  /\ IF HasPendingWithdrawal(req[p].user) THEN Done(p) ELSE Goto(p, "createWithdrawal")
  /\ UNCHANGED <<tx, transfers>>

\* ... and the INSERT.
WithdrawCreate(p) ==
  /\ At(p, "createWithdrawal")
  /\ \E id \in TxId :
       /\ Fresh(id)
       /\ tx' = [tx EXCEPT ![id] = NewRow(req[p].user, "WITHDRAWAL", "WALLET",
                                          req[p].amount, "PENDING")]
  /\ Done(p)
  /\ UNCHANGED transfers

-----------------------------------------------------------------------------
(* Buying a photo: PhotoExchangeService.buyPhotoRequest *)

\* The buyer's purchases of a photo.
BuysOf(u, ph) ==
  {id \in TxId : Used(id) /\ tx[id].user = u /\ tx[id].photo = ph}

\* Not one's own photo, and no purchase of it that already succeeded.
BuyRequest(p, u, ph) ==
  /\ SellerOf[ph] # u
  /\ \A id \in BuysOf(u, ph) : tx[id].status # "SUCCESS"
  /\ Begin(p, [Idle EXCEPT !.pc = "findPendingBuys", !.user = u, !.photo = ph])
  /\ UNCHANGED <<tx, transfers>>

\* The PENDING purchases of this photo are remembered, to be cancelled later.
BuyFindPending(p) ==
  /\ At(p, "findPendingBuys")
  /\ \E next \in {"checkWallet", "payByBank"} :
       req' = [req EXCEPT ![p].pc = next,
                          ![p].seen = {id \in BuysOf(req[p].user, req[p].photo) : Pending(id)}]
  /\ UNCHANGED <<tx, transfers>>

\* Inside the transaction, over another connection: NotEnoughBalanceException
\* rolls everything back.
BuyCheckWallet(p) ==
  /\ At(p, "checkWallet")
  /\ IF Balance(req[p].user) >= Price[req[p].photo] THEN Goto(p, "payByWallet") ELSE Done(p)
  /\ UNCHANGED <<tx, transfers>>

\* Mutant: the fee is taken with the wrong sign.
FeeMutant(amount) == (0 - amount * 10) \div 100

Fee(amount) == (amount * 10) \div 100

\* Mutant: cancelling also clears the payment payload.
CancelSeenMutant(p) ==
  [id \in TxId |-> IF id \in req[p].seen
                   THEN [tx[id] EXCEPT !.status = "CANCEL", !.paid = FALSE] ELSE tx[id]]

\* Cancelled without looking at their status again.
CancelSeen(p) ==
  [id \in TxId |-> IF id \in req[p].seen THEN [tx[id] EXCEPT !.status = "CANCEL"]
                   ELSE tx[id]]

BuyRow(u, ph, method, st, credit) ==
  [NewRow(u, "IMAGE_BUY", method, Price[ph], st) EXCEPT
     !.fee = Fee(Price[ph]), !.photo = ph, !.credit = credit]

\* Mutant: the fee is already taken off here, and again by the wallet.
SellRowMutant(seller, amount, fee, paid) ==
  [NewRow(seller, "IMAGE_SELL", "WALLET", amount - fee, "SUCCESS") EXCEPT
     !.fee = fee, !.paid = paid]

SellRow(seller, amount, fee, paid) ==
  [NewRow(seller, "IMAGE_SELL", "WALLET", amount, "SUCCESS") EXCEPT
     !.fee = fee, !.paid = paid]

\* The seller's row and the buyer's row are created together, both SUCCESS.
BuyByWallet(p) ==
  /\ At(p, "payByWallet")
  /\ \E sell, buy \in TxId :
       LET ph == req[p].photo IN
       /\ Fresh(sell)
       /\ buy = sell + 1
       /\ tx' = [CancelSeen(p) EXCEPT
                   ![sell] = SellRow(SellerOf[ph], Price[ph], Fee(Price[ph]), FALSE),
                   ![buy]  = BuyRow(req[p].user, ph, "WALLET", "SUCCESS", sell)]
  /\ Done(p)
  /\ UNCHANGED transfers

BuyByBank(p) ==
  /\ At(p, "payByBank")
  /\ \E buy \in TxId :
       /\ Fresh(buy)
       /\ tx' = [CancelSeen(p) EXCEPT
                   ![buy] = BuyRow(req[p].user, req[p].photo, "SEPAY", "PENDING", 0)]
  /\ Done(p)
  /\ UNCHANGED transfers

-----------------------------------------------------------------------------
(* The bank and its webhook: SepayService.processTransaction *)

\* Somebody makes a bank transfer that names a transaction.
Transfer(id, a) ==
  /\ Used(id)
  /\ Cardinality(transfers) < MaxTransfers
  /\ transfers' = transfers \cup {[id |-> id, amount |-> a]}
  /\ UNCHANGED <<tx, req>>

\* Mutant: the amount is not compared.
WebhookReadAnyAmount(h, t) ==
  /\ Pending(t.id)
  /\ tx[t.id].type # "IMAGE_SELL"
  /\ Begin(h, [Idle EXCEPT !.pc = "settle", !.id = t.id])
  /\ UNCHANGED <<tx, transfers>>

\* Mutant: a row that is settled already is settled again.
WebhookReadSettled(h, t) ==
  /\ Used(t.id)
  /\ tx[t.id].amount = t.amount
  /\ tx[t.id].type # "IMAGE_SELL"
  /\ Begin(h, [Idle EXCEPT !.pc = "settle", !.id = t.id])
  /\ UNCHANGED <<tx, transfers>>

\* A delivery reads the row: settled rows are answered unchanged, and a
\* different amount throws.  IMAGE_SELL rows need nothing.
WebhookRead(h, t) ==
  /\ Pending(t.id)
  /\ tx[t.id].amount = t.amount
  /\ tx[t.id].type # "IMAGE_SELL"
  /\ Begin(h, [Idle EXCEPT !.pc = "settle", !.id = t.id])
  /\ UNCHANGED <<tx, transfers>>

\* handleDeposit and handleWithdrawal: SUCCESS by id, whatever the row is now.
SettleTransfer(h) ==
  /\ At(h, "settle")
  /\ tx[req[h].id].type \in {"DEPOSIT", "WITHDRAWAL"}
  /\ tx' = [tx EXCEPT ![req[h].id].status = "SUCCESS", ![req[h].id].paid = TRUE]
  /\ Done(h)
  /\ UNCHANGED transfers

\* Mutant: the seller's row is created and not linked.
SettleBuyMutant(h) ==
  /\ At(h, "settle")
  /\ tx[req[h].id].type = "IMAGE_BUY"
  /\ \E sell \in TxId :
       LET buy == req[h].id IN
       /\ Fresh(sell)
       /\ tx' = [tx EXCEPT
                   ![sell] = SellRow(SellerOf[tx[buy].photo], tx[buy].amount, tx[buy].fee, TRUE),
                   ![buy]  = [@ EXCEPT !.status = "SUCCESS", !.paid = TRUE, !.method = "SEPAY"]]
  /\ Done(h)
  /\ UNCHANGED transfers

\* handleBuy: the buyer's row becomes SUCCESS and a new seller's row is created
\* and linked, in one nested write, whatever the rows are now.
SettleBuy(h) ==
  /\ At(h, "settle")
  /\ tx[req[h].id].type = "IMAGE_BUY"
  /\ \E sell \in TxId :
       LET buy == req[h].id IN
       /\ Fresh(sell)
       /\ tx' = [tx EXCEPT
                   ![sell] = SellRow(SellerOf[tx[buy].photo], tx[buy].amount, tx[buy].fee, TRUE),
                   ![buy]  = [@ EXCEPT !.status = "SUCCESS", !.paid = TRUE,
                                       !.method = "SEPAY", !.credit = sell]]
  /\ Done(h)
  /\ UNCHANGED transfers

-----------------------------------------------------------------------------
(* The managers: TransactionService *)

PendingWithdrawal(id) == tx[id].type = "WITHDRAWAL" /\ Pending(id)

\* acceptWithdrawal reads the row, uploads the proof to the CDN, then writes.
AcceptRead(p, id) ==
  /\ PendingWithdrawal(id)
  /\ Begin(p, [Idle EXCEPT !.pc = "uploadProof", !.id = id])
  /\ UNCHANGED <<tx, transfers>>

AcceptWrite(p) ==
  /\ At(p, "uploadProof")
  /\ tx' = [tx EXCEPT ![req[p].id].status = "SUCCESS", ![req[p].id].proof = TRUE]
  /\ Done(p)
  /\ UNCHANGED transfers

DenyRead(p, id) ==
  /\ PendingWithdrawal(id)
  /\ Begin(p, [Idle EXCEPT !.pc = "deny", !.id = id])
  /\ UNCHANGED <<tx, transfers>>

DenyWrite(p) ==
  /\ At(p, "deny")
  /\ tx' = [tx EXCEPT ![req[p].id].status = "CANCEL", ![req[p].id].reason = TRUE]
  /\ Done(p)
  /\ UNCHANGED transfers

\* update: any PENDING row, to any status; SUCCESS needs the owner's balance.
UpdateRead(p, id, st) ==
  /\ Pending(id)
  /\ Begin(p, [Idle EXCEPT !.pc = "managerWallet", !.id = id, !.status = st])
  /\ UNCHANGED <<tx, transfers>>

UpdateCheckWallet(p) ==
  /\ At(p, "managerWallet")
  /\ LET t == tx[req[p].id] IN
     IF req[p].status = "SUCCESS" /\ t.amount > Balance(t.user)
     THEN Done(p) ELSE Goto(p, "managerWrite")
  /\ UNCHANGED <<tx, transfers>>

UpdateWrite(p) ==
  /\ At(p, "managerWrite")
  /\ tx' = [tx EXCEPT ![req[p].id].status = req[p].status]
  /\ Done(p)
  /\ UNCHANGED transfers

-----------------------------------------------------------------------------
(* The clean-up cron, and requests that die *)

\* Rows are created in id order, so the rows older than a limit are those up to
\* some id; how much time has passed since the last run is not modelled.
Expire(old) ==
  /\ \E id \in old : Pending(id)
  /\ tx' = [id \in TxId |-> IF id \in old /\ Pending(id)
                            THEN [tx[id] EXCEPT !.status = "EXPIRED"] ELSE tx[id]]
  /\ UNCHANGED <<transfers, req>>

\* The two updateMany statements of a run touch disjoint rows.
ExpirePayments(cutoff) == Expire({id \in 1..cutoff : tx[id].type # "WITHDRAWAL"})

\* Mutant: the second statement filters like the first.
ExpireWithdrawalsMutant(cutoff) == Expire({id \in 1..cutoff : tx[id].type # "WITHDRAWAL"})

ExpireWithdrawals(cutoff) == Expire({id \in 1..cutoff : tx[id].type = "WITHDRAWAL"})

\* A database error, a failed upload or a restart ends a request where it is.
Abort(p) ==
  /\ req[p].pc # "idle"
  /\ Done(p)
  /\ UNCHANGED <<tx, transfers>>

-----------------------------------------------------------------------------
UserNext ==
  \/ \E u \in Users, a \in Amounts : CreateDeposit(u, a)
  \/ \E p \in Procs :
       \/ \E u \in Users, a \in Amounts : WithdrawBalance(p, u, a)
       \/ WithdrawFind(p) \/ WithdrawCreate(p)
       \/ \E u \in Users, ph \in Photos : BuyRequest(p, u, ph)
       \/ BuyFindPending(p) \/ BuyCheckWallet(p)
       \/ BuyByWallet(p) \/ BuyByBank(p)

BankNext ==
  \/ \E id \in TxId, a \in TransferAmounts : Transfer(id, a)
  \/ \E h \in Hooks :
       \/ \E t \in transfers : WebhookRead(h, t)
       \/ SettleTransfer(h) \/ SettleBuy(h)

ManagerNext ==
  \E p \in Procs :
    \/ \E id \in TxId : AcceptRead(p, id) \/ DenyRead(p, id)
    \/ \E id \in TxId, st \in ManagerStatuses : UpdateRead(p, id, st)
    \/ AcceptWrite(p) \/ DenyWrite(p)
    \/ UpdateCheckWallet(p) \/ UpdateWrite(p)

CronNext == \E cutoff \in TxId : ExpirePayments(cutoff) \/ ExpireWithdrawals(cutoff)

Next ==
  \/ UserNext
  \/ BankNext
  \/ ManagerNext
  \/ CronNext
  \/ \E p \in Procs \cup Hooks : Abort(p)

\* The scheduler runs the cron every minute and time passes, so that every row
\* comes to be older than a run's limits.  Nothing else is promised: users,
\* managers and the bank may stop, and any request may die.
Fairness ==
  \A id \in TxId :
    /\ WF_vars(\E cutoff \in id..MaxTx : ExpirePayments(cutoff))
    /\ WF_vars(\E cutoff \in id..MaxTx : ExpireWithdrawals(cutoff))

Spec == Init /\ [][Next]_vars /\ Fairness

-----------------------------------------------------------------------------
(* Properties *)

\* A purchase the buyer has paid for, by bank or from the wallet.
PaidBuy(id) ==
  /\ Used(id)
  /\ tx[id].type = "IMAGE_BUY"
  /\ tx[id].paid \/ tx[id].method = "WALLET"

IsSell(id) == Used(id) /\ tx[id].type = "IMAGE_SELL"

\* A row carries the bank's payload only if the bank really received exactly
\* its amount under its id, however deliveries, retries, the cron and the
\* managers interleave (processTransaction checks status and amount on a copy
\* of the row that may be stale when the handler writes).
BankPaid ==
  \A id \in TxId :
    tx[id].paid /\ tx[id].type # "IMAGE_SELL"
      => [id |-> id, amount |-> tx[id].amount] \in transfers

\* The two halves of a sale stay together: a purchase is linked to a seller's
\* row exactly when the buyer has paid, the linked row pays the photographer
\* the same amount and fee, and no two purchases share one.  It must survive a
\* purchase being cancelled or expired while its webhook is in flight.
SaleIsPaired ==
  /\ \A id \in TxId : PaidBuy(id) <=> tx[id].credit # 0
  /\ \A id \in TxId : tx[id].credit # 0 =>
       LET sell == tx[tx[id].credit] IN
       /\ sell.type = "IMAGE_SELL" /\ sell.status = "SUCCESS"
       /\ sell.user = SellerOf[tx[id].photo]
       /\ sell.amount = tx[id].amount /\ sell.fee = tx[id].fee
  /\ \A i, j \in TxId : tx[i].credit = tx[j].credit /\ tx[i].credit # 0 => i = j

\* A photographer is credited only for a purchase somebody paid for, the same
\* amount, even when webhook deliveries overlap.
CreditsBacked ==
  \A s \in TxId : IsSell(s) =>
    \E b \in TxId : /\ PaidBuy(b)
                    /\ SellerOf[tx[b].photo] = tx[s].user
                    /\ tx[b].amount = tx[s].amount

\* The payment core implements AtomicSale: a buyer's payment and the
\* photographer's credit appear in one step and stay for good.  Cancelling,
\* expiring or re-deciding a purchase that is being paid may not separate them.
Sale == INSTANCE AtomicSale WITH
  Id <- TxId, Amounts <- Prices,
  paid <- [id \in {i \in TxId : PaidBuy(i)} |-> <<tx[id].photo, tx[id].amount>>],
  credits <- [id \in {i \in TxId : IsSell(i)} |-> <<tx[id].user, tx[id].amount>>]

SalesAreAtomic == Sale!Spec

\* One purchase credits the photographer once.  It needs webhook deliveries not
\* to overlap: handleBuy creates the seller's row without looking again.
OneCreditPerPurchase ==
  \A s \in TxId : IsSell(s) => \E b \in TxId : tx[b].credit = s

\* What the bank account received for deposits and purchases, less what was
\* paid out for withdrawals.
CashOf(id) ==
  CASE /\ tx[id].type \in {"DEPOSIT", "IMAGE_BUY"}
       /\ [id |-> id, amount |-> tx[id].amount] \in transfers -> tx[id].amount
    [] tx[id].type = "WITHDRAWAL" /\ tx[id].status = "SUCCESS" -> -tx[id].amount
    [] OTHER -> 0
Cash == SumFunction([id \in TxId |-> CashOf(id)])

\* The platform never owes its users more than it has received: the balances
\* computed row by row for every user are covered by bank money.
Solvent == SumFunction([u \in Users |-> Balance(u)]) <= Cash

MaxOf(S) == CHOOSE m \in S : \A n \in S : n <= m
LargestDebit == MaxOf(Amounts \cup Prices)

\* Balances are checked outside the transaction that spends them, so requests in
\* flight together can overdraw a wallet: never by more than each of the others
\* can spend at once.  With one request at a time no balance is negative.
OverdraftBounded ==
  \A u \in Users :
    Balance(u) >= -LargestDebit * (Cardinality(Procs \cup Hooks) - 1)

\* No transaction stays PENDING: unpaid rows are expired by the cron even if
\* every user, manager and webhook stops.
PendingIsDecided == \A id \in TxId : Pending(id) ~> ~Pending(id)
=============================================================================
