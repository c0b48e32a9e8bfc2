--------------------------- MODULE PaymentsProofs ---------------------------
(***************************************************************************)
(* Theorems about the payment core, for every set of users, photos,        *)
(* requests and deliveries and every size of the transaction table.        *)
(***************************************************************************)
EXTENDS Payments, Sums, TLAPS

(***************************************************************************)
(* The inductive invariant.                                                *)
(***************************************************************************)

\* The table is filled in order, and an unused slot holds nothing.
SlotsOK ==
  /\ \A i, j \in TxId : i < j /\ Used(j) => Used(i)
  /\ \A id \in TxId : ~Used(id) => tx[id] = FreeRow

\* Only purchases name a photo, and they cost its price; sales are SUCCESS.
RowsOK ==
  \A id \in TxId :
    /\ Used(id) /\ tx[id].type = "IMAGE_BUY"
         => /\ tx[id].photo \in Photos
            /\ tx[id].amount = Price[tx[id].photo]
            /\ tx[id].fee = Fee(Price[tx[id].photo])
    /\ tx[id].type # "IMAGE_BUY" => tx[id].photo = None /\ tx[id].credit = 0
    /\ IsSell(id) => tx[id].status = "SUCCESS"

HoldsBuy == {"findPendingBuys", "checkWallet", "payByWallet", "payByBank"}
HoldsRow == {"uploadProof", "deny", "managerWallet", "managerWrite", "settle"}

\* What a request in flight holds is still true of the table.
RequestOK(p) ==
  /\ \A id \in req[p].seen : Used(id) /\ tx[id].type = "IMAGE_BUY"
  /\ req[p].pc \in HoldsBuy => req[p].photo \in Photos
  /\ req[p].pc \in HoldsRow
       => req[p].id \in TxId /\ Used(req[p].id) /\ tx[req[p].id].type # "IMAGE_SELL"
  /\ req[p].pc = "settle"
       => [id |-> req[p].id, amount |-> tx[req[p].id].amount] \in transfers

RequestsOK == \A p \in Procs \cup Hooks : RequestOK(p)

TableOK == SlotsOK /\ RowsOK /\ SaleIsPaired /\ CreditsBacked /\ BankPaid

IInv == TypeOK /\ TableOK /\ RequestsOK

-----------------------------------------------------------------------------
USE DEF TxId

LEMMA FeeType == ASSUME NEW n \in Nat PROVE Fee(n) \in Nat
  BY SMT DEF Fee

LEMMA FreeRowType == FreeRow \in Row
  BY DEF FreeRow, Row, TransactionType, PaymentMethod, Unused, TransactionStatus

LEMMA IdleType == Idle \in Request
  BY DEF Idle, Request, Pc, TransactionStatus

LEMMA NewRowType ==
  ASSUME NEW u \in Users \cup {None}, NEW type \in TransactionType, NEW method \in PaymentMethod,
         NEW a \in Nat, NEW st \in TransactionStatus
  PROVE  NewRow(u, type, method, a, st) \in Row
  BY FreeRowType DEF NewRow, FreeRow, Row, TransactionType, PaymentMethod, Unused, TransactionStatus

LEMMA InitOK == Init => IInv
<1> SUFFICES ASSUME Init PROVE IInv
  OBVIOUS
<1>1. TypeOK
  BY FreeRowType, IdleType DEF Init, TypeOK
<1>2. \A id \in TxId : ~Used(id) /\ tx[id] = FreeRow
  BY DEF Init, Used, FreeRow
<1>3. TableOK
  <2>1. \A id \in TxId : /\ tx[id].credit = 0 /\ tx[id].paid = FALSE /\ tx[id].photo = None
                         /\ ~PaidBuy(id) /\ ~IsSell(id)
    BY <1>2 DEF PaidBuy, IsSell, FreeRow
  <2>2. SlotsOK
    BY <1>2 DEF SlotsOK
  <2>3. RowsOK
    BY <1>2, <2>1 DEF RowsOK
  <2>4. SaleIsPaired /\ CreditsBacked /\ BankPaid
    BY <2>1 DEF SaleIsPaired, CreditsBacked, BankPaid
  <2> QED
    BY <2>2, <2>3, <2>4 DEF TableOK
<1>4. RequestsOK
  BY DEF Init, RequestsOK, RequestOK, Idle, HoldsBuy, HoldsRow
<1> QED
  BY <1>1, <1>3, <1>4 DEF IInv

-----------------------------------------------------------------------------
(***************************************************************************)
(* What actions do to the rows they do not create: they may decide a row,  *)
(* that is change its status and the proof or reason beside it, if it is   *)
(* in use and not a sale.  N is the set of rows the action creates.        *)
(***************************************************************************)
Decided(id) ==
  /\ ~Used(id) \/ IsSell(id) => tx'[id] = tx[id]
  /\ Used(id) => tx'[id].status # Unused
  /\ tx'[id].user = tx[id].user /\ tx'[id].type = tx[id].type
  /\ tx'[id].method = tx[id].method /\ tx'[id].amount = tx[id].amount
  /\ tx'[id].fee = tx[id].fee /\ tx'[id].paid = tx[id].paid
  /\ tx'[id].photo = tx[id].photo /\ tx'[id].credit = tx[id].credit

DecidesOutside(N) ==
  /\ tx' \in [TxId -> Row]
  /\ transfers \subseteq transfers'
  /\ \A id \in N : ~Used(id) /\ tx'[id].status # Unused
  /\ \A id \in TxId : id \notin N => Decided(id)

\* The rows outside N keep what the invariants say about them.
LEMMA OutsideKept ==
  ASSUME TypeOK, TableOK, NEW N \in SUBSET TxId, DecidesOutside(N)
  PROVE  /\ \A id \in TxId \ N : /\ Used(id)' <=> Used(id)
                                 /\ PaidBuy(id)' <=> PaidBuy(id)
                                 /\ IsSell(id)' <=> IsSell(id)
         /\ \A id \in TxId : tx[id].credit # 0 =>
              tx[id].credit \in TxId \ N /\ tx'[tx[id].credit] = tx[tx[id].credit]
<1>1. \A id \in TxId \ N : Used(id)' <=> Used(id)
  BY DEF DecidesOutside, Decided, Used
<1>2. \A id \in TxId \ N : (PaidBuy(id)' <=> PaidBuy(id)) /\ (IsSell(id)' <=> IsSell(id))
  BY <1>1 DEF DecidesOutside, Decided, PaidBuy, IsSell
<1>3. ASSUME NEW id \in TxId, tx[id].credit # 0
      PROVE  tx[id].credit \in TxId /\ IsSell(tx[id].credit)
  BY <1>3 DEF TableOK, SaleIsPaired, TypeOK, Row, IsSell, Used, Unused
<1>4. ASSUME NEW id \in TxId, IsSell(id)
      PROVE  id \in TxId \ N /\ tx'[id] = tx[id]
  BY <1>4 DEF DecidesOutside, Decided, IsSell
<1>5. ASSUME NEW id \in TxId, tx[id].credit # 0
      PROVE  tx[id].credit \in TxId \ N /\ tx'[tx[id].credit] = tx[tx[id].credit]
  <2>1. tx[id].credit \in TxId /\ IsSell(tx[id].credit)
    BY <1>3, <1>5
  <2> QED
    BY <2>1, <1>4
<1> QED
  BY <1>1, <1>2, <1>5

\* A row's part in a sale is as it was: as a purchase that is paid for, and as a
\* photographer's credit.
PaidKept(id) ==
  /\ PaidBuy(id)' <=> PaidBuy(id)
  /\ PaidBuy(id) => tx'[id].photo = tx[id].photo /\ tx'[id].amount = tx[id].amount

SellKept(id) ==
  /\ IsSell(id)' <=> IsSell(id)
  /\ IsSell(id) => tx'[id].user = tx[id].user /\ tx'[id].amount = tx[id].amount

SalesStill == \A id \in TxId : PaidKept(id) /\ SellKept(id)

\* Purchase b is paid for, perhaps once more, and s is its photographer's credit.
SaleMade ==
  \E b, s \in TxId :
    /\ PaidBuy(b)' /\ IsSell(s)' /\ ~IsSell(s)
    /\ PaidBuy(b) => tx'[b].photo = tx[b].photo /\ tx'[b].amount = tx[b].amount
    /\ tx'[b].photo \in Photos /\ tx'[b].amount = Price[tx'[b].photo]
    /\ tx'[s].user = SellerOf[tx'[b].photo] /\ tx'[s].amount = tx'[b].amount
    /\ \A id \in TxId : (id # b => PaidKept(id)) /\ (id # s => SellKept(id))

LEMMA OutsideKeepsSales ==
  ASSUME TypeOK, TableOK, NEW N \in SUBSET TxId, DecidesOutside(N)
  PROVE  \A id \in TxId \ N : PaidKept(id) /\ SellKept(id)
BY OutsideKept DEF DecidesOutside, Decided, PaidKept, SellKept

\* Deciding rows, and creating rows that take no part in a sale, makes no sale.
LEMMA DecidingKeepsSales ==
  ASSUME TypeOK, TableOK, NEW N \in SUBSET TxId, DecidesOutside(N),
         \A id \in N : ~PaidBuy(id)' /\ ~IsSell(id)'
  PROVE  SalesStill
<1>1. \A id \in N : ~PaidBuy(id) /\ ~IsSell(id)
  BY DEF DecidesOutside, PaidBuy, IsSell
<1>2. \A id \in N : PaidKept(id) /\ SellKept(id)
  BY <1>1 DEF PaidKept, SellKept
<1> QED
  BY <1>2, OutsideKeepsSales DEF SalesStill

\* An action that only decides rows keeps the table's invariant.
LEMMA DecidingKeepsTable ==
  ASSUME TypeOK, TableOK, DecidesOutside({})
  PROVE  TableOK'
<1>0. tx' \in [TxId -> Row] /\ transfers \subseteq transfers' /\ \A id \in TxId : Decided(id)
  BY DEF DecidesOutside
<1>1. /\ \A id \in TxId : /\ Used(id)' <=> Used(id)
                          /\ PaidBuy(id)' <=> PaidBuy(id)
                          /\ IsSell(id)' <=> IsSell(id)
      /\ \A id \in TxId : tx[id].credit # 0 =>
           tx[id].credit \in TxId /\ tx'[tx[id].credit] = tx[tx[id].credit]
  BY OutsideKept
<1>2. SlotsOK'
  BY <1>0, <1>1 DEF Decided, TableOK, SlotsOK, Used, IsSell, PaidBuy
<1>3. RowsOK'
  BY <1>0, <1>1 DEF Decided, TableOK, RowsOK, Used, IsSell, PaidBuy
<1>4. SaleIsPaired'
  BY <1>0, <1>1 DEF Decided, TableOK, SaleIsPaired, Used, IsSell, PaidBuy
<1>5. CreditsBacked'
  BY <1>0, <1>1 DEF Decided, TableOK, CreditsBacked, Used, IsSell, PaidBuy
<1>6. BankPaid'
  BY <1>0 DEF Decided, TableOK, BankPaid
<1> QED
  BY <1>2, <1>3, <1>4, <1>5, <1>6 DEF TableOK

\* So does one that also creates an unpaid row that is not a sale.
LEMMA CreatingKeepsTable ==
  ASSUME TypeOK, TableOK, NEW new \in TxId, Fresh(new), DecidesOutside({new}),
         tx'[new].type # "IMAGE_SELL", tx'[new].credit = 0, tx'[new].paid = FALSE,
         tx'[new].type # "IMAGE_BUY" => tx'[new].photo = None,
         tx'[new].type = "IMAGE_BUY" =>
           /\ tx'[new].photo \in Photos
           /\ tx'[new].amount = Price[tx'[new].photo]
           /\ tx'[new].fee = Fee(Price[tx'[new].photo])
           /\ tx'[new].method = "SEPAY"
  PROVE  TableOK'
<1>0. tx' \in [TxId -> Row] /\ transfers \subseteq transfers' /\ \A id \in TxId : id # new => Decided(id)
  BY DEF DecidesOutside
<1>1. /\ \A id \in TxId \ {new} : /\ Used(id)' <=> Used(id)
                                  /\ PaidBuy(id)' <=> PaidBuy(id)
                                  /\ IsSell(id)' <=> IsSell(id)
      /\ \A id \in TxId : tx[id].credit # 0 =>
           tx[id].credit \in TxId \ {new} /\ tx'[tx[id].credit] = tx[tx[id].credit]
  BY OutsideKept
<1>2. ~PaidBuy(new)' /\ ~IsSell(new)' /\ Used(new)' /\ ~PaidBuy(new)
  BY DEF PaidBuy, IsSell, Used, Fresh, DecidesOutside
<1>3. SlotsOK'
  BY <1>0, <1>1, <1>2 DEF Decided, TableOK, SlotsOK, Fresh, Used, IsSell, PaidBuy
<1>4. RowsOK'
  BY <1>0, <1>1, <1>2 DEF Decided, TableOK, RowsOK, Used, IsSell, PaidBuy
<1>5. SaleIsPaired'
  BY <1>0, <1>1, <1>2 DEF Decided, TableOK, SaleIsPaired, Used, IsSell, PaidBuy
<1>6. CreditsBacked'
  BY <1>0, <1>1, <1>2 DEF Decided, TableOK, CreditsBacked, Used, IsSell, PaidBuy
<1>7. BankPaid'
  BY <1>0 DEF Decided, TableOK, BankPaid
<1> QED
  BY <1>3, <1>4, <1>5, <1>6, <1>7 DEF TableOK

-----------------------------------------------------------------------------
(***************************************************************************)
(* Rows only grow: what a request holds about a row stays true.            *)
(***************************************************************************)
Grows ==
  /\ transfers \subseteq transfers'
  /\ \A id \in TxId : Used(id) => /\ tx'[id].status # Unused
                                  /\ tx'[id].type = tx[id].type
                                  /\ tx'[id].amount = tx[id].amount

\* A request that keeps what it holds, or lets go of it.
LEMMA RequestsKept ==
  ASSUME TypeOK, RequestsOK, Grows,
         req' \in [Procs \cup Hooks -> Request],
         NEW p \in Procs \cup Hooks, RequestOK(p)',
         \A q \in (Procs \cup Hooks) \ {p} : req'[q] = req[q]
  PROVE  RequestsOK'
<1> SUFFICES ASSUME NEW q \in Procs \cup Hooks, q # p
             PROVE  RequestOK(q)'
  BY DEF RequestsOK
<1>1. req'[q] = req[q] /\ RequestOK(q) /\ req[q] \in Request
  BY DEF RequestsOK, TypeOK
<1>2. \A id \in req[q].seen : id \in TxId
  BY <1>1 DEF Request
<1> QED
  BY <1>1, <1>2 DEF RequestOK, Grows, Used, HoldsRow

LEMMA RequestsUnchanged ==
  ASSUME TypeOK, RequestsOK, Grows, UNCHANGED req
  PROVE  RequestsOK'
<1> SUFFICES ASSUME NEW q \in Procs \cup Hooks
             PROVE  RequestOK(q)'
  BY DEF RequestsOK
<1>1. req'[q] = req[q] /\ RequestOK(q) /\ req[q] \in Request
  BY DEF RequestsOK, TypeOK
<1>2. \A id \in req[q].seen : id \in TxId
  BY <1>1 DEF Request
<1> QED
  BY <1>1, <1>2 DEF RequestOK, Grows, Used, HoldsRow

\* Ending a request.
LEMMA DoneOK ==
  ASSUME TypeOK, RequestsOK, Grows, NEW p \in Procs \cup Hooks, Done(p)
  PROVE  RequestsOK' /\ req' \in [Procs \cup Hooks -> Request]
<1>1. req' \in [Procs \cup Hooks -> Request]
  BY IdleType DEF TypeOK, Done
<1>2. req'[p] = Idle
  BY DEF TypeOK, Done
<1>3. RequestOK(p)'
  BY <1>2 DEF RequestOK, Idle, HoldsBuy, HoldsRow
<1>4. \A q \in (Procs \cup Hooks) \ {p} : req'[q] = req[q]
  BY DEF TypeOK, Done
<1> QED
  BY <1>1, <1>3, <1>4, RequestsKept

\* Moving a request on within what it holds.
LEMMA GotoOK ==
  ASSUME TypeOK, RequestsOK, Grows, NEW p \in Procs \cup Hooks, NEW pc \in Pc, Goto(p, pc),
         pc # "settle",
         pc \in HoldsBuy => req[p].pc \in HoldsBuy,
         pc \in HoldsRow => req[p].pc \in HoldsRow
  PROVE  RequestsOK' /\ req' \in [Procs \cup Hooks -> Request]
<1>1. req[p] \in Request
  BY DEF TypeOK
<1>2. req'[p] = [req[p] EXCEPT !.pc = pc]
  BY DEF TypeOK, Goto
<1>3. req'[p] \in Request
  BY <1>1, <1>2 DEF Request
<1>4. \A q \in (Procs \cup Hooks) \ {p} : req'[q] = req[q]
  BY DEF TypeOK, Goto
<1>5. req' \in [Procs \cup Hooks -> Request]
  BY <1>3, <1>4 DEF TypeOK, Goto
<1>6. /\ req'[p].pc = pc /\ req'[p].seen = req[p].seen
      /\ req'[p].photo = req[p].photo /\ req'[p].id = req[p].id
  BY <1>1, <1>2 DEF Request
<1>7. RequestOK(p)'
  <2>1. RequestOK(p) /\ req[p].seen \subseteq TxId
    BY <1>1 DEF RequestsOK, Request
  <2>2. \A id \in req'[p].seen : Used(id)' /\ tx'[id].type = "IMAGE_BUY"
    BY <1>6, <2>1 DEF RequestOK, Grows, Used
  <2>3. pc \in HoldsRow => /\ req'[p].id \in TxId /\ tx'[req'[p].id].status # Unused
                           /\ tx'[req'[p].id].type # "IMAGE_SELL"
    BY <1>6, <2>1 DEF RequestOK, Grows, Used
  <2> QED
    BY <1>6, <2>1, <2>2, <2>3 DEF RequestOK, Used
<1> QED
  BY <1>4, <1>5, <1>7, RequestsKept

\* Beginning a request: what it holds has just been read.
LEMMA BeginOK ==
  ASSUME TypeOK, RequestsOK, Grows, NEW p \in Procs \cup Hooks, NEW r \in Request, Begin(p, r),
         r.seen = {},
         r.pc \in HoldsBuy => r.photo \in Photos,
         r.pc \in HoldsRow => /\ r.id \in TxId /\ Used(r.id)
                              /\ tx[r.id].type # "IMAGE_SELL",
         r.pc = "settle" => [id |-> r.id, amount |-> tx[r.id].amount] \in transfers
  PROVE  RequestsOK' /\ req' \in [Procs \cup Hooks -> Request]
<1>1. req' \in [Procs \cup Hooks -> Request] /\ req'[p] = r
  BY DEF TypeOK, Begin
<1>2. \A q \in (Procs \cup Hooks) \ {p} : req'[q] = req[q]
  BY DEF TypeOK, Begin
<1>3. RequestOK(p)'
  BY <1>1 DEF RequestOK, Grows, Used, HoldsRow
<1> QED
  BY <1>1, <1>2, <1>3, RequestsKept

-----------------------------------------------------------------------------
(***************************************************************************)
(* Every action preserves the invariant.                                   *)
(***************************************************************************)

\* Requests move, the table does not.
LEMMA TableStill ==
  ASSUME IInv, UNCHANGED <<tx, transfers>>,
         RequestsOK', req' \in [Procs \cup Hooks -> Request]
  PROVE  IInv' /\ SalesStill
<1>1. TypeOK'
  BY DEF IInv, TypeOK
<1>2. DecidesOutside({})
  BY DEF IInv, TypeOK, DecidesOutside, Decided, Used
<1>3. TableOK'
  BY <1>2, DecidingKeepsTable DEF IInv
<1>4. SalesStill
  BY <1>2, DecidingKeepsSales DEF IInv
<1> QED
  BY <1>1, <1>3, <1>4 DEF IInv

LEMMA StillGrows ==
  ASSUME UNCHANGED <<tx, transfers>>
  PROVE  Grows
  BY DEF Grows, Used

\* A row is decided and the request that decided it ends.
LEMMA DecideAndDone ==
  ASSUME IInv, NEW p \in Procs \cup Hooks, Done(p), DecidesOutside({}), UNCHANGED transfers
  PROVE  IInv' /\ SalesStill
<1>1. TableOK'
  BY DecidingKeepsTable DEF IInv
<1>2. Grows
  BY DEF DecidesOutside, Decided, Grows
<1>3. RequestsOK' /\ req' \in [Procs \cup Hooks -> Request]
  BY <1>2, DoneOK DEF IInv
<1>4. TypeOK'
  BY <1>3 DEF IInv, TypeOK, DecidesOutside
<1>5. SalesStill
  BY DecidingKeepsSales DEF IInv
<1> QED
  BY <1>1, <1>3, <1>4, <1>5 DEF IInv

LEMMA CreateGrows ==
  ASSUME NEW N \in SUBSET TxId, DecidesOutside(N)
  PROVE  Grows
  BY DEF DecidesOutside, Decided, Grows, Used

LEMMA CreateDepositOK ==
  ASSUME IInv, NEW u \in Users, NEW a \in Amounts, CreateDeposit(u, a)
  PROVE  IInv' /\ SalesStill
<1>1. PICK id \in TxId :
        /\ Fresh(id)
        /\ tx' = [tx EXCEPT ![id] = NewRow(u, "DEPOSIT", "SEPAY", a, "PENDING")]
  BY DEF CreateDeposit
<1>2. a \in Nat /\ NewRow(u, "DEPOSIT", "SEPAY", a, "PENDING") \in Row
  BY PaymentsAssumption, NewRowType
     DEF PaymentMethod, TransactionType, TransactionStatus
<1>3. tx' \in [TxId -> Row] /\ tx'[id] = NewRow(u, "DEPOSIT", "SEPAY", a, "PENDING")
  BY <1>1, <1>2 DEF IInv, TypeOK
<1>4. /\ tx'[id].status = "PENDING" /\ tx'[id].type = "DEPOSIT"
      /\ tx'[id].credit = 0 /\ tx'[id].paid = FALSE /\ tx'[id].photo = None
  BY <1>3 DEF NewRow, FreeRow
<1>5. DecidesOutside({id})
  BY <1>1, <1>3, <1>4
     DEF DecidesOutside, Decided, Used, Unused, Fresh, CreateDeposit, IInv, TypeOK
<1>6. TableOK'
  BY <1>1, <1>4, <1>5, CreatingKeepsTable DEF IInv
<1>7. RequestsOK'
  BY <1>5, CreateGrows, RequestsUnchanged DEF IInv, CreateDeposit
<1>8. TypeOK'
  BY <1>3 DEF IInv, TypeOK, CreateDeposit
<1>9. SalesStill
  <2>1. ~PaidBuy(id)' /\ ~IsSell(id)'
    BY <1>4 DEF PaidBuy, IsSell
  <2> QED
    BY <1>5, <2>1, DecidingKeepsSales DEF IInv
<1> QED
  BY <1>6, <1>7, <1>8, <1>9 DEF IInv

LEMMA WithdrawCreateOK ==
  ASSUME IInv, NEW p \in Procs, WithdrawCreate(p)
  PROVE  IInv' /\ SalesStill
<1> DEFINE r == NewRow(req[p].user, "WITHDRAWAL", "WALLET", req[p].amount, "PENDING")
<1>1. PICK id \in TxId : Fresh(id) /\ tx' = [tx EXCEPT ![id] = r]
  BY DEF WithdrawCreate
<1>2. r \in Row
  BY NewRowType DEF PaymentMethod, TransactionType, TransactionStatus, IInv, TypeOK, Request
<1>3. tx' \in [TxId -> Row] /\ tx'[id] = r
  BY <1>1, <1>2 DEF IInv, TypeOK
<1>4. /\ tx'[id].status = "PENDING" /\ tx'[id].type = "WITHDRAWAL"
      /\ tx'[id].credit = 0 /\ tx'[id].paid = FALSE /\ tx'[id].photo = None
  BY <1>3 DEF NewRow, FreeRow
<1>5. DecidesOutside({id})
  BY <1>1, <1>3, <1>4
     DEF DecidesOutside, Decided, Used, Unused, Fresh, WithdrawCreate, IInv, TypeOK
<1>6. TableOK'
  BY <1>1, <1>4, <1>5, CreatingKeepsTable DEF IInv
<1>7. RequestsOK' /\ req' \in [Procs \cup Hooks -> Request]
  BY <1>5, CreateGrows, DoneOK DEF IInv, WithdrawCreate
<1>8. TypeOK'
  BY <1>3, <1>7 DEF IInv, TypeOK, WithdrawCreate
<1>9. SalesStill
  <2>1. ~PaidBuy(id)' /\ ~IsSell(id)'
    BY <1>4 DEF PaidBuy, IsSell
  <2> QED
    BY <1>5, <2>1, DecidingKeepsSales DEF IInv
<1> QED
  BY <1>6, <1>7, <1>8, <1>9 DEF IInv

\* Cancelling the purchases a request remembers only decides them.
LEMMA CancelSeenDecides ==
  ASSUME IInv, NEW p \in Procs \cup Hooks, NEW id \in TxId
  PROVE  LET r == CancelSeen(p)[id] IN
         /\ r \in Row
         /\ ~Used(id) \/ IsSell(id) => r = tx[id]
         /\ Used(id) => r.status # Unused
         /\ r.user = tx[id].user /\ r.type = tx[id].type
         /\ r.method = tx[id].method /\ r.amount = tx[id].amount
         /\ r.fee = tx[id].fee /\ r.paid = tx[id].paid
         /\ r.photo = tx[id].photo /\ r.credit = tx[id].credit
<1>1. tx[id] \in Row
  BY DEF IInv, TypeOK
<1>2. CancelSeen(p)[id] = IF id \in req[p].seen THEN [tx[id] EXCEPT !.status = "CANCEL"] ELSE tx[id]
  BY DEF CancelSeen
<1>3. id \in req[p].seen => Used(id) /\ tx[id].type = "IMAGE_BUY"
  BY DEF IInv, RequestsOK, RequestOK
<1>4. CASE id \in req[p].seen
  <2>1. CancelSeen(p)[id] = [tx[id] EXCEPT !.status = "CANCEL"]
    BY <1>2, <1>4
  <2> QED
    BY <1>1, <1>3, <1>4, <2>1 DEF Row, IsSell, Used, Unused, TransactionStatus
<1>5. CASE id \notin req[p].seen
  BY <1>1, <1>2, <1>5 DEF Used
<1> QED
  BY <1>4, <1>5

LEMMA BuyByBankOK ==
  ASSUME IInv, NEW p \in Procs, BuyByBank(p)
  PROVE  IInv' /\ SalesStill
<1> DEFINE r == BuyRow(req[p].user, req[p].photo, "SEPAY", "PENDING", 0)
<1>1. PICK id \in TxId : Fresh(id) /\ tx' = [CancelSeen(p) EXCEPT ![id] = r]
  BY DEF BuyByBank
<1>2. req[p].photo \in Photos /\ req[p].user \in Users \cup {None}
  BY DEF BuyByBank, At, IInv, RequestsOK, RequestOK, HoldsBuy, TypeOK, Request
<1>3. /\ r \in Row /\ r.type = "IMAGE_BUY" /\ r.status = "PENDING" /\ r.method = "SEPAY"
      /\ r.paid = FALSE /\ r.photo \in Photos /\ r.amount = Price[r.photo]
      /\ r.fee = Fee(Price[r.photo]) /\ r.credit = 0
  <2> DEFINE ph == req[p].photo
             n == NewRow(req[p].user, "IMAGE_BUY", "SEPAY", Price[ph], "PENDING")
  <2>1. Price[ph] \in Nat /\ Fee(Price[ph]) \in Nat
    BY <1>2, PaymentsAssumption, FeeType
  <2>2. n \in Row
    BY <1>2, <2>1, NewRowType DEF TransactionType, PaymentMethod, TransactionStatus
  <2>3. /\ n.type = "IMAGE_BUY" /\ n.status = "PENDING" /\ n.method = "SEPAY"
        /\ n.paid = FALSE /\ n.amount = Price[ph]
    BY DEF NewRow, FreeRow
  <2>4. r = [n EXCEPT !.fee = Fee(Price[ph]), !.photo = ph, !.credit = 0]
    BY DEF BuyRow
  <2> HIDE DEF n, r
  <2> QED
    BY <1>2, <2>1, <2>2, <2>3, <2>4 DEF Row
<1> HIDE DEF r
<1>4. DOMAIN CancelSeen(p) = TxId
  BY DEF CancelSeen
<1>5. tx'[id] = r /\ DOMAIN tx' = TxId
  BY <1>1, <1>4
<1>6. \A j \in TxId \ {id} : tx'[j] = CancelSeen(p)[j]
  BY <1>1, <1>4
<1>7. \A j \in TxId : CancelSeen(p)[j] \in Row
  BY CancelSeenDecides
<1>8. tx' \in [TxId -> Row]
  <2>1. tx' = [j \in TxId |-> tx'[j]]
    BY <1>1, <1>4
  <2> QED
    BY <1>3, <1>5, <1>6, <1>7, <2>1
<1>9. DecidesOutside({id})
  <2>1. ASSUME NEW j \in TxId, j # id PROVE Decided(j)
    BY <1>6, <2>1, CancelSeenDecides DEF Decided
  <2> QED
    BY <1>1, <1>3, <1>5, <1>8, <2>1 DEF DecidesOutside, Used, Unused, Fresh, BuyByBank
<1>10. TableOK'
  BY <1>1, <1>3, <1>5, <1>9, CreatingKeepsTable DEF IInv
<1>11. RequestsOK' /\ req' \in [Procs \cup Hooks -> Request]
  BY <1>9, CreateGrows, DoneOK DEF IInv, BuyByBank
<1>12. TypeOK'
  BY <1>8, <1>11 DEF IInv, TypeOK, BuyByBank
<1>13. SalesStill
  <2>1. ~PaidBuy(id)' /\ ~IsSell(id)'
    BY <1>3, <1>5 DEF PaidBuy, IsSell
  <2> QED
    BY <1>9, <2>1, DecidingKeepsSales DEF IInv
<1> QED
  BY <1>10, <1>11, <1>12, <1>13 DEF IInv

\* The seller's and the buyer's row are created next to each other.
LEMMA BuyByWalletOK ==
  ASSUME IInv, NEW p \in Procs, BuyByWallet(p)
  PROVE  IInv' /\ SaleMade
<1> DEFINE ph == req[p].photo
           s == SellRow(SellerOf[ph], Price[ph], Fee(Price[ph]), FALSE)
           b(sell) == BuyRow(req[p].user, ph, "WALLET", "SUCCESS", sell)
<1>1. PICK sell \in TxId, buy \in TxId :
        /\ Fresh(sell) /\ buy = sell + 1
        /\ tx' = [CancelSeen(p) EXCEPT ![sell] = s, ![buy] = b(sell)]
  BY DEF BuyByWallet
<1>2. ph \in Photos /\ req[p].user \in Users \cup {None}
  BY DEF BuyByWallet, At, IInv, RequestsOK, RequestOK, HoldsBuy, TypeOK, Request
<1>3. SellerOf[ph] \in Users /\ Price[ph] \in Nat /\ Fee(Price[ph]) \in Nat
  BY <1>2, PaymentsAssumption, FeeType
<1>4. /\ s \in Row /\ s.type = "IMAGE_SELL" /\ s.status = "SUCCESS"
      /\ s.user = SellerOf[ph] /\ s.amount = Price[ph] /\ s.fee = Fee(Price[ph])
      /\ s.photo = None /\ s.credit = 0
  <2> DEFINE n == NewRow(SellerOf[ph], "IMAGE_SELL", "WALLET", Price[ph], "SUCCESS")
  <2>1. n \in Row
    BY <1>3, NewRowType DEF TransactionType, PaymentMethod, TransactionStatus
  <2>2. /\ n.type = "IMAGE_SELL" /\ n.status = "SUCCESS" /\ n.user = SellerOf[ph]
        /\ n.amount = Price[ph] /\ n.photo = None /\ n.credit = 0
    BY DEF NewRow, FreeRow
  <2>3. s = [n EXCEPT !.fee = Fee(Price[ph]), !.paid = FALSE]
    BY DEF SellRow
  <2> HIDE DEF n, s
  <2> QED
    BY <1>3, <2>1, <2>2, <2>3 DEF Row
<1>5. /\ b(sell) \in Row /\ b(sell).type = "IMAGE_BUY" /\ b(sell).status = "SUCCESS"
      /\ b(sell).method = "WALLET" /\ b(sell).paid = FALSE /\ b(sell).photo = ph
      /\ b(sell).amount = Price[ph] /\ b(sell).fee = Fee(Price[ph]) /\ b(sell).credit = sell
  <2> DEFINE n == NewRow(req[p].user, "IMAGE_BUY", "WALLET", Price[ph], "SUCCESS")
  <2>1. n \in Row
    BY <1>2, <1>3, NewRowType DEF TransactionType, PaymentMethod, TransactionStatus
  <2>2. /\ n.type = "IMAGE_BUY" /\ n.status = "SUCCESS" /\ n.method = "WALLET"
        /\ n.paid = FALSE /\ n.amount = Price[ph]
    BY DEF NewRow, FreeRow
  <2>3. b(sell) = [n EXCEPT !.fee = Fee(Price[ph]), !.photo = ph, !.credit = sell]
    BY DEF BuyRow
  <2> HIDE DEF n, b
  <2> QED
    BY <1>2, <1>3, <2>1, <2>2, <2>3 DEF Row
<1> HIDE DEF s, b
<1>6. sell # buy /\ ~Used(sell) /\ ~Used(buy) /\ sell \in Int /\ buy \in Int
  <2>1. sell \in Int /\ buy \in Int /\ sell < buy
    BY <1>1, PaymentsAssumption
  <2>2. ~Used(sell)
    BY <1>1 DEF Fresh
  <2>3. Used(buy) => Used(sell)
    BY <2>1 DEF IInv, TableOK, SlotsOK
  <2> QED
    BY <2>1, <2>2, <2>3
<1>7. DOMAIN CancelSeen(p) = TxId
  BY DEF CancelSeen
<1>8. /\ tx'[sell] = s /\ tx'[buy] = b(sell)
      /\ \A j \in TxId \ {sell, buy} : tx'[j] = CancelSeen(p)[j]
  BY <1>1, <1>6, <1>7
<1>9. tx' \in [TxId -> Row]
  <2>1. tx' = [j \in TxId |-> tx'[j]]
    BY <1>1, <1>7
  <2>2. \A j \in TxId : CancelSeen(p)[j] \in Row
    BY CancelSeenDecides
  <2> QED
    BY <1>4, <1>5, <1>8, <2>1, <2>2
<1>10. DecidesOutside({sell, buy})
  <2>1. ASSUME NEW j \in TxId, j \notin {sell, buy} PROVE Decided(j)
    BY <1>8, <2>1, CancelSeenDecides DEF Decided
  <2>2. tx'[sell].status # Unused /\ tx'[buy].status # Unused
    BY <1>4, <1>5, <1>8 DEF Unused
  <2> QED
    BY <1>6, <1>9, <2>1, <2>2 DEF DecidesOutside, BuyByWallet
<1>11. TableOK'
  <2>0. transfers' = transfers
    BY DEF BuyByWallet
  <2>1. \A id \in TxId : id \notin {sell, buy} => Decided(id)
    BY <1>10 DEF DecidesOutside
  <2>2. /\ \A id \in TxId \ {sell, buy} : /\ Used(id)' <=> Used(id)
                                          /\ PaidBuy(id)' <=> PaidBuy(id)
                                          /\ IsSell(id)' <=> IsSell(id)
        /\ \A id \in TxId : tx[id].credit # 0 =>
             tx[id].credit \in TxId \ {sell, buy} /\ tx'[tx[id].credit] = tx[tx[id].credit]
    BY <1>10, OutsideKept DEF IInv
  <2>3. /\ Used(sell)' /\ IsSell(sell)' /\ ~PaidBuy(sell)'
        /\ Used(buy)' /\ ~IsSell(buy)' /\ PaidBuy(buy)'
    BY <1>4, <1>5, <1>8 DEF Used, IsSell, PaidBuy, Unused
  <2>4. \A id \in 1..(sell - 1) : Used(id)
    BY <1>1 DEF Fresh
  <2>5. SlotsOK'
    <3>1. ASSUME NEW i \in TxId, NEW j \in TxId, i < j, Used(j)' PROVE Used(i)'
      <4>1. CASE j \notin {sell, buy}
        <5>1. Used(j) /\ Used(i)
          BY <2>2, <3>1, <4>1 DEF IInv, TableOK, SlotsOK
        <5> QED
          BY <1>6, <2>2, <5>1
      <4>2. CASE j \in {sell, buy}
        <5>1. i \in 1..(sell - 1) \/ i = sell
          BY <1>1, <1>6, <3>1, <4>2
        <5> QED
          BY <1>6, <2>2, <2>3, <2>4, <5>1
      <4> QED
        BY <4>1, <4>2
    <3>2. ASSUME NEW id \in TxId, ~Used(id)' PROVE tx'[id] = FreeRow
      <4>1. id \notin {sell, buy} /\ ~Used(id)
        BY <2>2, <2>3, <3>2
      <4> QED
        BY <2>1, <4>1 DEF Decided, IInv, TableOK, SlotsOK
    <3> QED
      BY <3>1, <3>2 DEF SlotsOK
  <2>6. RowsOK'
    BY <1>2, <1>4, <1>5, <1>8, <2>1, <2>2, <2>3 DEF IInv, TableOK, RowsOK, Decided
  <2>7. SaleIsPaired'
    <3>1. sell # 0
      BY PaymentsAssumption
    <3>2. \A id \in TxId : PaidBuy(id)' <=> tx'[id].credit # 0
      BY <1>4, <1>5, <1>8, <2>1, <2>2, <2>3, <3>1 DEF IInv, TableOK, SaleIsPaired, Decided
    <3>3. ASSUME NEW id \in TxId, tx'[id].credit # 0
          PROVE  LET c == tx'[tx'[id].credit] IN
                 /\ c.type = "IMAGE_SELL" /\ c.status = "SUCCESS"
                 /\ c.user = SellerOf[tx'[id].photo]
                 /\ c.amount = tx'[id].amount /\ c.fee = tx'[id].fee
      BY <1>4, <1>5, <1>8, <2>1, <2>2, <3>3 DEF IInv, TableOK, SaleIsPaired, Decided
    <3>4. ASSUME NEW i \in TxId, NEW j \in TxId,
                 tx'[i].credit = tx'[j].credit, tx'[i].credit # 0
          PROVE  i = j
      BY <1>4, <1>5, <1>8, <2>1, <2>2, <3>4 DEF IInv, TableOK, SaleIsPaired, Decided
    <3> QED
      BY <3>2, <3>3, <3>4 DEF SaleIsPaired
  <2>8. CreditsBacked'
    <3>1. ASSUME NEW id \in TxId, IsSell(id)', id # sell
          PROVE  \E k \in TxId : /\ PaidBuy(k)'
                                 /\ SellerOf[tx'[k].photo] = tx'[id].user
                                 /\ tx'[k].amount = tx'[id].amount
      <4>1. id \notin {sell, buy} /\ IsSell(id)
        BY <2>2, <2>3, <3>1
      <4>2. PICK k \in TxId :
              PaidBuy(k) /\ SellerOf[tx[k].photo] = tx[id].user /\ tx[k].amount = tx[id].amount
        BY <4>1 DEF IInv, TableOK, CreditsBacked
      <4>3. k \notin {sell, buy}
        BY <1>6, <4>2 DEF PaidBuy
      <4> QED
        BY <2>1, <2>2, <4>1, <4>2, <4>3 DEF Decided
    <3>2. /\ PaidBuy(buy)' /\ SellerOf[tx'[buy].photo] = tx'[sell].user
          /\ tx'[buy].amount = tx'[sell].amount
      BY <1>4, <1>5, <1>8, <2>3
    <3> QED
      BY <3>1, <3>2 DEF CreditsBacked
  <2>9. BankPaid'
    BY <1>4, <1>5, <1>8, <2>0, <2>1 DEF IInv, TableOK, BankPaid, Decided
  <2> QED
    BY <2>5, <2>6, <2>7, <2>8, <2>9 DEF TableOK
<1>12. RequestsOK' /\ req' \in [Procs \cup Hooks -> Request]
  BY <1>10, CreateGrows, DoneOK DEF IInv, BuyByWallet
<1>13. TypeOK'
  BY <1>9, <1>12 DEF IInv, TypeOK, BuyByWallet
<1>14. SaleMade
  <2>1. PaidBuy(buy)' /\ IsSell(sell)' /\ ~IsSell(sell) /\ ~PaidBuy(buy)
    BY <1>4, <1>5, <1>6, <1>8 DEF Used, IsSell, PaidBuy, Unused
  <2>2. SellKept(buy) /\ PaidKept(sell)
    BY <1>4, <1>5, <1>6, <1>8 DEF SellKept, PaidKept, Used, IsSell, PaidBuy
  <2>3. \A id \in TxId \ {sell, buy} : PaidKept(id) /\ SellKept(id)
    BY <1>10, OutsideKeepsSales DEF IInv
  <2> QED
    BY <1>2, <1>4, <1>5, <1>8, <2>1, <2>2, <2>3 DEF SaleMade
<1> QED
  BY <1>11, <1>12, <1>13, <1>14 DEF IInv

\* The bank settles a deposit or a withdrawal: the row becomes paid, and the
\* delivery still holds the transfer that paid it.
LEMMA SettleTransferOK ==
  ASSUME IInv, NEW h \in Hooks, SettleTransfer(h)
  PROVE  IInv' /\ SalesStill
<1>0. PICK id \in TxId : id = req[h].id
  BY DEF SettleTransfer, At, IInv, RequestsOK, RequestOK, HoldsRow
<1>1. /\ id \in TxId /\ Used(id) /\ tx[id].type \in {"DEPOSIT", "WITHDRAWAL"}
      /\ [id |-> id, amount |-> tx[id].amount] \in transfers
  BY <1>0 DEF SettleTransfer, At, IInv, RequestsOK, RequestOK, HoldsRow
<1>2. tx[id] \in Row /\ DOMAIN tx = TxId
  BY <1>1 DEF IInv, TypeOK
<1>3. tx'[id] = [tx[id] EXCEPT !.status = "SUCCESS", !.paid = TRUE]
  BY <1>0, <1>1, <1>2 DEF SettleTransfer
<1>4. \A j \in TxId \ {id} : tx'[j] = tx[j]
  BY <1>0, <1>1, <1>2 DEF SettleTransfer
<1>5. /\ tx'[id] \in Row /\ tx'[id].status = "SUCCESS"
      /\ tx'[id].type = tx[id].type /\ tx'[id].amount = tx[id].amount
      /\ tx'[id].photo = tx[id].photo /\ tx'[id].credit = tx[id].credit
  BY <1>2, <1>3 DEF Row, TransactionStatus
<1>6. tx' \in [TxId -> Row]
  <2>1. DOMAIN tx' = TxId /\ tx' = [j \in TxId |-> tx'[j]]
    BY <1>2 DEF SettleTransfer
  <2> QED
    BY <1>4, <1>5, <2>1 DEF IInv, TypeOK
<1>7. transfers' = transfers
  BY DEF SettleTransfer
<1>8. \A j \in TxId :
        (Used(j)' <=> Used(j)) /\ (PaidBuy(j)' <=> PaidBuy(j)) /\ (IsSell(j)' <=> IsSell(j))
  BY <1>1, <1>4, <1>5 DEF Used, PaidBuy, IsSell, Unused
<1>9. TableOK'
  <2>1. SlotsOK'
    BY <1>1, <1>4, <1>8 DEF IInv, TableOK, SlotsOK
  <2>2. RowsOK'
    BY <1>1, <1>4, <1>5, <1>8 DEF IInv, TableOK, RowsOK
  <2>3. \A j \in TxId : tx[j].credit # 0 => tx[j].credit \in TxId \ {id}
    BY <1>1 DEF IInv, TypeOK, Row, TableOK, SaleIsPaired
  <2>4. tx[id].credit = 0
    BY <1>1 DEF IInv, TableOK, RowsOK
  <2>5. SaleIsPaired'
    BY <1>4, <1>5, <1>8, <2>3, <2>4 DEF IInv, TableOK, SaleIsPaired
  <2>6. CreditsBacked'
    BY <1>1, <1>4, <1>8 DEF IInv, TableOK, CreditsBacked, IsSell, PaidBuy
  <2>7. BankPaid'
    BY <1>1, <1>4, <1>5, <1>7 DEF IInv, TableOK, BankPaid
  <2> QED
    BY <2>1, <2>2, <2>5, <2>6, <2>7 DEF TableOK
<1>10. Grows
  BY <1>1, <1>4, <1>5, <1>7 DEF Grows, Used, Unused
<1>11. RequestsOK' /\ req' \in [Procs \cup Hooks -> Request]
  BY <1>10, DoneOK DEF IInv, SettleTransfer
<1>12. TypeOK'
  BY <1>6, <1>7, <1>11 DEF IInv, TypeOK
<1>13. SalesStill
  <2>1. ~PaidBuy(id) /\ ~IsSell(id)
    BY <1>1 DEF PaidBuy, IsSell
  <2> QED
    BY <1>4, <1>8, <2>1 DEF SalesStill, PaidKept, SellKept
<1> QED
  BY <1>9, <1>11, <1>12, <1>13 DEF IInv

\* The bank settles a purchase: the buyer's row is paid and linked to the new
\* row of the photographer, who may already have an older one for it.
LEMMA SettleBuyOK ==
  ASSUME IInv, NEW h \in Hooks, SettleBuy(h)
  PROVE  IInv' /\ SaleMade
<1>0. PICK buy \in TxId : buy = req[h].id
  BY DEF SettleBuy, At, IInv, RequestsOK, RequestOK, HoldsRow
<1> DEFINE s == SellRow(SellerOf[tx[buy].photo], tx[buy].amount, tx[buy].fee, TRUE)
           b(sell) == [tx[buy] EXCEPT !.status = "SUCCESS", !.paid = TRUE,
                                      !.method = "SEPAY", !.credit = sell]
<1>1. /\ buy \in TxId /\ Used(buy) /\ tx[buy].type = "IMAGE_BUY"
      /\ [id |-> buy, amount |-> tx[buy].amount] \in transfers
  BY <1>0 DEF SettleBuy, At, IInv, RequestsOK, RequestOK, HoldsRow
<1>2. tx[buy] \in Row /\ DOMAIN tx = TxId
  BY <1>1 DEF IInv, TypeOK
<1>3. PICK sell \in TxId :
        Fresh(sell) /\ tx' = [tx EXCEPT ![sell] = s, ![buy] = [@ EXCEPT !.status = "SUCCESS",
                                 !.paid = TRUE, !.method = "SEPAY", !.credit = sell]]
  BY <1>0 DEF SettleBuy
<1>4. sell # buy /\ ~Used(sell) /\ sell # 0
  BY <1>1, <1>3, PaymentsAssumption DEF Fresh
<1>5. /\ tx'[sell] = s /\ tx'[buy] = b(sell)
      /\ \A j \in TxId \ {sell, buy} : tx'[j] = tx[j]
  BY <1>1, <1>2, <1>3, <1>4
<1>6. /\ tx[buy].photo \in Photos /\ SellerOf[tx[buy].photo] \in Users
      /\ tx[buy].amount \in Nat /\ tx[buy].fee \in Nat
      /\ tx[buy].amount = Price[tx[buy].photo] /\ tx[buy].fee = Fee(Price[tx[buy].photo])
  BY <1>1, <1>2, PaymentsAssumption DEF IInv, TableOK, RowsOK, Row
<1>7. /\ s \in Row /\ s.type = "IMAGE_SELL" /\ s.status = "SUCCESS"
      /\ s.user = SellerOf[tx[buy].photo] /\ s.amount = tx[buy].amount /\ s.fee = tx[buy].fee
      /\ s.photo = None /\ s.credit = 0
  <2> DEFINE n == NewRow(SellerOf[tx[buy].photo], "IMAGE_SELL", "WALLET", tx[buy].amount, "SUCCESS")
  <2>1. n \in Row
    BY <1>6, NewRowType DEF TransactionType, PaymentMethod, TransactionStatus
  <2>2. /\ n.type = "IMAGE_SELL" /\ n.status = "SUCCESS" /\ n.user = SellerOf[tx[buy].photo]
        /\ n.amount = tx[buy].amount /\ n.photo = None /\ n.credit = 0
    BY DEF NewRow, FreeRow
  <2>3. s = [n EXCEPT !.fee = tx[buy].fee, !.paid = TRUE]
    BY DEF SellRow
  <2> HIDE DEF n, s
  <2> QED
    BY <1>6, <2>1, <2>2, <2>3 DEF Row
<1>8. /\ b(sell) \in Row /\ b(sell).type = "IMAGE_BUY" /\ b(sell).status = "SUCCESS"
      /\ b(sell).paid = TRUE /\ b(sell).photo = tx[buy].photo
      /\ b(sell).amount = tx[buy].amount /\ b(sell).fee = tx[buy].fee /\ b(sell).credit = sell
  BY <1>1, <1>2 DEF Row, TransactionStatus, PaymentMethod
<1> HIDE DEF s, b
<1>9. tx' \in [TxId -> Row]
  <2>1. tx' = [j \in TxId |-> tx'[j]]
    BY <1>2, <1>3
  <2> QED
    BY <1>5, <1>7, <1>8, <2>1 DEF IInv, TypeOK
<1>10. transfers' = transfers
  BY DEF SettleBuy
<1>11. /\ Used(sell)' /\ IsSell(sell)' /\ ~PaidBuy(sell)'
       /\ Used(buy)' /\ ~IsSell(buy)' /\ PaidBuy(buy)'
  BY <1>5, <1>7, <1>8 DEF Used, IsSell, PaidBuy, Unused
<1>12. \A j \in TxId \ {sell, buy} :
        (Used(j)' <=> Used(j)) /\ (PaidBuy(j)' <=> PaidBuy(j)) /\ (IsSell(j)' <=> IsSell(j))
  BY <1>5 DEF Used, PaidBuy, IsSell
<1>13. \A j \in TxId : tx[j].credit # 0 =>
         /\ tx[j].credit \in TxId \ {sell, buy}
         /\ tx'[tx[j].credit] = tx[tx[j].credit]
  <2>1. ASSUME NEW j \in TxId, tx[j].credit # 0
        PROVE  tx[j].credit \in TxId \ {sell, buy}
    BY <1>1, <1>4, <2>1 DEF IInv, TypeOK, Row, TableOK, SaleIsPaired, Used, Unused
  <2> QED
    BY <1>5, <2>1
<1>14. TableOK'
  <2>1. SlotsOK'
    <3>1. \A j \in TxId \ {sell} : Used(j)' <=> Used(j)
      BY <1>1, <1>11, <1>12
    <3>2. ASSUME NEW i \in TxId, NEW j \in TxId, i < j, Used(j)' PROVE Used(i)'
      <4>1. CASE j = sell
        <5>1. i \in 1..(sell - 1)
          BY <3>2, <4>1, PaymentsAssumption
        <5> QED
          BY <1>3, <3>1, <5>1 DEF Fresh
      <4>2. CASE j # sell
        <5>1. Used(i)
          BY <3>1, <3>2, <4>2 DEF IInv, TableOK, SlotsOK
        <5> QED
          BY <1>4, <3>1, <5>1
      <4> QED
        BY <4>1, <4>2
    <3>3. ASSUME NEW id \in TxId, ~Used(id)' PROVE tx'[id] = FreeRow
      BY <1>5, <1>11, <1>12, <3>3 DEF IInv, TableOK, SlotsOK
    <3> QED
      BY <3>2, <3>3 DEF SlotsOK
  <2>2. RowsOK'
    BY <1>5, <1>6, <1>7, <1>8, <1>11, <1>12 DEF IInv, TableOK, RowsOK
  <2>3. SaleIsPaired'
    <3>1. \A j \in TxId : PaidBuy(j)' <=> tx'[j].credit # 0
      BY <1>4, <1>5, <1>7, <1>8, <1>11, <1>12 DEF IInv, TableOK, SaleIsPaired
    <3>2. ASSUME NEW j \in TxId, tx'[j].credit # 0
          PROVE  LET c == tx'[tx'[j].credit] IN
                 /\ c.type = "IMAGE_SELL" /\ c.status = "SUCCESS"
                 /\ c.user = SellerOf[tx'[j].photo]
                 /\ c.amount = tx'[j].amount /\ c.fee = tx'[j].fee
      BY <1>5, <1>7, <1>8, <1>13, <3>2 DEF IInv, TableOK, SaleIsPaired
    <3>3. ASSUME NEW i \in TxId, NEW j \in TxId,
                 tx'[i].credit = tx'[j].credit, tx'[i].credit # 0
          PROVE  i = j
      BY <1>5, <1>7, <1>8, <1>13, <3>3 DEF IInv, TableOK, SaleIsPaired
    <3> QED
      BY <3>1, <3>2, <3>3 DEF SaleIsPaired
  <2>4. CreditsBacked'
    <3>1. ASSUME NEW id \in TxId, IsSell(id)', id # sell
          PROVE  \E k \in TxId :
                   PaidBuy(k)' /\ SellerOf[tx'[k].photo] = tx'[id].user
                               /\ tx'[k].amount = tx'[id].amount
      <4>1. id \notin {sell, buy} /\ IsSell(id)
        BY <1>11, <1>12, <3>1
      <4>2. PICK k \in TxId :
              PaidBuy(k) /\ SellerOf[tx[k].photo] = tx[id].user /\ tx[k].amount = tx[id].amount
        BY <4>1 DEF IInv, TableOK, CreditsBacked
      <4>3. k # sell
        BY <1>4, <4>2 DEF PaidBuy
      <4>4. PaidBuy(k)' /\ tx'[k].photo = tx[k].photo /\ tx'[k].amount = tx[k].amount
        BY <1>5, <1>8, <1>11, <1>12, <4>2, <4>3
      <4> QED
        BY <1>5, <4>1, <4>2, <4>4
    <3>2. PaidBuy(buy)' /\ SellerOf[tx'[buy].photo] = tx'[sell].user
                        /\ tx'[buy].amount = tx'[sell].amount
      BY <1>5, <1>7, <1>8, <1>11
    <3> QED
      BY <1>1, <3>1, <3>2 DEF CreditsBacked
  <2>5. BankPaid'
    BY <1>1, <1>5, <1>7, <1>8, <1>10 DEF IInv, TableOK, BankPaid
  <2> QED
    BY <2>1, <2>2, <2>3, <2>4, <2>5 DEF TableOK
<1>15. Grows
  BY <1>1, <1>4, <1>5, <1>8, <1>10 DEF Grows, Used, Unused
<1>16. RequestsOK' /\ req' \in [Procs \cup Hooks -> Request]
  BY <1>15, DoneOK DEF IInv, SettleBuy
<1>17. TypeOK'
  BY <1>9, <1>10, <1>16 DEF IInv, TypeOK
<1>18. SaleMade
  <2>1. ~IsSell(sell) /\ ~IsSell(buy) /\ ~PaidBuy(sell)
    BY <1>1, <1>4 DEF IsSell, PaidBuy
  <2>2. SellKept(buy) /\ PaidKept(sell)
    BY <1>11, <2>1 DEF SellKept, PaidKept
  <2>3. \A id \in TxId \ {sell, buy} : PaidKept(id) /\ SellKept(id)
    BY <1>5, <1>12 DEF PaidKept, SellKept
  <2> QED
    BY <1>1, <1>5, <1>6, <1>7, <1>8, <1>11, <2>1, <2>2, <2>3 DEF SaleMade
<1> QED
  BY <1>14, <1>16, <1>17, <1>18 DEF IInv

\* A manager's request begins with a PENDING row.
LEMMA DecisionBeginOK ==
  ASSUME IInv, UNCHANGED <<tx, transfers>>, NEW p \in Procs \cup Hooks,
         NEW id \in TxId, Pending(id), NEW r \in Request, Begin(p, r),
         r.seen = {}, r.id = id, r.pc \in {"uploadProof", "deny", "managerWallet"}
  PROVE  RequestsOK' /\ req' \in [Procs \cup Hooks -> Request]
<1>1. r.pc \notin HoldsBuy /\ r.pc # "settle"
  BY DEF HoldsBuy
<1>2. r.id \in TxId /\ Used(r.id) /\ tx[r.id].type # "IMAGE_SELL"
  BY DEF IInv, TableOK, RowsOK, IsSell, Pending, Used, Unused
<1> QED
  BY <1>1, <1>2, StillGrows, BeginOK DEF IInv

\* The steps of requests that only read.
LEMMA ReadsOK ==
  ASSUME IInv, NEW p \in Procs \cup Hooks,
         \/ \E u \in Users, a \in Amounts : WithdrawBalance(p, u, a)
         \/ WithdrawFind(p)
         \/ \E u \in Users, ph \in Photos : BuyRequest(p, u, ph)
         \/ BuyFindPending(p) \/ BuyCheckWallet(p)
         \/ \E t \in transfers : WebhookRead(p, t)
         \/ \E id \in TxId : AcceptRead(p, id) \/ DenyRead(p, id)
         \/ \E id \in TxId, st \in ManagerStatuses : UpdateRead(p, id, st)
         \/ UpdateCheckWallet(p)
         \/ Abort(p)
  PROVE  IInv' /\ SalesStill
<1>0. UNCHANGED <<tx, transfers>> /\ Grows
  BY StillGrows DEF WithdrawBalance, WithdrawFind, BuyRequest, BuyFindPending, BuyCheckWallet,
     WebhookRead, AcceptRead, DenyRead, UpdateRead, UpdateCheckWallet, Abort
<1> SUFFICES RequestsOK' /\ req' \in [Procs \cup Hooks -> Request]
  BY <1>0, TableStill
<1>1. CASE \E u \in Users, a \in Amounts : WithdrawBalance(p, u, a)
  <2>1. PICK u \in Users, a \in Amounts :
          Begin(p, [Idle EXCEPT !.pc = "findPendingWithdrawal", !.user = u, !.amount = a])
    BY <1>1 DEF WithdrawBalance
  <2> DEFINE r == [Idle EXCEPT !.pc = "findPendingWithdrawal", !.user = u, !.amount = a]
  <2>2. r \in Request /\ r.seen = {} /\ r.pc = "findPendingWithdrawal"
    BY IdleType, PaymentsAssumption DEF Idle, Request, Pc
  <2> HIDE DEF r
  <2>3. r.pc \notin HoldsBuy /\ r.pc \notin HoldsRow /\ r.pc # "settle"
    BY <2>2 DEF HoldsBuy, HoldsRow
  <2>4. Begin(p, r)
    BY <2>1 DEF r
  <2> QED
    BY <1>0, <2>2, <2>3, <2>4, BeginOK DEF IInv
<1>2. CASE WithdrawFind(p)
  <2>1. CASE Done(p)
    BY <1>0, <2>1, DoneOK DEF IInv
  <2>2. CASE Goto(p, "createWithdrawal")
    <3>1. /\ "createWithdrawal" \in Pc /\ "createWithdrawal" # "settle"
          /\ "createWithdrawal" \notin HoldsBuy \cup HoldsRow
      BY DEF Pc, HoldsBuy, HoldsRow
    <3> QED
      BY <1>0, <2>2, <3>1, GotoOK DEF IInv
  <2> QED
    BY <1>2, <2>1, <2>2 DEF WithdrawFind
<1>3. CASE \E u \in Users, ph \in Photos : BuyRequest(p, u, ph)
  <2>1. PICK u \in Users, ph \in Photos :
          Begin(p, [Idle EXCEPT !.pc = "findPendingBuys", !.user = u, !.photo = ph])
    BY <1>3 DEF BuyRequest
  <2> DEFINE r == [Idle EXCEPT !.pc = "findPendingBuys", !.user = u, !.photo = ph]
  <2>2. r \in Request /\ r.seen = {} /\ r.pc = "findPendingBuys" /\ r.photo \in Photos
    BY IdleType DEF Idle, Request, Pc
  <2> HIDE DEF r
  <2>3. r.pc \notin HoldsRow /\ r.pc # "settle"
    BY <2>2 DEF HoldsRow
  <2>4. Begin(p, r)
    BY <2>1 DEF r
  <2> QED
    BY <1>0, <2>2, <2>3, <2>4, BeginOK DEF IInv
<1>4. CASE BuyFindPending(p)
  <2> DEFINE S == {id \in BuysOf(req[p].user, req[p].photo) : Pending(id)}
  <2>1. PICK next \in {"checkWallet", "payByBank"} :
          req' = [req EXCEPT ![p].pc = next, ![p].seen = S]
    BY <1>4 DEF BuyFindPending
  <2>2. req[p] \in Request /\ req[p].photo \in Photos
    BY <1>4 DEF BuyFindPending, At, HoldsBuy, IInv, RequestsOK, RequestOK, TypeOK
  <2>3. S \in SUBSET TxId /\ \A id \in S : Used(id) /\ tx[id].photo = req[p].photo
    BY DEF BuysOf
  <2>4. \A id \in S : Used(id) /\ tx[id].type = "IMAGE_BUY"
    BY <2>2, <2>3, PaymentsAssumption DEF IInv, TableOK, RowsOK
  <2> HIDE DEF S
  <2>5. req'[p] = [req[p] EXCEPT !.pc = next, !.seen = S]
    BY <2>1 DEF IInv, TypeOK
  <2>6. /\ req'[p] \in Request /\ req'[p].pc = next
        /\ req'[p].seen = S /\ req'[p].photo = req[p].photo
    BY <2>2, <2>3, <2>5 DEF Request, Pc
  <2>7. \A q \in (Procs \cup Hooks) \ {p} : req'[q] = req[q]
    BY <2>1 DEF IInv, TypeOK
  <2>8. req' \in [Procs \cup Hooks -> Request]
    BY <2>1, <2>6, <2>7 DEF IInv, TypeOK
  <2>9. next \notin HoldsRow /\ next # "settle"
    BY DEF HoldsRow
  <2>10. \A id \in S : Used(id)' /\ tx'[id].type = "IMAGE_BUY"
    BY <1>0, <2>4 DEF Used
  <2>11. RequestOK(p)'
    BY <2>2, <2>6, <2>9, <2>10 DEF RequestOK
  <2> QED
    BY <1>0, <2>7, <2>8, <2>11, RequestsKept DEF IInv
<1>5. CASE BuyCheckWallet(p)
  <2>1. CASE Done(p)
    BY <1>0, <2>1, DoneOK DEF IInv
  <2>2. CASE Goto(p, "payByWallet")
    <3>1. /\ "payByWallet" \in Pc /\ "payByWallet" # "settle"
          /\ "payByWallet" \notin HoldsRow /\ req[p].pc \in HoldsBuy
      BY <1>5 DEF Pc, HoldsBuy, HoldsRow, BuyCheckWallet, At
    <3> QED
      BY <1>0, <2>2, <3>1, GotoOK DEF IInv
  <2> QED
    BY <1>5, <2>1, <2>2 DEF BuyCheckWallet
<1>6. CASE \E t \in transfers : WebhookRead(p, t)
  <2>1. PICK t \in transfers :
          /\ Pending(t.id) /\ tx[t.id].amount = t.amount /\ tx[t.id].type # "IMAGE_SELL"
          /\ Begin(p, [Idle EXCEPT !.pc = "settle", !.id = t.id])
    BY <1>6 DEF WebhookRead
  <2>2. t.id \in TxId /\ t = [id |-> t.id, amount |-> t.amount]
    BY DEF IInv, TypeOK
  <2>3. [id |-> t.id, amount |-> tx[t.id].amount] \in transfers
    BY <2>1, <2>2
  <2>4. PICK id \in TxId : id = t.id
    BY <2>2
  <2> DEFINE r == [Idle EXCEPT !.pc = "settle", !.id = id]
  <2>5. r \in Request /\ r.seen = {} /\ r.pc = "settle" /\ r.id = id
    BY IdleType DEF Idle, Request, Pc
  <2> HIDE DEF r
  <2>6. Begin(p, r)
    BY <2>1, <2>4 DEF r
  <2>7. /\ Used(r.id) /\ tx[r.id].type # "IMAGE_SELL" /\ r.id \in TxId
        /\ [id |-> r.id, amount |-> tx[r.id].amount] \in transfers
    BY <2>1, <2>3, <2>4, <2>5 DEF Used, Pending, Unused
  <2>8. r.pc \notin HoldsBuy
    BY <2>5 DEF HoldsBuy
  <2> QED
    BY <1>0, <2>5, <2>6, <2>7, <2>8, BeginOK DEF IInv
<1>7. CASE \E id \in TxId : AcceptRead(p, id) \/ DenyRead(p, id)
  <2>1. PICK id \in TxId, pc \in {"uploadProof", "deny"} :
          Pending(id) /\ Begin(p, [Idle EXCEPT !.pc = pc, !.id = id])
    BY <1>7 DEF AcceptRead, DenyRead, PendingWithdrawal
  <2> DEFINE r == [Idle EXCEPT !.pc = pc, !.id = id]
  <2>2. r \in Request /\ r.seen = {} /\ r.pc = pc /\ r.id = id
    BY IdleType DEF Idle, Request, Pc
  <2>3. Begin(p, r)
    BY <2>1
  <2> HIDE DEF r
  <2> QED
    BY <1>0, <2>1, <2>2, <2>3, DecisionBeginOK
<1>8. CASE \E id \in TxId, st \in ManagerStatuses : UpdateRead(p, id, st)
  <2>1. PICK id \in TxId, st \in ManagerStatuses :
          Pending(id) /\ Begin(p, [Idle EXCEPT !.pc = "managerWallet", !.id = id, !.status = st])
    BY <1>8 DEF UpdateRead
  <2> DEFINE r == [Idle EXCEPT !.pc = "managerWallet", !.id = id, !.status = st]
  <2>2. r \in Request /\ r.seen = {} /\ r.pc = "managerWallet" /\ r.id = id
    BY IdleType, PaymentsAssumption DEF Idle, Request, Pc
  <2>3. Begin(p, r)
    BY <2>1
  <2> HIDE DEF r
  <2> QED
    BY <1>0, <2>1, <2>2, <2>3, DecisionBeginOK
<1>9. CASE UpdateCheckWallet(p)
  <2>1. CASE Done(p)
    BY <1>0, <2>1, DoneOK DEF IInv
  <2>2. CASE Goto(p, "managerWrite")
    <3>1. /\ "managerWrite" \in Pc /\ "managerWrite" # "settle"
          /\ "managerWrite" \notin HoldsBuy /\ req[p].pc \in HoldsRow
      BY <1>9 DEF Pc, HoldsBuy, HoldsRow, UpdateCheckWallet, At
    <3> QED
      BY <1>0, <2>2, <3>1, GotoOK DEF IInv
  <2> QED
    BY <1>9, <2>1, <2>2 DEF UpdateCheckWallet
<1>10. CASE Abort(p)
  BY <1>0, <1>10, DoneOK DEF IInv, Abort
<1> QED
  BY <1>1, <1>2, <1>3, <1>4, <1>5, <1>6, <1>7, <1>8, <1>9, <1>10

\* The writes that decide one row: its status and what stands beside it change.
LEMMA DecideOneOK ==
  ASSUME IInv, NEW p \in Procs, Done(p), UNCHANGED transfers,
         req[p].pc \in HoldsRow,
         NEW id \in TxId, id = req[p].id,
         NEW r \in Row, tx' = [tx EXCEPT ![id] = r], r.status # Unused,
         \A f \in {"user", "type", "method", "amount", "fee", "paid", "photo", "credit"} :
           r[f] = tx[id][f]
  PROVE  IInv' /\ SalesStill
<1>1. Used(id) /\ tx[id].type # "IMAGE_SELL"
  BY DEF IInv, RequestsOK, RequestOK
<1>2. tx' \in [TxId -> Row] /\ tx'[id] = r /\ \A j \in TxId \ {id} : tx'[j] = tx[j]
  BY DEF IInv, TypeOK
<1>3. ASSUME NEW j \in TxId PROVE Decided(j)
  BY <1>1, <1>2 DEF Decided, Used, IsSell
<1>4. DecidesOutside({})
  BY <1>2, <1>3 DEF DecidesOutside
<1> QED
  BY <1>4, DecideAndDone

\* acceptWithdrawal, denyWithdrawal and update write the row they once read.
LEMMA ManagerWritesOK ==
  ASSUME IInv, NEW p \in Procs, AcceptWrite(p) \/ DenyWrite(p) \/ UpdateWrite(p)
  PROVE  IInv' /\ SalesStill
<1>1. req[p].pc \in HoldsRow /\ Done(p) /\ UNCHANGED transfers
  BY DEF AcceptWrite, DenyWrite, UpdateWrite, At, HoldsRow
<1>2. PICK id \in TxId : id = req[p].id
  BY <1>1 DEF IInv, RequestsOK, RequestOK
<1>3. tx[id] \in Row /\ req[p] \in Request
  BY DEF IInv, TypeOK
<1>4. CASE AcceptWrite(p)
  <2> DEFINE r == [tx[id] EXCEPT !.status = "SUCCESS", !.proof = TRUE]
  <2>1. tx' = [tx EXCEPT ![id] = r]
    BY <1>2, <1>3, <1>4 DEF AcceptWrite, Row
  <2>2. r \in Row /\ r.status # Unused
    BY <1>3 DEF Row, TransactionStatus, Unused
  <2>3. \A f \in {"user", "type", "method", "amount", "fee", "paid", "photo", "credit"} :
          r[f] = tx[id][f]
    BY <1>3 DEF Row
  <2> HIDE DEF r
  <2> QED
    BY <1>1, <1>2, <2>1, <2>2, <2>3, DecideOneOK
<1>5. CASE DenyWrite(p)
  <2> DEFINE r == [tx[id] EXCEPT !.status = "CANCEL", !.reason = TRUE]
  <2>1. tx' = [tx EXCEPT ![id] = r]
    BY <1>2, <1>3, <1>5 DEF DenyWrite, Row
  <2>2. r \in Row /\ r.status # Unused
    BY <1>3 DEF Row, TransactionStatus, Unused
  <2>3. \A f \in {"user", "type", "method", "amount", "fee", "paid", "photo", "credit"} :
          r[f] = tx[id][f]
    BY <1>3 DEF Row
  <2> HIDE DEF r
  <2> QED
    BY <1>1, <1>2, <2>1, <2>2, <2>3, DecideOneOK
<1>6. CASE UpdateWrite(p)
  <2> DEFINE r == [tx[id] EXCEPT !.status = req[p].status]
  <2>1. tx' = [tx EXCEPT ![id] = r]
    BY <1>2, <1>6 DEF UpdateWrite
  <2>2. r \in Row /\ r.status # Unused
    BY <1>3 DEF Row, Request, TransactionStatus, Unused
  <2>3. \A f \in {"user", "type", "method", "amount", "fee", "paid", "photo", "credit"} :
          r[f] = tx[id][f]
    BY <1>3 DEF Row
  <2> HIDE DEF r
  <2> QED
    BY <1>1, <1>2, <2>1, <2>2, <2>3, DecideOneOK
<1> QED
  BY <1>4, <1>5, <1>6

\* The cron decides any set of PENDING rows at once.
LEMMA ExpireOK ==
  ASSUME IInv, NEW old, Expire(old)
  PROVE  IInv' /\ SalesStill
<1>1. DecidesOutside({})
  <2>1. ASSUME NEW id \in TxId PROVE tx'[id] \in Row /\ Decided(id)
    <3>1. tx[id] \in Row
      BY DEF IInv, TypeOK
    <3>2. CASE id \in old /\ Pending(id)
      <4>1. tx'[id] = [tx[id] EXCEPT !.status = "EXPIRED"]
        BY <3>2 DEF Expire
      <4>2. Used(id) /\ ~IsSell(id)
        BY <3>2 DEF Pending, Used, Unused, IInv, TableOK, RowsOK, IsSell
      <4> QED
        BY <3>1, <4>1, <4>2 DEF Decided, Row, TransactionStatus, Unused, Used
    <3>3. CASE ~(id \in old /\ Pending(id))
      <4>1. tx'[id] = tx[id]
        BY <3>3 DEF Expire
      <4> QED
        BY <3>1, <4>1 DEF Decided, Used
    <3> QED
      BY <3>2, <3>3
  <2>2. tx' = [id \in TxId |-> tx'[id]]
    BY DEF Expire
  <2>3. tx' \in [TxId -> Row]
    BY <2>1, <2>2
  <2> QED
    BY <2>1, <2>3 DEF DecidesOutside, Expire
<1>2. TableOK'
  BY <1>1, DecidingKeepsTable DEF IInv
<1>3. RequestsOK'
  BY <1>1, CreateGrows, RequestsUnchanged DEF IInv, Expire
<1>4. SalesStill
  BY <1>1, DecidingKeepsSales DEF IInv
<1> QED
  BY <1>1, <1>2, <1>3, <1>4 DEF IInv, TypeOK, Expire, DecidesOutside

\* The bank account only receives more.
LEMMA TransferOK ==
  ASSUME IInv, NEW id \in TxId, NEW a \in TransferAmounts, Transfer(id, a)
  PROVE  IInv' /\ SalesStill
<1>1. transfers' \subseteq [id : TxId, amount : Nat] /\ transfers \subseteq transfers'
  BY PaymentsAssumption DEF IInv, TypeOK, Transfer
<1>2. DecidesOutside({})
  BY <1>1 DEF IInv, TypeOK, Transfer, DecidesOutside, Decided, Used
<1>3. TableOK'
  BY <1>2, DecidingKeepsTable DEF IInv
<1>4. RequestsOK'
  BY <1>2, CreateGrows, RequestsUnchanged DEF IInv, Transfer
<1>5. SalesStill
  BY <1>2, DecidingKeepsSales DEF IInv
<1> QED
  BY <1>1, <1>3, <1>4, <1>5 DEF IInv, TypeOK, Transfer

\* Every step keeps the invariant, and makes one sale or none.
LEMMA NextOK == IInv /\ [Next]_vars => IInv' /\ (SalesStill \/ SaleMade)
<1> SUFFICES ASSUME IInv, [Next]_vars PROVE IInv' /\ (SalesStill \/ SaleMade)
  OBVIOUS
<1>1. CASE UserNext
  <2>1. CASE \E u \in Users, a \in Amounts : CreateDeposit(u, a)
    BY <2>1, CreateDepositOK
  <2>2. CASE \E p \in Procs : WithdrawCreate(p)
    BY <2>2, WithdrawCreateOK
  <2>3. CASE \E p \in Procs : BuyByWallet(p)
    BY <2>3, BuyByWalletOK
  <2>4. CASE \E p \in Procs : BuyByBank(p)
    BY <2>4, BuyByBankOK
  <2>5. CASE \E p \in Procs :
               \/ \E u \in Users, a \in Amounts : WithdrawBalance(p, u, a)
               \/ WithdrawFind(p)
               \/ \E u \in Users, ph \in Photos : BuyRequest(p, u, ph)
               \/ BuyFindPending(p) \/ BuyCheckWallet(p)
    BY <2>5, ReadsOK
  <2> QED
    BY <1>1, <2>1, <2>2, <2>3, <2>4, <2>5 DEF UserNext
<1>2. CASE BankNext
  <2>1. CASE \E id \in TxId, a \in TransferAmounts : Transfer(id, a)
    BY <2>1, TransferOK
  <2>2. CASE \E h \in Hooks : SettleTransfer(h)
    BY <2>2, SettleTransferOK
  <2>3. CASE \E h \in Hooks : SettleBuy(h)
    BY <2>3, SettleBuyOK
  <2>4. CASE \E h \in Hooks : \E t \in transfers : WebhookRead(h, t)
    BY <2>4, ReadsOK
  <2> QED
    BY <1>2, <2>1, <2>2, <2>3, <2>4 DEF BankNext
<1>3. CASE ManagerNext
  <2>1. CASE \E p \in Procs : AcceptWrite(p) \/ DenyWrite(p) \/ UpdateWrite(p)
    BY <2>1, ManagerWritesOK
  <2>2. CASE \E p \in Procs :
               \/ \E id \in TxId : AcceptRead(p, id) \/ DenyRead(p, id)
               \/ \E id \in TxId, st \in ManagerStatuses : UpdateRead(p, id, st)
               \/ UpdateCheckWallet(p)
    BY <2>2, ReadsOK
  <2> QED
    BY <1>3, <2>1, <2>2 DEF ManagerNext
<1>4. CASE CronNext
  BY <1>4, ExpireOK DEF CronNext, ExpirePayments, ExpireWithdrawals
<1>5. CASE \E p \in Procs \cup Hooks : Abort(p)
  BY <1>5, ReadsOK
<1>6. CASE UNCHANGED vars
  <2>1. UNCHANGED <<tx, transfers, req>>
    BY <1>6 DEF vars
  <2>2. RequestsOK' /\ req' \in [Procs \cup Hooks -> Request]
    BY <2>1, StillGrows, RequestsUnchanged DEF IInv, TypeOK
  <2> QED
    BY <2>1, <2>2, TableStill
<1> QED
  BY <1>1, <1>2, <1>3, <1>4, <1>5, <1>6 DEF Next

-----------------------------------------------------------------------------
(***************************************************************************)
(* The theorems.                                                           *)
(***************************************************************************)

\* The invariant holds in every reachable state.
LEMMA Invariance == Spec => []IInv
  BY InitOK, NextOK, PTL DEF Spec

\* Every row, transfer and request in flight is well formed: every fee computed,
\* every id remembered and every status written lies in the schema's types.
THEOREM TypeCorrect == Spec => []TypeOK
<1>1. IInv => TypeOK
  BY DEF IInv
<1> QED
  BY <1>1, Invariance, PTL

\* Whatever deliveries, the cron, buyers' cancellations and managers do to a
\* purchase, it is linked to a photographer's row for the same amount and fee
\* exactly when the buyer has paid.
THEOREM SalesPaired == Spec => []SaleIsPaired
<1>1. IInv => SaleIsPaired
  BY DEF IInv, TableOK
<1> QED
  BY <1>1, Invariance, PTL

\* No photographer is credited without a purchase paid for the same amount,
\* however many deliveries of one transfer overlap.
THEOREM CreditsAreBacked == Spec => []CreditsBacked
<1>1. IInv => CreditsBacked
  BY DEF IInv, TableOK
<1> QED
  BY <1>1, Invariance, PTL

\* A row reported paid by the bank was paid by the bank, exactly its amount.
THEOREM PaidByBank == Spec => []BankPaid
<1>1. IInv => BankPaid
  BY DEF IInv, TableOK
<1> QED
  BY <1>1, Invariance, PTL

\* The rows' part in sales, as the abstract specification sees it.
LEMMA SaleSteps ==
  ASSUME IInv, SalesStill \/ SaleMade
  PROVE  [Sale!Next]_Sale!avars
<1> DEFINE B == {i \in TxId : PaidBuy(i)}
           S == {i \in TxId : IsSell(i)}
           paid == [id \in B |-> <<tx[id].photo, tx[id].amount>>]
           credits == [id \in S |-> <<tx[id].user, tx[id].amount>>]
<1>1. CASE SalesStill
  <2>1. B' = B /\ S' = S
    BY <1>1 DEF SalesStill, PaidKept, SellKept
  <2>2. paid' = paid
    BY <1>1, <2>1 DEF SalesStill, PaidKept
  <2>3. credits' = credits
    BY <1>1, <2>1 DEF SalesStill, SellKept
  <2> QED
    BY <2>2, <2>3 DEF Sale!avars
<1>2. CASE SaleMade
  <2>1. PICK b \in TxId, s \in TxId :
          /\ PaidBuy(b)' /\ IsSell(s)' /\ ~IsSell(s)
          /\ PaidBuy(b) => tx'[b].photo = tx[b].photo /\ tx'[b].amount = tx[b].amount
          /\ tx'[b].photo \in Photos /\ tx'[b].amount = Price[tx'[b].photo]
          /\ tx'[s].user = SellerOf[tx'[b].photo] /\ tx'[s].amount = tx'[b].amount
          /\ \A id \in TxId : (id # b => PaidKept(id)) /\ (id # s => SellKept(id))
    BY <1>2 DEF SaleMade
  <2>2. PICK ph \in Photos, a \in Prices : ph = tx'[b].photo /\ a = tx'[b].amount
    BY <2>1 DEF Prices
  <2>3. B' = B \cup {b} /\ S' = S \cup {s}
    BY <2>1 DEF PaidKept, SellKept
  <2>4. s \notin DOMAIN credits /\ (b \in DOMAIN paid => paid[b] = <<ph, a>>)
    BY <2>1, <2>2
  <2>5. paid' = Sale!Put(paid, b, <<ph, a>>)
    BY <2>1, <2>2, <2>3 DEF PaidKept, Sale!Put
  <2>6. credits' = Sale!Put(credits, s, <<SellerOf[ph], a>>)
    BY <2>1, <2>2, <2>3 DEF SellKept, Sale!Put
  <2>7. Sale!Sell(b, s, ph, a)
    BY <2>4, <2>5, <2>6 DEF Sale!Sell
  <2> QED
    BY <2>7 DEF Sale!Next
<1> QED
  BY <1>1, <1>2

\* The payment core implements AtomicSale: a buyer's payment and the
\* photographer's credit appear in one step, for the photo's price, and no
\* request, delivery, manager or cron run ever undoes or separates them.
THEOREM SalesImplemented == Spec => SalesAreAtomic
<1>1. Init => Sale!Init
  <2> SUFFICES ASSUME Init PROVE Sale!Init
    OBVIOUS
  <2>1. {i \in TxId : PaidBuy(i)} = {} /\ {i \in TxId : IsSell(i)} = {}
    BY DEF Init, PaidBuy, IsSell, Used, FreeRow
  <2> QED
    BY <2>1 DEF Sale!Init
<1>2. IInv /\ [Next]_vars => [Sale!Next]_Sale!avars
  BY NextOK, SaleSteps
<1> QED
  BY <1>1, <1>2, Invariance, PTL DEF Spec, SalesAreAtomic, Sale!Spec

-----------------------------------------------------------------------------
(***************************************************************************)
(* What steps do to one row and to one request, for the invariants that    *)
(* say more than IInv: about whose rows they are, and about money.         *)
(***************************************************************************)
Withdraws == {"findPendingWithdrawal", "createWithdrawal"}
Updates == {"managerWallet", "managerWrite"}

\* Request q decides row id when it ends.
Holds(q, id) == req[q].pc \in HoldsRow /\ req[q].id = id

SameRow(id) ==
  /\ tx'[id].user = tx[id].user /\ tx'[id].type = tx[id].type
  /\ tx'[id].amount = tx[id].amount /\ tx'[id].fee = tx[id].fee
  /\ tx'[id].photo = tx[id].photo

Keeps(id) ==
  /\ SameRow(id)
  /\ tx'[id].method = tx[id].method /\ tx'[id].paid = tx[id].paid
  /\ tx'[id].credit = tx[id].credit

\* A row in use is expired by the cron, cancelled by its buyer, decided by a
\* manager, or settled by the webhook.
Expired(id) == Pending(id) /\ Keeps(id) /\ tx'[id].status = "EXPIRED"

Cancelled(id) ==
  \E p \in Procs : id \in req[p].seen /\ Keeps(id) /\ tx'[id].status = "CANCEL"

DecidedBy(p, id) ==
  /\ Holds(p, id) /\ Keeps(id) /\ Done(p)
  /\ \/ req[p].pc = "uploadProof" /\ tx'[id].status = "SUCCESS"
     \/ req[p].pc = "deny" /\ tx'[id].status = "CANCEL"
     \/ req[p].pc = "managerWrite" /\ tx'[id].status = req[p].status

SettledBy(h, id) ==
  /\ Holds(h, id) /\ req[h].pc = "settle" /\ SameRow(id) /\ Done(h)
  /\ tx'[id].status = "SUCCESS" /\ tx'[id].paid = TRUE
  /\ \/ tx[id].type # "IMAGE_BUY" /\ tx'[id].method = tx[id].method /\ tx'[id].credit = tx[id].credit
     \/ tx[id].type = "IMAGE_BUY" /\ tx'[id].method = "SEPAY"

\* A row is created by a user, or to credit a photographer.
NewDeposit(id) ==
  /\ tx'[id].type = "DEPOSIT" /\ tx'[id].status = "PENDING" /\ tx'[id].credit = 0
  /\ tx'[id].user \in Users /\ tx'[id].amount \in Amounts

NewWithdrawal(p, id) ==
  /\ WithdrawCreate(p)
  /\ tx'[id].type = "WITHDRAWAL" /\ tx'[id].status = "PENDING" /\ tx'[id].credit = 0
  /\ tx'[id].user = req[p].user /\ tx'[id].amount = req[p].amount

NewBuy(p, id) ==
  /\ req[p].pc \in HoldsBuy /\ tx'[id].type = "IMAGE_BUY" /\ tx'[id].user = req[p].user
  /\ \/ tx'[id].status = "PENDING" /\ tx'[id].method = "SEPAY" /\ tx'[id].credit = 0
     \/ /\ BuyByWallet(p) /\ tx'[id].status = "SUCCESS" /\ tx'[id].method = "WALLET"
        /\ tx'[id].amount = Price[req[p].photo]

NewSell(id) ==
  /\ tx'[id].type = "IMAGE_SELL" /\ tx'[id].status = "SUCCESS"
  /\ tx'[id].user \in Users /\ tx'[id].fee <= tx'[id].amount
  /\ \E b \in TxId : tx'[b].credit = id

Created(id) ==
  /\ ~Used(id)
  /\ \/ NewDeposit(id) \/ NewSell(id)
     \/ \E p \in Procs : NewWithdrawal(p, id) \/ NewBuy(p, id)

RowStep(id) ==
  \/ tx'[id] = tx[id]
  \/ Expired(id) \/ Cancelled(id)
  \/ \E p \in Procs : DecidedBy(p, id)
  \/ \E h \in Hooks : SettledBy(h, id)
  \/ Created(id)

\* A request stays where it is, ends, or reads: it begins, or goes on within what
\* it holds.
Reads(q, pc) == UNCHANGED <<tx, transfers>> /\ req'[q].pc = pc

Begun(q) ==
  /\ req'[q].seen = {}
  /\ \/ \E u \in Users, a \in Amounts :
          /\ Reads(q, "findPendingWithdrawal") /\ q \in Procs /\ WithdrawBalance(q, u, a)
          /\ req'[q].user = u /\ req'[q].amount = a
     \/ Reads(q, "findPendingBuys") /\ req'[q].user \in Users
     \/ /\ req'[q].id \in TxId /\ Pending(req'[q].id)
        /\ \/ Reads(q, "settle") /\ q \in Hooks
           \/ \E pc \in {"uploadProof", "deny"} :
                Reads(q, pc) /\ tx[req'[q].id].type = "WITHDRAWAL"
           \/ Reads(q, "managerWallet") /\ req'[q].status \in ManagerStatuses

Moved(q) ==
  /\ req'[q].user = req[q].user /\ req'[q].amount = req[q].amount /\ req'[q].id = req[q].id
  /\ req'[q].photo = req[q].photo /\ req'[q].status = req[q].status
  /\ \/ /\ req'[q].seen = req[q].seen
        /\ \/ Reads(q, "createWithdrawal") /\ req[q].pc = "findPendingWithdrawal"
           \/ /\ Reads(q, "payByWallet") /\ req[q].pc = "checkWallet"
              /\ q \in Procs /\ BuyCheckWallet(q)
           \/ Reads(q, "managerWrite") /\ req[q].pc = "managerWallet"
     \/ /\ \A id \in req'[q].seen : id \in TxId /\ Pending(id) /\ tx[id].type = "IMAGE_BUY"
        /\ req[q].pc = "findPendingBuys"
        /\ \E pc \in {"checkWallet", "payByBank"} : Reads(q, pc)

ReqStep(q) == req'[q] = req[q] \/ req'[q] = Idle \/ Begun(q) \/ Moved(q)

-----------------------------------------------------------------------------
LEMMA FeeSmall == ASSUME NEW n \in Nat PROVE Fee(n) <= n
  BY SMT DEF Fee

\* Rows that a request cancels on its way.
LEMMA CancelStep ==
  ASSUME IInv, NEW p \in Procs, NEW id \in TxId, tx'[id] = CancelSeen(p)[id]
  PROVE  RowStep(id)
<1>1. tx'[id] = IF id \in req[p].seen THEN [tx[id] EXCEPT !.status = "CANCEL"] ELSE tx[id]
  BY DEF CancelSeen
<1>2. tx[id] \in Row
  BY DEF IInv, TypeOK
<1>3. CASE id \in req[p].seen
  <2>1. tx'[id] = [tx[id] EXCEPT !.status = "CANCEL"]
    BY <1>1, <1>3
  <2>2. Keeps(id) /\ tx'[id].status = "CANCEL"
    BY <1>2, <2>1 DEF Keeps, SameRow, Row
  <2> QED
    BY <1>3, <2>2 DEF Cancelled, RowStep
<1>4. CASE id \notin req[p].seen
  BY <1>1, <1>4 DEF RowStep
<1> QED
  BY <1>3, <1>4

LEMMA CreateDepositRows ==
  ASSUME IInv, NEW u \in Users, NEW a \in Amounts, CreateDeposit(u, a), NEW j \in TxId
  PROVE  RowStep(j)
<1>1. PICK id \in TxId :
        Fresh(id) /\ tx' = [tx EXCEPT ![id] = NewRow(u, "DEPOSIT", "SEPAY", a, "PENDING")]
  BY DEF CreateDeposit
<1>2. CASE j # id
  BY <1>1, <1>2 DEF RowStep, IInv, TypeOK
<1>3. CASE j = id
  <2>1. tx'[j] = NewRow(u, "DEPOSIT", "SEPAY", a, "PENDING")
    BY <1>1, <1>3 DEF IInv, TypeOK
  <2>2. /\ tx'[j].type = "DEPOSIT" /\ tx'[j].status = "PENDING" /\ tx'[j].credit = 0
        /\ tx'[j].user = u /\ tx'[j].amount = a
    BY <2>1 DEF NewRow, FreeRow
  <2> QED
    BY <1>1, <1>3, <2>2 DEF RowStep, Created, NewDeposit, Fresh
<1> QED
  BY <1>2, <1>3

LEMMA WithdrawCreateRows ==
  ASSUME IInv, NEW p \in Procs, WithdrawCreate(p), NEW j \in TxId
  PROVE  RowStep(j)
<1> DEFINE r == NewRow(req[p].user, "WITHDRAWAL", "WALLET", req[p].amount, "PENDING")
<1>1. PICK id \in TxId : Fresh(id) /\ tx' = [tx EXCEPT ![id] = r]
  BY DEF WithdrawCreate
<1>2. CASE j # id
  BY <1>1, <1>2 DEF RowStep, IInv, TypeOK
<1>3. CASE j = id
  <2>1. tx'[j] = r
    BY <1>1, <1>3 DEF IInv, TypeOK
  <2>2. /\ tx'[j].type = "WITHDRAWAL" /\ tx'[j].status = "PENDING" /\ tx'[j].credit = 0
        /\ tx'[j].user = req[p].user /\ tx'[j].amount = req[p].amount
    BY <2>1 DEF NewRow, FreeRow
  <2> QED
    BY <1>1, <1>3, <2>2 DEF RowStep, Created, NewWithdrawal, Fresh
<1> QED
  BY <1>2, <1>3

LEMMA BuyRowFields ==
  ASSUME NEW u, NEW ph, NEW method, NEW st, NEW credit
  PROVE  LET r == BuyRow(u, ph, method, st, credit) IN
         /\ r.type = "IMAGE_BUY" /\ r.user = u /\ r.method = method /\ r.status = st
         /\ r.amount = Price[ph] /\ r.credit = credit
  BY DEF BuyRow, NewRow, FreeRow

LEMMA BuyByBankRows ==
  ASSUME IInv, NEW p \in Procs, BuyByBank(p), NEW j \in TxId
  PROVE  RowStep(j)
<1> DEFINE r == BuyRow(req[p].user, req[p].photo, "SEPAY", "PENDING", 0)
<1>1. PICK id \in TxId : Fresh(id) /\ tx' = [CancelSeen(p) EXCEPT ![id] = r]
  BY DEF BuyByBank
<1>2. r.type = "IMAGE_BUY" /\ r.user = req[p].user /\ r.method = "SEPAY" /\ r.status = "PENDING" /\ r.credit = 0
  BY BuyRowFields
<1> HIDE DEF r
<1>3. DOMAIN CancelSeen(p) = TxId
  BY DEF CancelSeen
<1>4. CASE j # id
  <2>1. tx'[j] = CancelSeen(p)[j]
    BY <1>1, <1>3, <1>4
  <2> QED
    BY <2>1, CancelStep
<1>5. CASE j = id
  <2>1. tx'[j] = r
    BY <1>1, <1>3, <1>5
  <2> QED
    BY <1>1, <1>2, <1>5, <2>1 DEF RowStep, Created, NewBuy, Fresh, BuyByBank, At, HoldsBuy
<1> QED
  BY <1>4, <1>5

LEMMA BuyByWalletRows ==
  ASSUME IInv, NEW p \in Procs, BuyByWallet(p), NEW j \in TxId
  PROVE  RowStep(j)
<1> DEFINE ph == req[p].photo
           s == SellRow(SellerOf[ph], Price[ph], Fee(Price[ph]), FALSE)
           b(sell) == BuyRow(req[p].user, ph, "WALLET", "SUCCESS", sell)
<1>1. PICK sell \in TxId, buy \in TxId :
        /\ Fresh(sell) /\ buy = sell + 1
        /\ tx' = [CancelSeen(p) EXCEPT ![sell] = s, ![buy] = b(sell)]
  BY DEF BuyByWallet
<1>2. ph \in Photos
  BY DEF BuyByWallet, At, IInv, RequestsOK, RequestOK, HoldsBuy
<1>3. SellerOf[ph] \in Users /\ Price[ph] \in Nat /\ Fee(Price[ph]) <= Price[ph]
  BY <1>2, PaymentsAssumption, FeeSmall
<1>4. /\ s.type = "IMAGE_SELL" /\ s.status = "SUCCESS"
      /\ s.user = SellerOf[ph] /\ s.amount = Price[ph] /\ s.fee = Fee(Price[ph])
  BY DEF SellRow, NewRow, FreeRow
<1>5. /\ b(sell).type = "IMAGE_BUY" /\ b(sell).status = "SUCCESS" /\ b(sell).user = req[p].user
      /\ b(sell).method = "WALLET" /\ b(sell).amount = Price[ph] /\ b(sell).credit = sell
  BY BuyRowFields
<1> HIDE DEF s, b
<1>6. sell # buy /\ ~Used(sell) /\ ~Used(buy)
  <2>1. sell \in Int /\ buy \in Int /\ sell < buy
    BY <1>1, PaymentsAssumption
  <2>2. ~Used(sell)
    BY <1>1 DEF Fresh
  <2>3. Used(buy) => Used(sell)
    BY <2>1 DEF IInv, TableOK, SlotsOK
  <2> QED
    BY <2>1, <2>2, <2>3
<1>7. DOMAIN CancelSeen(p) = TxId
  BY DEF CancelSeen
<1>8. /\ tx'[sell] = s /\ tx'[buy] = b(sell)
      /\ \A i \in TxId \ {sell, buy} : tx'[i] = CancelSeen(p)[i]
  BY <1>1, <1>6, <1>7
<1>9. CASE j = sell
  <2>1. NewSell(j)
    BY <1>3, <1>4, <1>5, <1>8, <1>9 DEF NewSell
  <2> QED
    BY <1>6, <1>9, <2>1 DEF RowStep, Created
<1>10. CASE j = buy
  <2>1. NewBuy(p, j)
    BY <1>5, <1>8, <1>10 DEF NewBuy, BuyByWallet, At, HoldsBuy
  <2> QED
    BY <1>6, <1>10, <2>1 DEF RowStep, Created
<1>11. CASE j \notin {sell, buy}
  BY <1>8, <1>11, CancelStep
<1> QED
  BY <1>9, <1>10, <1>11

LEMMA SettleTransferRows ==
  ASSUME IInv, NEW h \in Hooks, SettleTransfer(h), NEW j \in TxId
  PROVE  RowStep(j)
<1>1. PICK id \in TxId : id = req[h].id
  BY DEF SettleTransfer, At, IInv, RequestsOK, RequestOK, HoldsRow
<1> DEFINE r == [tx[id] EXCEPT !.status = "SUCCESS", !.paid = TRUE]
<1>2. tx[id] \in Row
  BY DEF IInv, TypeOK
<1>3. tx' = [tx EXCEPT ![id] = r]
  BY <1>1, <1>2 DEF SettleTransfer, Row
<1>4. /\ r.user = tx[id].user /\ r.type = tx[id].type /\ r.amount = tx[id].amount
      /\ r.fee = tx[id].fee /\ r.photo = tx[id].photo /\ r.method = tx[id].method
      /\ r.credit = tx[id].credit /\ r.status = "SUCCESS" /\ r.paid = TRUE
  BY <1>2 DEF Row
<1> HIDE DEF r
<1>5. CASE j # id
  BY <1>3, <1>5 DEF RowStep, IInv, TypeOK
<1>6. CASE j = id
  <2>1. tx'[j] = r
    BY <1>3, <1>6 DEF IInv, TypeOK
  <2>2. Holds(h, j) /\ req[h].pc = "settle" /\ tx[j].type # "IMAGE_BUY"
    BY <1>1, <1>6 DEF SettleTransfer, At, Holds, HoldsRow
  <2>3. SettledBy(h, j)
    BY <1>4, <1>6, <2>1, <2>2 DEF SettledBy, SameRow, SettleTransfer, SettleBuy
  <2> QED
    BY <2>3 DEF RowStep
<1> QED
  BY <1>5, <1>6

LEMMA SettleBuyRows ==
  ASSUME IInv, NEW h \in Hooks, SettleBuy(h), NEW j \in TxId
  PROVE  RowStep(j)
<1>0. PICK buy \in TxId : buy = req[h].id
  BY DEF SettleBuy, At, IInv, RequestsOK, RequestOK, HoldsRow
<1> DEFINE s == SellRow(SellerOf[tx[buy].photo], tx[buy].amount, tx[buy].fee, TRUE)
           b(sell) == [tx[buy] EXCEPT !.status = "SUCCESS", !.paid = TRUE,
                                      !.method = "SEPAY", !.credit = sell]
<1>1. /\ Used(buy) /\ tx[buy].type = "IMAGE_BUY" /\ Holds(h, buy) /\ req[h].pc = "settle"
  BY <1>0 DEF SettleBuy, At, IInv, RequestsOK, RequestOK, HoldsRow, Holds
<1>2. tx[buy] \in Row /\ DOMAIN tx = TxId
  BY DEF IInv, TypeOK
<1>3. PICK sell \in TxId :
        Fresh(sell) /\ tx' = [tx EXCEPT ![sell] = s, ![buy] = [@ EXCEPT !.status = "SUCCESS",
                                 !.paid = TRUE, !.method = "SEPAY", !.credit = sell]]
  BY <1>0 DEF SettleBuy
<1>4. sell # buy /\ ~Used(sell)
  BY <1>1, <1>3 DEF Fresh
<1>5. /\ tx'[sell] = s /\ tx'[buy] = b(sell)
      /\ \A i \in TxId \ {sell, buy} : tx'[i] = tx[i]
  BY <1>2, <1>3, <1>4
<1>6. /\ SellerOf[tx[buy].photo] \in Users /\ tx[buy].fee <= tx[buy].amount
  <2>1. /\ tx[buy].photo \in Photos /\ tx[buy].amount = Price[tx[buy].photo]
        /\ tx[buy].fee = Fee(Price[tx[buy].photo])
    BY <1>1 DEF IInv, TableOK, RowsOK
  <2> QED
    BY <2>1, PaymentsAssumption, FeeSmall
<1>7. /\ s.type = "IMAGE_SELL" /\ s.status = "SUCCESS" /\ s.user = SellerOf[tx[buy].photo]
      /\ s.amount = tx[buy].amount /\ s.fee = tx[buy].fee
  BY DEF SellRow, NewRow, FreeRow
<1>8. /\ b(sell).user = tx[buy].user /\ b(sell).type = tx[buy].type
      /\ b(sell).amount = tx[buy].amount /\ b(sell).fee = tx[buy].fee
      /\ b(sell).photo = tx[buy].photo /\ b(sell).method = "SEPAY"
      /\ b(sell).credit = sell /\ b(sell).status = "SUCCESS" /\ b(sell).paid = TRUE
  BY <1>2 DEF Row
<1> HIDE DEF s, b
<1>9. CASE j = sell
  <2>1. NewSell(j)
    BY <1>5, <1>6, <1>7, <1>8, <1>9 DEF NewSell
  <2> QED
    BY <1>4, <1>9, <2>1 DEF RowStep, Created
<1>10. CASE j = buy
  <2>1. SettledBy(h, j)
    BY <1>1, <1>5, <1>8, <1>10 DEF SettledBy, SameRow, SettleTransfer, SettleBuy
  <2> QED
    BY <2>1 DEF RowStep
<1>11. CASE j \notin {sell, buy}
  BY <1>5, <1>11 DEF RowStep
<1> QED
  BY <1>9, <1>10, <1>11

LEMMA ManagerRows ==
  ASSUME IInv, NEW p \in Procs, AcceptWrite(p) \/ DenyWrite(p) \/ UpdateWrite(p), NEW j \in TxId
  PROVE  RowStep(j)
<1>1. req[p].pc \in HoldsRow
  BY DEF AcceptWrite, DenyWrite, UpdateWrite, At, HoldsRow
<1>2. PICK id \in TxId : id = req[p].id
  BY <1>1 DEF IInv, RequestsOK, RequestOK
<1>3. tx[id] \in Row /\ DOMAIN tx = TxId
  BY DEF IInv, TypeOK
<1>4. PICK st, proof, reason :
        /\ tx' = [tx EXCEPT ![id] = [tx[id] EXCEPT !.status = st, !.proof = proof, !.reason = reason]]
        /\ \/ req[p].pc = "uploadProof" /\ st = "SUCCESS"
           \/ req[p].pc = "deny" /\ st = "CANCEL"
           \/ req[p].pc = "managerWrite" /\ st = req[p].status
  <2>1. CASE AcceptWrite(p)
    <3>1. tx' = [tx EXCEPT ![id] = [tx[id] EXCEPT !.status = "SUCCESS", !.proof = TRUE, !.reason = tx[id].reason]]
      BY <1>2, <1>3, <2>1 DEF AcceptWrite, Row
    <3> QED
      BY <2>1, <3>1 DEF AcceptWrite, At
  <2>2. CASE DenyWrite(p)
    <3>1. tx' = [tx EXCEPT ![id] = [tx[id] EXCEPT !.status = "CANCEL", !.proof = tx[id].proof, !.reason = TRUE]]
      BY <1>2, <1>3, <2>2 DEF DenyWrite, Row
    <3> QED
      BY <2>2, <3>1 DEF DenyWrite, At
  <2>3. CASE UpdateWrite(p)
    <3>1. tx' = [tx EXCEPT ![id] = [tx[id] EXCEPT !.status = req[p].status, !.proof = tx[id].proof, !.reason = tx[id].reason]]
      BY <1>2, <1>3, <2>3 DEF UpdateWrite, Row
    <3> QED
      BY <2>3, <3>1 DEF UpdateWrite, At
  <2> QED
    BY <2>1, <2>2, <2>3
<1> DEFINE r == [tx[id] EXCEPT !.status = st, !.proof = proof, !.reason = reason]
<1>5. /\ r.user = tx[id].user /\ r.type = tx[id].type /\ r.amount = tx[id].amount
      /\ r.fee = tx[id].fee /\ r.photo = tx[id].photo /\ r.method = tx[id].method
      /\ r.credit = tx[id].credit /\ r.status = st /\ r.paid = tx[id].paid
  BY <1>3 DEF Row
<1>6. tx' = [tx EXCEPT ![id] = r]
  BY <1>4
<1> HIDE DEF r
<1>7. CASE j # id
  BY <1>3, <1>6, <1>7 DEF RowStep
<1>8. CASE j = id
  <2>1. tx'[j] = r
    BY <1>3, <1>6, <1>8
  <2>2. Holds(p, j)
    BY <1>1, <1>2, <1>8 DEF Holds
  <2>3. Keeps(j) /\ tx'[j].status = st
    BY <1>5, <1>8, <2>1 DEF Keeps, SameRow
  <2>4. DecidedBy(p, j)
    BY <1>4, <2>2, <2>3 DEF DecidedBy, AcceptWrite, DenyWrite, UpdateWrite
  <2> QED
    BY <2>4 DEF RowStep
<1> QED
  BY <1>7, <1>8

LEMMA ExpireRows ==
  ASSUME IInv, NEW old, Expire(old), NEW j \in TxId
  PROVE  RowStep(j)
<1>1. tx[j] \in Row
  BY DEF IInv, TypeOK
<1>2. CASE j \in old /\ Pending(j)
  <2>1. tx'[j] = [tx[j] EXCEPT !.status = "EXPIRED"]
    BY <1>2 DEF Expire
  <2>2. Keeps(j) /\ tx'[j].status = "EXPIRED"
    BY <1>1, <2>1 DEF Keeps, SameRow, Row
  <2> QED
    BY <1>2, <2>2 DEF Expired, RowStep
<1>3. CASE ~(j \in old /\ Pending(j))
  <2>1. tx'[j] = tx[j]
    BY <1>3 DEF Expire
  <2> QED
    BY <2>1 DEF RowStep
<1> QED
  BY <1>2, <1>3

LEMMA RowSteps ==
  ASSUME IInv, [Next]_vars, NEW j \in TxId
  PROVE  RowStep(j)
<1>1. CASE tx' = tx
  BY <1>1 DEF RowStep
<1>2. CASE UserNext /\ tx' # tx
  <2>1. \/ \E u \in Users, a \in Amounts : CreateDeposit(u, a)
        \/ \E p \in Procs : WithdrawCreate(p) \/ BuyByWallet(p) \/ BuyByBank(p)
    BY <1>2 DEF UserNext, WithdrawBalance, WithdrawFind, BuyRequest, BuyFindPending, BuyCheckWallet
  <2> QED
    BY <2>1, CreateDepositRows, WithdrawCreateRows, BuyByWalletRows, BuyByBankRows
<1>3. CASE BankNext /\ tx' # tx
  <2>1. \E h \in Hooks : SettleTransfer(h) \/ SettleBuy(h)
    BY <1>3 DEF BankNext, Transfer, WebhookRead
  <2> QED
    BY <2>1, SettleTransferRows, SettleBuyRows
<1>4. CASE ManagerNext /\ tx' # tx
  <2>1. \E p \in Procs : AcceptWrite(p) \/ DenyWrite(p) \/ UpdateWrite(p)
    BY <1>4 DEF ManagerNext, AcceptRead, DenyRead, UpdateRead, UpdateCheckWallet
  <2> QED
    BY <2>1, ManagerRows
<1>5. CASE CronNext
  BY <1>5, ExpireRows DEF CronNext, ExpirePayments, ExpireWithdrawals
<1>6. CASE \E p \in Procs \cup Hooks : Abort(p)
  BY <1>1, <1>6 DEF Abort
<1>7. CASE UNCHANGED vars
  BY <1>1, <1>7 DEF vars
<1> QED
  BY <1>1, <1>2, <1>3, <1>4, <1>5, <1>6, <1>7 DEF Next

\* A request ends.
LEMMA DoneSteps ==
  ASSUME IInv, NEW p \in Procs \cup Hooks, Done(p), NEW q \in Procs \cup Hooks
  PROVE  ReqStep(q)
<1>1. CASE q = p
  BY <1>1 DEF Done, IInv, TypeOK, ReqStep
<1>2. CASE q # p
  BY <1>2 DEF Done, IInv, TypeOK, ReqStep
<1> QED
  BY <1>1, <1>2

\* A request begins.
LEMMA BeginSteps ==
  ASSUME IInv, NEW p \in Procs \cup Hooks, UNCHANGED <<tx, transfers>>,
         \/ p \in Procs /\ \E u \in Users, a \in Amounts : WithdrawBalance(p, u, a)
         \/ \E u \in Users, ph \in Photos : BuyRequest(p, u, ph)
         \/ p \in Hooks /\ \E t \in transfers : WebhookRead(p, t)
         \/ \E id \in TxId : AcceptRead(p, id) \/ DenyRead(p, id)
         \/ \E id \in TxId, st \in ManagerStatuses : UpdateRead(p, id, st)
  PROVE  Begun(p)
<1>0. \A r : Begin(p, r) => req'[p] = r
  BY DEF IInv, TypeOK, Begin
<1>1. CASE p \in Procs /\ \E u \in Users, a \in Amounts : WithdrawBalance(p, u, a)
  <2>1. PICK u \in Users, a \in Amounts : WithdrawBalance(p, u, a)
    BY <1>1
  <2>2. req'[p] = [Idle EXCEPT !.pc = "findPendingWithdrawal", !.user = u, !.amount = a]
    BY <1>0, <2>1 DEF WithdrawBalance
  <2>3. /\ req'[p].pc = "findPendingWithdrawal" /\ req'[p].seen = {}
        /\ req'[p].user = u /\ req'[p].amount = a
    BY <2>2 DEF Idle
  <2> QED
    BY <1>1, <2>1, <2>3 DEF Begun, Reads
<1>2. CASE \E u \in Users, ph \in Photos : BuyRequest(p, u, ph)
  <2>1. PICK u \in Users, ph \in Photos : BuyRequest(p, u, ph)
    BY <1>2
  <2>2. req'[p] = [Idle EXCEPT !.pc = "findPendingBuys", !.user = u, !.photo = ph]
    BY <1>0, <2>1 DEF BuyRequest
  <2>3. req'[p].pc = "findPendingBuys" /\ req'[p].seen = {} /\ req'[p].user = u
    BY <2>2 DEF Idle
  <2> QED
    BY <2>3 DEF Begun, Reads
<1>3. CASE p \in Hooks /\ \E t \in transfers : WebhookRead(p, t)
  <2>1. PICK t \in transfers : WebhookRead(p, t)
    BY <1>3
  <2>2. PICK id \in TxId : id = t.id
    BY DEF IInv, TypeOK
  <2>3. Pending(id) /\ req'[p] = [Idle EXCEPT !.pc = "settle", !.id = id]
    BY <1>0, <2>1, <2>2 DEF WebhookRead
  <2>4. req'[p].pc = "settle" /\ req'[p].seen = {} /\ req'[p].id = id
    BY <2>3 DEF Idle
  <2> QED
    BY <1>3, <2>3, <2>4 DEF Begun, Reads
<1>4. CASE \E id \in TxId : AcceptRead(p, id) \/ DenyRead(p, id)
  <2>1. PICK id \in TxId, pc \in {"uploadProof", "deny"} :
          PendingWithdrawal(id) /\ Begin(p, [Idle EXCEPT !.pc = pc, !.id = id])
    BY <1>4 DEF AcceptRead, DenyRead
  <2>2. req'[p] = [Idle EXCEPT !.pc = pc, !.id = id]
    BY <1>0, <2>1
  <2>3. req'[p].pc = pc /\ req'[p].seen = {} /\ req'[p].id = id
    BY <2>2 DEF Idle
  <2>4. Pending(id) /\ tx[id].type = "WITHDRAWAL"
    BY <2>1 DEF PendingWithdrawal
  <2> QED
    BY <2>3, <2>4 DEF Begun, Reads
<1>5. CASE \E id \in TxId, st \in ManagerStatuses : UpdateRead(p, id, st)
  <2>1. PICK id \in TxId, st \in ManagerStatuses : UpdateRead(p, id, st)
    BY <1>5
  <2>2. Pending(id) /\ req'[p] = [Idle EXCEPT !.pc = "managerWallet", !.id = id, !.status = st]
    BY <1>0, <2>1 DEF UpdateRead
  <2>3. /\ req'[p].pc = "managerWallet" /\ req'[p].seen = {} /\ req'[p].id = id
        /\ req'[p].status = st
    BY <2>2 DEF Idle
  <2> QED
    BY <2>2, <2>3 DEF Begun, Reads
<1> QED
  BY <1>1, <1>2, <1>3, <1>4, <1>5

\* A request goes on.
LEMMA GotoSteps ==
  ASSUME IInv, NEW p \in Procs, UNCHANGED <<tx, transfers>>, NEW pc, Goto(p, pc),
         \/ pc = "createWithdrawal" /\ req[p].pc = "findPendingWithdrawal"
         \/ pc = "payByWallet" /\ req[p].pc = "checkWallet" /\ BuyCheckWallet(p)
         \/ pc = "managerWrite" /\ req[p].pc = "managerWallet"
  PROVE  Moved(p)
<1>1. req'[p] = [req[p] EXCEPT !.pc = pc] /\ req[p] \in Request
  BY DEF Goto, IInv, TypeOK
<1>2. /\ req'[p].user = req[p].user /\ req'[p].amount = req[p].amount /\ req'[p].id = req[p].id
      /\ req'[p].photo = req[p].photo /\ req'[p].status = req[p].status
      /\ req'[p].seen = req[p].seen /\ req'[p].pc = pc
  BY <1>1 DEF Request
<1> QED
  BY <1>2 DEF Moved, Reads

LEMMA FindPendingSteps ==
  ASSUME IInv, NEW p \in Procs, BuyFindPending(p)
  PROVE  Moved(p)
<1> DEFINE S == {id \in BuysOf(req[p].user, req[p].photo) : Pending(id)}
<1>1. PICK next \in {"checkWallet", "payByBank"} :
        req' = [req EXCEPT ![p].pc = next, ![p].seen = S]
  BY DEF BuyFindPending
<1>2. req[p] \in Request /\ req[p].photo \in Photos /\ req[p].pc = "findPendingBuys"
  BY DEF BuyFindPending, At, HoldsBuy, IInv, RequestsOK, RequestOK, TypeOK
<1>3. \A id \in S : id \in TxId /\ Used(id) /\ tx[id].photo = req[p].photo /\ Pending(id)
  BY DEF BuysOf
<1>4. \A id \in S : id \in TxId /\ Pending(id) /\ tx[id].type = "IMAGE_BUY"
  BY <1>2, <1>3, PaymentsAssumption DEF IInv, TableOK, RowsOK
<1> HIDE DEF S
<1>5. req'[p] = [req[p] EXCEPT !.pc = next, !.seen = S]
  BY <1>1 DEF IInv, TypeOK
<1>6. /\ req'[p].user = req[p].user /\ req'[p].amount = req[p].amount /\ req'[p].id = req[p].id
      /\ req'[p].photo = req[p].photo /\ req'[p].status = req[p].status
      /\ req'[p].seen = S /\ req'[p].pc = next
  BY <1>2, <1>5 DEF Request
<1> QED
  BY <1>2, <1>4, <1>6 DEF Moved, Reads, BuyFindPending

LEMMA OthersStay ==
  ASSUME IInv, NEW p \in Procs \cup Hooks, NEW q \in Procs \cup Hooks, q # p,
         \/ \E r : Begin(p, r)
         \/ \E pc : Goto(p, pc)
         \/ BuyFindPending(p)
  PROVE  ReqStep(q)
  BY DEF ReqStep, Begin, Goto, BuyFindPending, IInv, TypeOK

LEMMA ReqSteps ==
  ASSUME IInv, [Next]_vars, NEW q \in Procs \cup Hooks
  PROVE  ReqStep(q)
<1>1. CASE UNCHANGED req
  BY <1>1 DEF ReqStep
<1>2. CASE \E p \in Procs \cup Hooks : Done(p)
  BY <1>2, DoneSteps
<1>3. ASSUME NEW p \in Procs \cup Hooks, UNCHANGED <<tx, transfers>>,
             \/ p \in Procs /\ \E u \in Users, a \in Amounts : WithdrawBalance(p, u, a)
             \/ \E u \in Users, ph \in Photos : BuyRequest(p, u, ph)
             \/ p \in Hooks /\ \E t \in transfers : WebhookRead(p, t)
             \/ \E id \in TxId : AcceptRead(p, id) \/ DenyRead(p, id)
             \/ \E id \in TxId, st \in ManagerStatuses : UpdateRead(p, id, st)
      PROVE  ReqStep(q)
  <2>1. CASE q = p
    BY <1>3, <2>1, BeginSteps DEF ReqStep
  <2>2. CASE q # p
    <3>1. \E r : Begin(p, r)
      BY <1>3 DEF WithdrawBalance, BuyRequest, WebhookRead, AcceptRead, DenyRead, UpdateRead
    <3> QED
      BY <2>2, <3>1, OthersStay
  <2> QED
    BY <2>1, <2>2
<1>4. ASSUME NEW p \in Procs, UNCHANGED <<tx, transfers>>, NEW pc, Goto(p, pc),
             \/ pc = "createWithdrawal" /\ req[p].pc = "findPendingWithdrawal"
             \/ pc = "payByWallet" /\ req[p].pc = "checkWallet" /\ BuyCheckWallet(p)
             \/ pc = "managerWrite" /\ req[p].pc = "managerWallet"
      PROVE  ReqStep(q)
  <2>1. CASE q = p
    BY <1>4, <2>1, GotoSteps DEF ReqStep
  <2>2. CASE q # p
    BY <1>4, <2>2, OthersStay
  <2> QED
    BY <2>1, <2>2
<1>5. ASSUME NEW p \in Procs, BuyFindPending(p) PROVE ReqStep(q)
  <2>1. CASE q = p
    BY <1>5, <2>1, FindPendingSteps DEF ReqStep
  <2>2. CASE q # p
    BY <1>5, <2>2, OthersStay
  <2> QED
    BY <2>1, <2>2
<1>6. ASSUME NEW p \in Procs, WithdrawFind(p) PROVE ReqStep(q)
  BY <1>2, <1>4, <1>6 DEF WithdrawFind, At
<1>7. ASSUME NEW p \in Procs, BuyCheckWallet(p) PROVE ReqStep(q)
  <2>1. req[p].pc = "checkWallet" /\ UNCHANGED <<tx, transfers>>
    BY <1>7 DEF BuyCheckWallet, At
  <2>2. Done(p) \/ Goto(p, "payByWallet")
    BY <1>7 DEF BuyCheckWallet
  <2> QED
    BY <1>2, <1>4, <1>7, <2>1, <2>2
<1>8. ASSUME NEW p \in Procs, UpdateCheckWallet(p) PROVE ReqStep(q)
  <2>1. req[p].pc = "managerWallet" /\ UNCHANGED <<tx, transfers>>
    BY <1>8 DEF UpdateCheckWallet, At
  <2>2. Done(p) \/ Goto(p, "managerWrite")
    BY <1>8 DEF UpdateCheckWallet
  <2> QED
    BY <1>2, <1>4, <2>1, <2>2
<1>9. CASE UserNext
  <2>1. CASE \E u \in Users, a \in Amounts : CreateDeposit(u, a)
    BY <1>1, <2>1 DEF CreateDeposit
  <2>2. CASE \E p \in Procs : WithdrawCreate(p) \/ BuyByWallet(p) \/ BuyByBank(p)
    BY <1>2, <2>2 DEF WithdrawCreate, BuyByWallet, BuyByBank
  <2>3. ASSUME NEW p \in Procs, NEW u \in Users, NEW a \in Amounts, WithdrawBalance(p, u, a)
        PROVE  ReqStep(q)
    <3>1. UNCHANGED <<tx, transfers>>
      BY <2>3 DEF WithdrawBalance
    <3> QED
      BY <1>3, <2>3, <3>1
  <2>4. ASSUME NEW p \in Procs, NEW u \in Users, NEW ph \in Photos, BuyRequest(p, u, ph)
        PROVE  ReqStep(q)
    <3>1. UNCHANGED <<tx, transfers>>
      BY <2>4 DEF BuyRequest
    <3> QED
      BY <1>3, <2>4, <3>1
  <2> QED
    BY <1>5, <1>6, <1>7, <1>9, <2>1, <2>2, <2>3, <2>4 DEF UserNext
<1>10. CASE BankNext
  <2>1. CASE \E id \in TxId, a \in TransferAmounts : Transfer(id, a)
    BY <1>1, <2>1 DEF Transfer
  <2>2. CASE \E h \in Hooks : SettleTransfer(h) \/ SettleBuy(h)
    BY <1>2, <2>2 DEF SettleTransfer, SettleBuy
  <2>3. ASSUME NEW h \in Hooks, NEW t \in transfers, WebhookRead(h, t)
        PROVE  ReqStep(q)
    <3>1. UNCHANGED <<tx, transfers>>
      BY <2>3 DEF WebhookRead
    <3> QED
      BY <1>3, <2>3, <3>1
  <2> QED
    BY <1>10, <2>1, <2>2, <2>3 DEF BankNext
<1>11. CASE ManagerNext
  <2>1. CASE \E p \in Procs : AcceptWrite(p) \/ DenyWrite(p) \/ UpdateWrite(p)
    BY <1>2, <2>1 DEF AcceptWrite, DenyWrite, UpdateWrite
  <2>2. ASSUME NEW p \in Procs, NEW id \in TxId, AcceptRead(p, id) \/ DenyRead(p, id)
        PROVE  ReqStep(q)
    <3>1. UNCHANGED <<tx, transfers>>
      BY <2>2 DEF AcceptRead, DenyRead
    <3> QED
      BY <1>3, <2>2, <3>1
  <2>3. ASSUME NEW p \in Procs, NEW id \in TxId, NEW st \in ManagerStatuses, UpdateRead(p, id, st)
        PROVE  ReqStep(q)
    <3>1. UNCHANGED <<tx, transfers>>
      BY <2>3 DEF UpdateRead
    <3> QED
      BY <1>3, <2>3, <3>1
  <2> QED
    BY <1>8, <1>11, <2>1, <2>2, <2>3 DEF ManagerNext
<1>12. CASE CronNext
  BY <1>1, <1>12 DEF CronNext, ExpirePayments, ExpireWithdrawals, Expire
<1>13. CASE \E p \in Procs \cup Hooks : Abort(p)
  BY <1>2, <1>13 DEF Abort
<1>14. CASE UNCHANGED vars
  BY <1>1, <1>14 DEF vars
<1> QED
  BY <1>9, <1>10, <1>11, <1>12, <1>13, <1>14 DEF Next

-----------------------------------------------------------------------------
(***************************************************************************)
(* Whose rows they are.                                                    *)
(***************************************************************************)

\* What the rows are, beyond their types: whose they are, and how much.  A
\* purchase paid from the wallet is SUCCESS from the start, and for good.
RowKind(id) ==
  Used(id) =>
    /\ tx[id].type \in {"DEPOSIT", "WITHDRAWAL", "IMAGE_BUY", "IMAGE_SELL"}
    /\ tx[id].user \in Users
    /\ tx[id].type \in {"DEPOSIT", "WITHDRAWAL"} => tx[id].amount \in Amounts
    /\ tx[id].type = "IMAGE_SELL" => tx[id].fee <= tx[id].amount
    /\ tx[id].type = "IMAGE_BUY" /\ tx[id].method = "WALLET" => tx[id].status = "SUCCESS"

\* What the requests hold, beyond RequestOK: a purchase paid from the wallet was
\* never PENDING, so that no request comes to hold one.
ReqKind(q) ==
  /\ req[q].pc \in Withdraws \cup HoldsBuy => req[q].user \in Users
  /\ req[q].pc \in Withdraws => req[q].amount \in Amounts
  /\ req[q].pc \in {"uploadProof", "deny"} => tx[req[q].id].type = "WITHDRAWAL"
  /\ req[q].pc \in Updates => req[q].status \in ManagerStatuses
  /\ req[q].pc = "settle" => q \in Hooks
  /\ \A id \in req[q].seen : tx[id].method = "SEPAY"
  /\ req[q].pc \in HoldsRow /\ tx[req[q].id].type = "IMAGE_BUY" => tx[req[q].id].method = "SEPAY"

KindsOK ==
  /\ \A id \in TxId : RowKind(id)
  /\ \A q \in Procs \cup Hooks : ReqKind(q)

LEMMA KindsInit == Init => KindsOK
<1> SUFFICES ASSUME Init PROVE KindsOK
  OBVIOUS
<1>1. \A id \in TxId : ~Used(id)
  BY DEF Init, Used, FreeRow
<1>2. \A q \in Procs \cup Hooks : req[q].pc = "idle" /\ req[q].seen = {}
  BY DEF Init, Idle
<1>3. ASSUME NEW q \in Procs \cup Hooks PROVE ReqKind(q)
  BY <1>2 DEF ReqKind, Withdraws, Updates, HoldsBuy, HoldsRow
<1> QED
  BY <1>1, <1>3 DEF KindsOK, RowKind

\* What a request holds is in use.
LEMMA HeldIsUsed ==
  ASSUME IInv, NEW q \in Procs \cup Hooks
  PROVE  /\ \A id \in req[q].seen : id \in TxId /\ Used(id) /\ tx[id].type = "IMAGE_BUY"
         /\ req[q].pc \in HoldsRow => /\ req[q].id \in TxId /\ Used(req[q].id)
                                      /\ tx[req[q].id].type # "IMAGE_SELL"
<1>1. req[q] \in Request /\ RequestOK(q)
  BY DEF IInv, TypeOK, RequestsOK
<1>2. req[q].seen \subseteq TxId
  BY <1>1 DEF Request
<1> QED
  BY <1>1, <1>2 DEF RequestOK

\* A row in use stays in use, keeps its owner, its type and its amount, and is
\* paid from the wallet only if it was from the start.
LEMMA UsedRows ==
  ASSUME IInv, NEW id \in TxId, RowStep(id), Used(id)
  PROVE  /\ SameRow(id)
         /\ tx'[id].method = tx[id].method \/ tx'[id].method = "SEPAY"
  BY DEF RowStep, Expired, Cancelled, DecidedBy, SettledBy, Created, Keeps, SameRow

LEMMA RowKinds ==
  ASSUME IInv, KindsOK, NEW id \in TxId, RowStep(id)
  PROVE  RowKind(id)'
<1>0. RowKind(id) /\ \A q \in Procs \cup Hooks : ReqKind(q)
  BY DEF KindsOK
<1>1. CASE tx'[id] = tx[id]
  BY <1>0, <1>1 DEF RowKind, Used
<1>2. CASE Expired(id)
  <2>1. Used(id) /\ tx[id].status # "SUCCESS"
    BY <1>2 DEF Expired, Pending, Used, Unused
  <2> QED
    BY <1>0, <1>2, <2>1 DEF Expired, Keeps, SameRow, RowKind
<1>3. CASE Cancelled(id)
  <2>1. Used(id) /\ tx[id].method = "SEPAY" /\ Keeps(id)
    BY <1>0, <1>3, HeldIsUsed DEF Cancelled, ReqKind
  <2> QED
    BY <1>0, <2>1 DEF Keeps, SameRow, RowKind
<1>4. CASE \E p \in Procs : DecidedBy(p, id)
  <2>1. /\ Used(id) /\ Keeps(id)
        /\ tx[id].type = "IMAGE_BUY" => tx[id].method = "SEPAY"
    BY <1>0, <1>4, HeldIsUsed DEF DecidedBy, Holds, ReqKind
  <2> QED
    BY <1>0, <2>1 DEF Keeps, SameRow, RowKind
<1>5. CASE \E h \in Hooks : SettledBy(h, id)
  <2>1. Used(id) /\ SameRow(id) /\ tx'[id].status = "SUCCESS"
    BY <1>5, HeldIsUsed DEF SettledBy, Holds
  <2> QED
    BY <1>0, <2>1 DEF SameRow, RowKind
<1>6. CASE Created(id)
  <2>1. CASE NewDeposit(id)
    BY <2>1 DEF NewDeposit, RowKind
  <2>2. CASE NewSell(id)
    BY <2>2 DEF NewSell, RowKind
  <2>3. CASE \E p \in Procs : NewWithdrawal(p, id)
    BY <1>0, <2>3 DEF NewWithdrawal, WithdrawCreate, At, RowKind, ReqKind, Withdraws
  <2>4. CASE \E p \in Procs : NewBuy(p, id)
    BY <1>0, <2>4 DEF NewBuy, RowKind, ReqKind
  <2> QED
    BY <1>6, <2>1, <2>2, <2>3, <2>4 DEF Created
<1> QED
  BY <1>1, <1>2, <1>3, <1>4, <1>5, <1>6 DEF RowStep

LEMMA ReqKinds ==
  ASSUME IInv, KindsOK, \A id \in TxId : RowStep(id),
         NEW q \in Procs \cup Hooks, ReqStep(q)
  PROVE  ReqKind(q)'
<1>0. ReqKind(q) /\ \A id \in TxId : RowKind(id)
  BY DEF KindsOK
<1>1. CASE req'[q] = req[q]
  <2>1. \A id \in TxId : Used(id) => /\ tx'[id].type = tx[id].type
                                     /\ tx[id].method = "SEPAY" => tx'[id].method = "SEPAY"
    BY UsedRows DEF SameRow
  <2> QED
    BY <1>0, <1>1, <2>1, HeldIsUsed DEF ReqKind, HoldsRow
<1>2. CASE req'[q] = Idle
  <2>1. req'[q].pc = "idle" /\ req'[q].seen = {}
    BY <1>2 DEF Idle
  <2> QED
    BY <2>1 DEF ReqKind, Withdraws, Updates, HoldsBuy, HoldsRow
<1>3. CASE Begun(q)
  <2>0. req'[q].seen = {}
    BY <1>3 DEF Begun
  <2>1. CASE \E u \in Users, a \in Amounts : Reads(q, "findPendingWithdrawal")
                 /\ req'[q].user = u /\ req'[q].amount = a
    BY <2>0, <2>1 DEF Reads, ReqKind, Withdraws, Updates, HoldsBuy, HoldsRow
  <2>2. CASE Reads(q, "findPendingBuys") /\ req'[q].user \in Users
    BY <2>0, <2>2 DEF Reads, ReqKind, Withdraws, Updates, HoldsBuy, HoldsRow
  <2>3. CASE req'[q].id \in TxId /\ Pending(req'[q].id)
    <3>1. PICK id \in TxId : id = req'[q].id
      BY <2>3
    <3>2. Used(id) /\ (tx[id].type = "IMAGE_BUY" => tx[id].method = "SEPAY")
      BY <1>0, <2>3, <3>1 DEF Pending, Used, Unused, RowKind, IInv, TypeOK, Row, PaymentMethod
    <3>3. \/ Reads(q, "settle") /\ q \in Hooks
          \/ \E pc \in {"uploadProof", "deny"} : Reads(q, pc) /\ tx[id].type = "WITHDRAWAL"
          \/ Reads(q, "managerWallet") /\ req'[q].status \in ManagerStatuses
          \/ Reads(q, "findPendingBuys") /\ req'[q].user \in Users
          \/ \E u \in Users, a \in Amounts : Reads(q, "findPendingWithdrawal")
                 /\ req'[q].user = u /\ req'[q].amount = a
      BY <1>3, <3>1 DEF Begun
    <3>4. tx' = tx
      BY <3>3 DEF Reads
    <3> QED
      BY <2>0, <2>1, <2>2, <3>1, <3>2, <3>3, <3>4
         DEF Reads, ReqKind, Withdraws, Updates, HoldsBuy, HoldsRow
  <2> QED
    BY <1>3, <2>1, <2>2, <2>3 DEF Begun
<1>4. CASE Moved(q)
  <2>0. /\ tx' = tx /\ req'[q].user = req[q].user /\ req'[q].amount = req[q].amount
        /\ req'[q].id = req[q].id /\ req'[q].status = req[q].status
    BY <1>4 DEF Moved, Reads
  <2>1. CASE req'[q].seen = req[q].seen
    BY <1>0, <1>4, <2>0, <2>1 DEF Moved, Reads, ReqKind, Withdraws, Updates, HoldsBuy, HoldsRow
  <2>2. CASE /\ \A id \in req'[q].seen : id \in TxId /\ Pending(id) /\ tx[id].type = "IMAGE_BUY"
             /\ req[q].pc = "findPendingBuys"
             /\ \E pc \in {"checkWallet", "payByBank"} : Reads(q, pc)
    <3>1. \A id \in req'[q].seen : tx[id].method = "SEPAY"
      BY <1>0, <2>2 DEF Pending, Used, Unused, RowKind, IInv, TypeOK, Row, PaymentMethod
    <3> QED
      BY <1>0, <2>0, <2>2, <3>1 DEF Reads, ReqKind, Withdraws, Updates, HoldsBuy, HoldsRow
  <2> QED
    BY <1>4, <2>1, <2>2 DEF Moved
<1> QED
  BY <1>1, <1>2, <1>3, <1>4 DEF ReqStep

LEMMA KindsNext == IInv /\ KindsOK /\ [Next]_vars => KindsOK'
<1> SUFFICES ASSUME IInv, KindsOK, [Next]_vars PROVE KindsOK'
  OBVIOUS
<1>1. \A id \in TxId : RowStep(id)
  BY RowSteps
<1>2. \A q \in Procs \cup Hooks : ReqStep(q)
  BY ReqSteps
<1>3. \A id \in TxId : RowKind(id)'
  BY <1>1, RowKinds
<1>4. \A q \in Procs \cup Hooks : ReqKind(q)'
  BY <1>1, <1>2, ReqKinds
<1> QED
  BY <1>3, <1>4 DEF KindsOK

LEMMA KindsInvariance == Spec => [](IInv /\ KindsOK)
  BY InitOK, NextOK, KindsInit, KindsNext, PTL DEF Spec

-----------------------------------------------------------------------------
(***************************************************************************)
(* One credit for one purchase, while one delivery is handled at a time    *)
(* and no manager puts a row back to PENDING.                              *)
(***************************************************************************)

\* A row that can still be settled has not been credited.
OnceOK ==
  /\ OneCreditPerPurchase
  /\ \A id \in TxId : Pending(id) => tx[id].credit = 0
  /\ \A q \in Procs \cup Hooks : req[q].pc = "settle" => tx[req[q].id].credit = 0

LEMMA OnceInit == Init => OnceOK
<1> SUFFICES ASSUME Init PROVE OnceOK
  OBVIOUS
<1>1. \A id \in TxId : ~IsSell(id) /\ ~Pending(id)
  BY DEF Init, IsSell, Used, Pending, FreeRow, Unused
<1>2. \A q \in Procs \cup Hooks : req[q].pc = "idle"
  BY DEF Init, Idle
<1> QED
  BY <1>1, <1>2 DEF OnceOK, OneCreditPerPurchase

\* Only the webhook links a purchase, and only one that is not linked.
LEMMA CreditSteps ==
  ASSUME IInv, KindsOK, OnceOK, NEW id \in TxId, RowStep(id), tx'[id].credit # tx[id].credit
  PROVE  tx[id].credit = 0 /\ (Created(id) \/ \E h \in Hooks : SettledBy(h, id))
<1>1. CASE Created(id)
  <2>1. tx[id].credit = 0
    BY <1>1 DEF Created, IInv, TableOK, SlotsOK, FreeRow
  <2> QED
    BY <1>1, <2>1
<1>2. CASE \E h \in Hooks : SettledBy(h, id)
  BY <1>2 DEF SettledBy, Holds, OnceOK
<1> QED
  BY <1>1, <1>2 DEF RowStep, Expired, Cancelled, DecidedBy, Keeps

LEMMA OnceNext ==
  ASSUME \A g, h \in Hooks : g = h, "PENDING" \notin ManagerStatuses
  PROVE  IInv /\ KindsOK /\ OnceOK /\ [Next]_vars => OnceOK'
<1> SUFFICES ASSUME IInv, KindsOK, OnceOK, [Next]_vars PROVE OnceOK'
  OBVIOUS
<1>0. \A id \in TxId : RowStep(id)
  BY RowSteps
<1>1. ASSUME NEW s \in TxId, IsSell(s)' PROVE \E b \in TxId : tx'[b].credit = s
  <2>1. CASE IsSell(s)
    <3>1. PICK b \in TxId : tx[b].credit = s
      BY <2>1 DEF OnceOK, OneCreditPerPurchase
    <3>2. tx[b].credit # 0
      <4>1. s # 0
        BY PaymentsAssumption
      <4> QED
        BY <3>1, <4>1
    <3>3. tx'[b].credit = s
      BY <1>0, <3>1, <3>2, CreditSteps
    <3> QED
      BY <3>3
  <2>2. CASE ~IsSell(s)
    <3>1. ~Used(s)
      BY <1>0, <1>1, <2>2, UsedRows DEF SameRow, IsSell
    <3>2. Created(s)
      <4>1. ~(\E p \in Procs : DecidedBy(p, s)) /\ ~(\E h \in Hooks : SettledBy(h, s))
        BY <3>1, HeldIsUsed DEF DecidedBy, SettledBy, Holds
      <4>2. ~Expired(s) /\ ~Cancelled(s)
        BY <3>1, HeldIsUsed DEF Expired, Cancelled, Pending, Used, Unused
      <4>3. tx'[s] # tx[s]
        BY <1>1, <3>1 DEF IsSell, Used
      <4> QED
        BY <1>0, <4>1, <4>2, <4>3 DEF RowStep
    <3>3. NewSell(s)
      BY <1>1, <3>2 DEF Created, NewDeposit, NewWithdrawal, NewBuy, IsSell
    <3> QED
      BY <3>3 DEF NewSell
  <2> QED
    BY <2>1, <2>2
<1>2. ASSUME NEW id \in TxId, Pending(id)' PROVE tx'[id].credit = 0
  <2>1. CASE tx'[id] = tx[id]
    BY <1>2, <2>1 DEF Pending, OnceOK
  <2>2. CASE \E p \in Procs : DecidedBy(p, id)
    BY <1>2, <2>2 DEF DecidedBy, Pending, KindsOK, ReqKind, Updates
  <2>3. CASE Created(id)
    BY <1>2, <2>3 DEF Created, NewDeposit, NewWithdrawal, NewBuy, NewSell, Pending
  <2> QED
    BY <1>0, <1>2, <2>1, <2>2, <2>3 DEF RowStep, Expired, Cancelled, SettledBy, Pending
<1>3. ASSUME NEW q \in Procs \cup Hooks, req'[q].pc = "settle" PROVE tx'[req'[q].id].credit = 0
  <2>0. ReqStep(q)
    BY ReqSteps
  <2>1. CASE req'[q] = req[q]
    <3>1. PICK id \in TxId : id = req[q].id /\ Used(id)
      BY <1>3, <2>1, HeldIsUsed DEF HoldsRow
    <3>2. q \in Hooks /\ tx[id].credit = 0
      BY <1>3, <2>1, <3>1 DEF OnceOK, KindsOK, ReqKind
    <3>3. ~(\E h \in Hooks : SettledBy(h, id))
      <4> SUFFICES ASSUME NEW h \in Hooks, SettledBy(h, id) PROVE FALSE
        OBVIOUS
      <4>1. Done(q)
        BY <3>2 DEF SettledBy
      <4>2. req'[q].pc = "idle"
        BY <4>1 DEF Done, Idle, IInv, TypeOK
      <4> QED
        BY <1>3, <4>2
    <3>4. ~Created(id)
      BY <3>1 DEF Created
    <3>5. tx'[id].credit = tx[id].credit
      BY <1>0, <3>3, <3>4, CreditSteps
    <3> QED
      BY <2>1, <3>1, <3>2, <3>5
  <2>2. CASE Begun(q)
    <3>1. /\ req'[q].id \in TxId /\ Pending(req'[q].id) /\ tx' = tx
      BY <1>3, <2>2 DEF Begun, Reads
    <3> QED
      BY <3>1 DEF OnceOK
  <2> QED
    BY <1>3, <2>0, <2>1, <2>2 DEF ReqStep, Moved, Reads, Idle
<1> QED
  BY <1>1, <1>2, <1>3 DEF OnceOK, OneCreditPerPurchase

\* One purchase credits the photographer once, as long as one delivery of the
\* webhook is handled at a time and no manager sets a transaction back to
\* PENDING: whatever the cron, the buyers and the managers decide meanwhile.
THEOREM CreditedOnce ==
  ASSUME \A g, h \in Hooks : g = h, "PENDING" \notin ManagerStatuses
  PROVE  Spec => []OneCreditPerPurchase
<1>1. OnceOK => OneCreditPerPurchase
  BY DEF OnceOK
<1>2. IInv /\ KindsOK /\ OnceOK /\ [Next]_vars => OnceOK'
  BY OnceNext
<1> QED
  BY <1>1, <1>2, OnceInit, KindsInvariance, PTL DEF Spec

-----------------------------------------------------------------------------
(***************************************************************************)
(* Solvency.                                                               *)
(***************************************************************************)

\* A deposit counts only once the bank has paid it.
DepositsOK ==
  \A id \in TxId : tx[id].type = "DEPOSIT" /\ tx[id].status = "SUCCESS" => tx[id].paid

LEMMA DepositsInit == Init => DepositsOK
  BY DEF Init, DepositsOK, FreeRow, Unused

LEMMA DepositsNext ==
  ASSUME "SUCCESS" \notin ManagerStatuses
  PROVE  IInv /\ KindsOK /\ DepositsOK /\ [Next]_vars => DepositsOK'
<1> SUFFICES ASSUME IInv, KindsOK, DepositsOK, [Next]_vars,
                    NEW id \in TxId, tx'[id].type = "DEPOSIT", tx'[id].status = "SUCCESS"
             PROVE  tx'[id].paid
  BY DEF DepositsOK
<1>0. RowStep(id)
  BY RowSteps
<1>1. CASE tx'[id] = tx[id]
  BY <1>1 DEF DepositsOK
<1>2. CASE \E p \in Procs : DecidedBy(p, id)
  BY <1>2 DEF DecidedBy, Keeps, SameRow, Holds, KindsOK, ReqKind, Updates
<1>3. CASE \E h \in Hooks : SettledBy(h, id)
  BY <1>3 DEF SettledBy
<1>4. CASE Created(id)
  BY <1>4 DEF Created, NewDeposit, NewWithdrawal, NewBuy, NewSell
<1> QED
  BY <1>0, <1>1, <1>2, <1>3, <1>4 DEF RowStep, Expired, Cancelled

LEMMA TableFinite == IsFiniteSet(TxId)
  BY PaymentsAssumption, FS_Interval

LEMMA EffectType ==
  ASSUME IInv, NEW id \in TxId
  PROVE  WalletEffect(tx[id]) \in Int
<1>1. tx[id].amount \in Nat /\ tx[id].fee \in Nat
  BY DEF IInv, TypeOK, Row
<1> QED
  BY <1>1 DEF WalletEffect

\* What a row counts for: the cases of WalletEffect a row of the table can be in.
LEMMA EffectOf ==
  ASSUME IInv, KindsOK, NEW id \in TxId
  PROVE  /\ ~Used(id) => WalletEffect(tx[id]) = 0
         /\ tx[id].type = "DEPOSIT" =>
              WalletEffect(tx[id]) = IF tx[id].status = "SUCCESS" THEN tx[id].amount ELSE 0
         /\ Used(id) /\ tx[id].type = "IMAGE_SELL" =>
              WalletEffect(tx[id]) = tx[id].amount - tx[id].fee
         /\ Used(id) /\ tx[id].type = "IMAGE_BUY" =>
              WalletEffect(tx[id]) = IF tx[id].method = "WALLET" THEN -tx[id].amount ELSE 0
         /\ tx[id].type = "WITHDRAWAL" =>
              WalletEffect(tx[id]) =
                IF tx[id].status \in {"SUCCESS", "PENDING"} THEN -tx[id].amount ELSE 0
<1>1. ~Used(id) => WalletEffect(tx[id]) = 0
  BY DEF IInv, TableOK, SlotsOK, FreeRow, WalletEffect, Unused
<1>2. Used(id) /\ tx[id].type = "IMAGE_SELL" => tx[id].status = "SUCCESS"
  BY DEF IInv, TableOK, RowsOK, IsSell
<1>3. Used(id) /\ tx[id].type = "IMAGE_BUY" /\ tx[id].method = "WALLET" => tx[id].status = "SUCCESS"
  BY DEF KindsOK, RowKind
<1>4. Used(id) /\ tx[id].type = "IMAGE_SELL" =>
        WalletEffect(tx[id]) = tx[id].amount - tx[id].fee
  BY <1>2 DEF WalletEffect
<1>5. Used(id) /\ tx[id].type = "IMAGE_BUY" =>
        WalletEffect(tx[id]) = IF tx[id].method = "WALLET" THEN -tx[id].amount ELSE 0
  BY <1>3 DEF WalletEffect
<1>6. tx[id].type = "WITHDRAWAL" =>
        WalletEffect(tx[id]) = IF tx[id].status \in {"SUCCESS", "PENDING"} THEN -tx[id].amount ELSE 0
  BY DEF WalletEffect
<1>7. tx[id].type = "DEPOSIT" =>
        WalletEffect(tx[id]) = IF tx[id].status = "SUCCESS" THEN tx[id].amount ELSE 0
  BY DEF WalletEffect
<1> QED
  BY <1>1, <1>4, <1>5, <1>6, <1>7

\* A purchase and the credit linked to it together are covered by the bank: the
\* photographer gets what the buyer paid, less the fee.
LEMMA PurchaseCovered ==
  ASSUME IInv, KindsOK, NEW b \in TxId, Used(b), tx[b].type = "IMAGE_BUY"
  PROVE  /\ WalletEffect(tx[b]) <= CashOf(b)
         /\ tx[b].credit # 0 =>
              WalletEffect(tx[b]) + WalletEffect(tx[tx[b].credit]) <= CashOf(b)
<1>1. tx[b] \in Row
  BY DEF IInv, TypeOK
<1>2. tx[b].amount \in Nat /\ tx[b].fee \in Nat
  BY <1>1 DEF Row
<1>3. CashOf(b) = IF [id |-> b, amount |-> tx[b].amount] \in transfers THEN tx[b].amount ELSE 0
  BY DEF CashOf
<1>4. WalletEffect(tx[b]) = IF tx[b].method = "WALLET" THEN -tx[b].amount ELSE 0
  BY EffectOf
<1>5. ASSUME tx[b].credit # 0
      PROVE  WalletEffect(tx[b]) + WalletEffect(tx[tx[b].credit]) <= CashOf(b)
  <2>1. PICK s \in TxId : s = tx[b].credit
    BY <1>1, <1>5 DEF Row
  <2>2. tx[s].type = "IMAGE_SELL" /\ tx[s].status = "SUCCESS"
        /\ tx[s].amount = tx[b].amount /\ tx[s].fee = tx[b].fee
    BY <1>5, <2>1 DEF IInv, TableOK, SaleIsPaired
  <2>3. WalletEffect(tx[s]) = tx[b].amount - tx[b].fee
    BY <2>2, EffectOf DEF Used, Unused
  <2>4. tx[b].paid \/ tx[b].method = "WALLET"
    BY <1>5 DEF IInv, TableOK, SaleIsPaired, PaidBuy
  <2>5. tx[b].paid => [id |-> b, amount |-> tx[b].amount] \in transfers
    BY DEF IInv, TableOK, BankPaid
  <2> QED
    BY <1>2, <1>3, <1>4, <2>1, <2>3, <2>4, <2>5
<1>6. WalletEffect(tx[b]) <= CashOf(b)
  BY <1>2, <1>3, <1>4
<1> QED
  BY <1>5, <1>6

\* So is every other row that is not a credit.
LEMMA RowCovered ==
  ASSUME IInv, KindsOK, DepositsOK, NEW id \in TxId, ~IsSell(id), tx[id].type # "IMAGE_BUY"
  PROVE  WalletEffect(tx[id]) <= CashOf(id)
<1>1. tx[id].amount \in Nat
  BY DEF IInv, TypeOK, Row
<1>2. CASE ~Used(id)
  <2>1. WalletEffect(tx[id]) = 0
    BY <1>2, EffectOf
  <2>2. tx[id].type = "DEPOSIT" /\ tx[id].amount = 0
    BY <1>2 DEF IInv, TableOK, SlotsOK, FreeRow
  <2> QED
    BY <2>1, <2>2 DEF CashOf
<1>3. CASE tx[id].type = "DEPOSIT"
  <2>1. WalletEffect(tx[id]) = IF tx[id].status = "SUCCESS" THEN tx[id].amount ELSE 0
    BY <1>3, EffectOf
  <2>2. CashOf(id) = IF [id |-> id, amount |-> tx[id].amount] \in transfers THEN tx[id].amount ELSE 0
    BY <1>3 DEF CashOf
  <2>3. tx[id].status = "SUCCESS" => [id |-> id, amount |-> tx[id].amount] \in transfers
    BY <1>3 DEF DepositsOK, IInv, TableOK, BankPaid
  <2> QED
    BY <1>1, <2>1, <2>2, <2>3
<1>4. CASE tx[id].type = "WITHDRAWAL"
  <2>1. WalletEffect(tx[id]) =
          IF tx[id].status \in {"SUCCESS", "PENDING"} THEN -tx[id].amount ELSE 0
    BY <1>4, EffectOf
  <2>2. CashOf(id) = IF tx[id].status = "SUCCESS" THEN -tx[id].amount ELSE 0
    BY <1>4 DEF CashOf
  <2> QED
    BY <1>1, <2>1, <2>2
<1> QED
  BY <1>2, <1>3, <1>4 DEF KindsOK, RowKind, IsSell

\* The argument is about one state: the balances of all users are the effects of
\* all rows; moved from the photographer's row to the purchase it is linked to,
\* every credit is covered by what the bank received.
LEMMA SolventHolds ==
  ASSUME IsFiniteSet(Users), IInv, KindsOK, OnceOK, DepositsOK
  PROVE  Solvent
<1> DEFINE effect == [id \in TxId |-> WalletEffect(tx[id])]
           owner == [id \in TxId |-> tx[id].user]
           owned == [id \in TxId |-> IF owner[id] \in Users THEN effect[id] ELSE 0]
           of(u) == [id \in TxId |-> IF owner[id] = u THEN effect[id] ELSE 0]
           part == [u \in Users |-> Balance(u)]
           cash == [id \in TxId |-> CashOf(id)]
           sells == [id \in TxId |-> IF IsSell(id) THEN effect[id] ELSE 0]
           rest == [id \in TxId |-> IF IsSell(id) THEN 0 ELSE effect[id]]
           Links(s, b) == tx[b].credit = s
           buyer == [s \in TxId |-> CHOOSE b \in TxId : Links(s, b)]
           linked == [s \in TxId |-> IF buyer[s] \in TxId THEN sells[s] ELSE 0]
           to(b) == [s \in TxId |-> IF buyer[s] = b THEN sells[s] ELSE 0]
           credit == [b \in TxId |-> SumFunctionOnSet(to(b), TxId)]
           both == [id \in TxId |-> rest[id] + credit[id]]
<1>1. IsFiniteSet(TxId)
  BY TableFinite
<1>2. DOMAIN tx = TxId
  BY DEF IInv, TypeOK
<1>3. \A id \in TxId : effect[id] \in Int /\ sells[id] \in Int /\ rest[id] \in Int
  BY EffectType
<1>4. SumFunctionOnSet(part, Users) = SumFunctionOnSet(owned, TxId)
  <2>1. ASSUME NEW u \in Users PROVE part[u] = SumFunctionOnSet(of(u), TxId)
    <3>1. [id \in DOMAIN tx |-> IF tx[id].user = u THEN WalletEffect(tx[id]) ELSE 0] = of(u)
      BY <1>2
    <3>2. DOMAIN of(u) = TxId
      OBVIOUS
    <3>3. part[u] = WalletBalance(tx, u)
      BY DEF Balance
    <3> HIDE DEF of, part
    <3> QED
      BY <3>1, <3>2, <3>3 DEF WalletBalance, SumFunction
  <2> DEFINE mine == [u \in Users |-> of(u)]
  <2>2. \A u \in Users : part[u] = SumFunctionOnSet(mine[u], TxId)
    BY <2>1
  <2>3. \A u \in Users : \A id \in TxId : mine[u][id] = IF owner[id] = u THEN effect[id] ELSE 0
    OBVIOUS
  <2>4. \A id \in TxId : owned[id] = IF owner[id] \in Users THEN effect[id] ELSE 0
    OBVIOUS
  <2> HIDE DEF effect, owner, part, mine, owned
  <2>5. SharedOut(TxId, Users, effect, owner, mine, part, owned)
    BY <1>1, <1>3, <2>2, <2>3, <2>4 DEF SharedOut
  <2> QED
    BY <2>5, SumPerOwner
<1>5. SumFunctionOnSet(owned, TxId) = SumFunctionOnSet(effect, TxId)
  <2>1. ASSUME NEW id \in TxId PROVE owned[id] = effect[id]
    <3>1. CASE Used(id)
      BY <3>1 DEF KindsOK, RowKind
    <3>2. CASE ~Used(id)
      <4>1. WalletEffect(tx[id]) = 0
        BY <3>2, EffectOf
      <4> QED
        BY <4>1
    <3> QED
      BY <3>1, <3>2
  <2> HIDE DEF effect, owned
  <2> QED
    BY <1>1, <1>3, <2>1, SumSame
<1>6. SumFunctionOnSet(effect, TxId) = SumFunctionOnSet(rest, TxId) + SumFunctionOnSet(sells, TxId)
  <2>1. \A id \in TxId : rest[id] \in Int /\ sells[id] \in Int /\ effect[id] = rest[id] + sells[id]
    BY <1>3
  <2> HIDE DEF effect, rest, sells
  <2> QED
    BY <1>1, <2>1, SumPlus
<1>7. SumFunctionOnSet(credit, TxId) = SumFunctionOnSet(linked, TxId)
  <2> DEFINE mine == [b \in TxId |-> to(b)]
  <2>1. \A b \in TxId : credit[b] = SumFunctionOnSet(mine[b], TxId)
    OBVIOUS
  <2>2. \A b \in TxId : \A s \in TxId : mine[b][s] = IF buyer[s] = b THEN sells[s] ELSE 0
    OBVIOUS
  <2>3. \A s \in TxId : linked[s] = IF buyer[s] \in TxId THEN sells[s] ELSE 0
    OBVIOUS
  <2> HIDE DEF buyer, credit, sells, mine, linked
  <2>4. SharedOut(TxId, TxId, sells, buyer, mine, credit, linked)
    BY <1>1, <1>3, <2>1, <2>2, <2>3 DEF SharedOut
  <2> QED
    BY <2>4, SumPerOwner
<1>8. \A s \in TxId : IsSell(s) => buyer[s] \in TxId /\ tx[buyer[s]].credit = s
  <2> SUFFICES ASSUME NEW s \in TxId, IsSell(s)
               PROVE  buyer[s] \in TxId /\ Links(s, buyer[s])
    OBVIOUS
  <2>1. \E b \in TxId : Links(s, b)
    BY DEF OnceOK, OneCreditPerPurchase
  <2>2. buyer[s] = CHOOSE b \in TxId : Links(s, b)
    OBVIOUS
  <2> HIDE DEF buyer, Links
  <2> QED
    BY <2>1, <2>2, Zenon
<1>9. SumFunctionOnSet(linked, TxId) = SumFunctionOnSet(sells, TxId)
  <2>1. \A s \in TxId : linked[s] = sells[s]
    BY <1>8
  <2> HIDE DEF linked, sells
  <2> QED
    BY <1>1, <1>3, <2>1, SumSame
<1>10. ASSUME NEW b \in TxId
       PROVE  /\ tx[b].credit = 0 => credit[b] = 0
              /\ tx[b].credit # 0 => credit[b] = effect[tx[b].credit]
  <2>1. credit[b] = SumFunctionOnSet(to(b), TxId)
    OBVIOUS
  <2>2. \A s \in TxId : to(b)[s] = IF buyer[s] = b THEN sells[s] ELSE 0
    OBVIOUS
  <2>3. ASSUME NEW s \in TxId, to(b)[s] # 0 PROVE s = tx[b].credit
    BY <1>8, <2>2, <2>3
  <2>4. CASE tx[b].credit = 0
    <3>1. 0 \notin TxId
      BY PaymentsAssumption
    <3>2. \A s \in TxId : to(b)[s] = 0
      BY <2>3, <2>4, <3>1
    <3> HIDE DEF to, credit
    <3> QED
      BY <1>1, <2>1, <2>4, <3>2, SumZero
  <2>5. CASE tx[b].credit # 0
    <3>1. PICK s \in TxId : s = tx[b].credit
      BY <2>5 DEF IInv, TypeOK, Row
    <3>2. IsSell(s)
      BY <2>5, <3>1 DEF IInv, TableOK, SaleIsPaired, IsSell, Used, Unused
    <3>3. buyer[s] = b
      BY <1>8, <2>5, <3>1, <3>2 DEF IInv, TableOK, SaleIsPaired
    <3>4. to(b)[s] = effect[s] /\ to(b)[s] \in Int
      BY <1>3, <2>2, <3>2, <3>3
    <3>5. \A y \in TxId : y # s => to(b)[y] = 0
      BY <2>3, <3>1
    <3> HIDE DEF to, credit, effect
    <3>6. SumFunctionOnSet(to(b), TxId) = to(b)[s]
      BY <1>1, <3>4, <3>5, SumSingle
    <3> QED
      BY <2>1, <2>5, <3>1, <3>4, <3>6
  <2> QED
    BY <2>4, <2>5
<1>11. \A id \in TxId : credit[id] \in Int /\ cash[id] \in Int
  <2>1. ASSUME NEW b \in TxId PROVE credit[b] \in Int
    <3>1. tx[b].credit # 0 => tx[b].credit \in TxId
      BY DEF IInv, TypeOK, Row
    <3> HIDE DEF credit, effect
    <3> QED
      BY <1>3, <1>10, <3>1
  <2>2. ASSUME NEW id \in TxId PROVE cash[id] \in Int
    <3>1. tx[id].amount \in Nat
      BY DEF IInv, TypeOK, Row
    <3> QED
      BY <3>1 DEF CashOf
  <2> QED
    BY <2>1, <2>2
<1>12. ASSUME NEW id \in TxId PROVE both[id] <= cash[id]
  <2>1. CASE tx[id].type = "IMAGE_BUY"
    <3>1. Used(id)
      BY <2>1 DEF IInv, TableOK, SlotsOK, FreeRow
    <3>2. rest[id] = effect[id] /\ effect[id] = WalletEffect(tx[id]) /\ cash[id] = CashOf(id)
      BY <2>1 DEF IsSell
    <3>3. CASE tx[id].credit = 0
      <4>1. credit[id] = 0 /\ WalletEffect(tx[id]) <= CashOf(id)
        BY <1>10, <2>1, <3>1, <3>3, PurchaseCovered
      <4>2. both[id] = rest[id] + credit[id]
        OBVIOUS
      <4> HIDE DEF both, rest, credit, effect, cash
      <4> QED
        BY <1>3, <3>2, <4>1, <4>2
    <3>4. CASE tx[id].credit # 0
      <4>1. PICK s \in TxId : s = tx[id].credit
        BY <3>4 DEF IInv, TypeOK, Row
      <4>2. credit[id] = effect[s] /\ effect[s] = WalletEffect(tx[s])
        BY <1>10, <3>4, <4>1
      <4>3. WalletEffect(tx[id]) + WalletEffect(tx[s]) <= CashOf(id)
        BY <2>1, <3>1, <3>4, <4>1, PurchaseCovered
      <4>4. both[id] = rest[id] + credit[id]
        OBVIOUS
      <4> HIDE DEF both, rest, credit, effect, cash
      <4> QED
        BY <3>2, <4>2, <4>3, <4>4
    <3> QED
      BY <3>3, <3>4
  <2>2. CASE tx[id].type # "IMAGE_BUY"
    <3>1. credit[id] = 0
      <4>1. tx[id].credit = 0
        BY <2>2 DEF IInv, TableOK, RowsOK
      <4> QED
        BY <1>10, <4>1
    <3>2. both[id] = rest[id] + credit[id] /\ cash[id] = CashOf(id)
      OBVIOUS
    <3>3. CASE IsSell(id)
      <4>1. CashOf(id) = 0 /\ rest[id] = 0
        BY <3>3 DEF CashOf, IsSell
      <4> HIDE DEF both, rest, credit, cash
      <4> QED
        BY <3>1, <3>2, <4>1
    <3>4. CASE ~IsSell(id)
      <4>1. WalletEffect(tx[id]) <= CashOf(id)
        BY <2>2, <3>4, RowCovered
      <4>2. rest[id] = WalletEffect(tx[id]) /\ WalletEffect(tx[id]) \in Int
        BY <3>4, EffectType
      <4> HIDE DEF both, rest, credit, cash
      <4> QED
        BY <3>1, <3>2, <4>1, <4>2
    <3> QED
      BY <3>3, <3>4
  <2> QED
    BY <2>1, <2>2
<1>13. SumFunctionOnSet(both, TxId) = SumFunctionOnSet(rest, TxId) + SumFunctionOnSet(credit, TxId)
  <2>1. \A id \in TxId : rest[id] \in Int /\ credit[id] \in Int /\ both[id] = rest[id] + credit[id]
    BY <1>3, <1>11
  <2> HIDE DEF both, rest, credit
  <2> QED
    BY <1>1, <2>1, SumPlus
<1>14. SumFunctionOnSet(both, TxId) <= SumFunctionOnSet(cash, TxId)
  <2>1. \A id \in TxId : both[id] \in Int /\ cash[id] \in Int /\ both[id] <= cash[id]
    <3>1. \A id \in TxId : both[id] = rest[id] + credit[id]
      OBVIOUS
    <3> HIDE DEF both, rest, credit, cash
    <3> QED
      BY <1>3, <1>11, <1>12, <3>1
  <2> HIDE DEF both, cash
  <2> QED
    BY <1>1, <2>1, SumLeq
<1>15. SumFunctionOnSet(part, Users) <= SumFunctionOnSet(cash, TxId)
  <2> HIDE DEF both, rest, credit, cash, part, owned, effect, sells, linked
  <2> QED
    BY <1>4, <1>5, <1>6, <1>7, <1>9, <1>13, <1>14
<1>16. SumFunction(part) = SumFunctionOnSet(part, Users) /\ Cash = SumFunctionOnSet(cash, TxId)
  BY DEF SumFunction, Cash
<1> QED
  BY <1>15, <1>16 DEF Solvent

\* The platform stays solvent, as long as one delivery of the webhook is handled
\* at a time and managers use their endpoint to cancel, fail or expire: whatever
\* they, the cron and the buyers decide while payments are under way, and however
\* withdrawals and purchases overdraw single wallets.
THEOREM StaysSolvent ==
  ASSUME IsFiniteSet(Users), \A g, h \in Hooks : g = h,
         ManagerStatuses \cap {"SUCCESS", "PENDING"} = {}
  PROVE  Spec => []Solvent
<1>1. IInv /\ KindsOK /\ OnceOK /\ DepositsOK => Solvent
  BY SolventHolds
<1>2. IInv /\ KindsOK /\ OnceOK /\ [Next]_vars => OnceOK'
  <2>1. "PENDING" \notin ManagerStatuses
    OBVIOUS
  <2> QED
    BY <2>1, OnceNext
<1>3. IInv /\ KindsOK /\ DepositsOK /\ [Next]_vars => DepositsOK'
  <2>1. "SUCCESS" \notin ManagerStatuses
    OBVIOUS
  <2> QED
    BY <2>1, DepositsNext
<1> QED
  BY <1>1, <1>2, <1>3, OnceInit, DepositsInit, KindsInvariance, PTL DEF Spec

-----------------------------------------------------------------------------
(***************************************************************************)
(* How far a wallet can be overdrawn.                                      *)
(***************************************************************************)
Requests == Procs \cup Hooks

\* The least a row that a request holds can come to count for.
Least(id) == IF tx[id].type = "WITHDRAWAL" THEN -tx[id].amount ELSE 0

Held(id) == \E q \in Requests : Holds(q, id)

Worst(id) == IF Held(id) THEN Least(id) ELSE WalletEffect(tx[id])

\* What request q has found covered and is about to take from u's wallet.
Spends(q, u) ==
  CASE req[q].user = u /\ req[q].pc \in Withdraws -> req[q].amount
    [] req[q].user = u /\ req[q].pc = "payByWallet" -> Price[req[q].photo]
    [] OTHER -> 0

WorstRows(u) == [id \in TxId |-> IF tx[id].user = u THEN Worst(id) ELSE 0]
Spending(u) == [q \in Requests |-> Spends(q, u)]

Spare(u) == SumFunctionOnSet(WorstRows(u), TxId) - SumFunctionOnSet(Spending(u), Requests)
Others == Cardinality(Requests) - 1

\* Even if every row in flight is decided for the worst and every balance found
\* sufficient is spent, each request but one has taken one debit too much.
CoveredOK == \A u \in Users : Spare(u) >= -(LargestDebit * Others)

\* What the code's instances have: somebody acts, and amounts are bounded.
SomeDebits ==
  /\ IsFiniteSet(Requests) /\ Requests # {}
  /\ IsFiniteSet(Amounts \cup Prices) /\ Amounts \cup Prices # {}

LEMMA DebitsBounded ==
  ASSUME SomeDebits
  PROVE  LargestDebit \in Nat /\ \A a \in Amounts \cup Prices : a \in Nat /\ a <= LargestDebit
<1> DEFINE D == Amounts \cup Prices
<1>1. D \subseteq Nat
  BY PaymentsAssumption DEF Prices
<1>2. \E m \in D : \A n \in D : n <= m
  <2>1. IsFiniteSet(D) /\ D # {} /\ D \subseteq Int
    BY <1>1 DEF SomeDebits
  <2> HIDE DEF D
  <2> QED
    BY <2>1, LargestExists
<1>3. LargestDebit = CHOOSE m \in D : \A n \in D : n <= m
  BY DEF LargestDebit, MaxOf
<1> HIDE DEF D
<1>4. LargestDebit \in D /\ \A n \in D : n <= LargestDebit
  BY <1>2, <1>3
<1> QED
  BY <1>1, <1>4 DEF D

LEMMA ProductNat == ASSUME NEW a \in Nat, NEW b \in Nat PROVE a * b \in Nat
  OBVIOUS

LEMMA OthersType ==
  ASSUME SomeDebits
  PROVE  Others \in Nat /\ LargestDebit * Others \in Nat
<1>1. Cardinality(Requests) \in Nat /\ Cardinality(Requests) # 0
  BY FS_CardinalityType, FS_EmptySet DEF SomeDebits
<1>2. Others \in Nat
  BY <1>1 DEF Others
<1> QED
  BY <1>2, DebitsBounded, ProductNat

\* Held or not, a row counts for what its owner's wallet shows at most.
LEMMA LeastEffect ==
  ASSUME IInv, KindsOK, NEW id \in TxId
  PROVE  /\ Least(id) \in Int /\ Worst(id) \in Int
         /\ Held(id) => /\ Used(id) /\ tx[id].type # "IMAGE_SELL"
                        /\ tx[id].type = "IMAGE_BUY" => tx[id].method = "SEPAY"
         /\ Used(id) /\ tx[id].type # "IMAGE_SELL" /\ (tx[id].type = "IMAGE_BUY" => tx[id].method = "SEPAY")
              => Least(id) <= WalletEffect(tx[id])
         /\ Pending(id) => WalletEffect(tx[id]) = Least(id)
         /\ Worst(id) <= WalletEffect(tx[id])
<1>0. tx[id].amount \in Nat /\ WalletEffect(tx[id]) \in Int
  BY EffectType DEF IInv, TypeOK, Row
<1>1. Least(id) \in Int /\ Worst(id) \in Int
  BY <1>0 DEF Least, Worst
<1>2. Held(id) => /\ Used(id) /\ tx[id].type # "IMAGE_SELL"
                  /\ tx[id].type = "IMAGE_BUY" => tx[id].method = "SEPAY"
  BY HeldIsUsed DEF Held, Holds, KindsOK, ReqKind, Requests
<1>3. Used(id) => tx[id].type \in {"DEPOSIT", "WITHDRAWAL", "IMAGE_BUY", "IMAGE_SELL"}
  BY DEF KindsOK, RowKind
<1>4. Used(id) /\ tx[id].type # "IMAGE_SELL" /\ (tx[id].type = "IMAGE_BUY" => tx[id].method = "SEPAY")
        => Least(id) <= WalletEffect(tx[id])
  BY <1>0, <1>3, EffectOf DEF Least
<1>5. ASSUME Pending(id) PROVE WalletEffect(tx[id]) = Least(id)
  <2>1. Used(id) /\ tx[id].type # "IMAGE_SELL" /\ (tx[id].type = "IMAGE_BUY" => tx[id].method # "WALLET")
    BY <1>5 DEF Pending, Used, Unused, IInv, TableOK, RowsOK, IsSell, KindsOK, RowKind
  <2>2. tx[id].status = "PENDING"
    BY <1>5 DEF Pending
  <2> QED
    BY <1>3, <2>1, <2>2, EffectOf DEF Least
<1>6. Worst(id) <= WalletEffect(tx[id])
  BY <1>0, <1>2, <1>4 DEF Worst
<1> QED
  BY <1>1, <1>2, <1>4, <1>5, <1>6

LEMMA SpendsType ==
  ASSUME IInv, KindsOK, SomeDebits, NEW q \in Requests, NEW u
  PROVE  /\ Spends(q, u) \in Nat /\ Spends(q, u) <= LargestDebit
         /\ req[q].pc \in HoldsRow => Spends(q, u) = 0
<1>1. req[q].pc \in Withdraws => req[q].amount \in Amounts
  BY DEF KindsOK, ReqKind, Requests
<1>2. req[q].pc = "payByWallet" => Price[req[q].photo] \in Prices
  BY DEF IInv, RequestsOK, RequestOK, HoldsBuy, Requests, Prices
<1>3. LargestDebit \in Nat /\ \A a \in Amounts \cup Prices : a \in Nat /\ a <= LargestDebit
  BY DebitsBounded
<1>4. Spends(q, u) \in Nat /\ Spends(q, u) <= LargestDebit
  BY <1>1, <1>2, <1>3 DEF Spends
<1>5. req[q].pc \in HoldsRow => Spends(q, u) = 0
  BY DEF HoldsRow, Spends, Withdraws
<1> QED
  BY <1>4, <1>5

\* The wallet, as a sum over all rows.
LEMMA BalanceIsSum ==
  ASSUME IInv, NEW u
  PROVE  Balance(u) =
           SumFunctionOnSet([id \in TxId |-> IF tx[id].user = u THEN WalletEffect(tx[id]) ELSE 0], TxId)
<1> DEFINE rows == [id \in TxId |-> IF tx[id].user = u THEN WalletEffect(tx[id]) ELSE 0]
<1>1. [id \in DOMAIN tx |-> IF tx[id].user = u THEN WalletEffect(tx[id]) ELSE 0] = rows
  BY DEF IInv, TypeOK
<1>2. DOMAIN rows = TxId
  OBVIOUS
<1>3. Balance(u) = SumFunction([id \in DOMAIN tx |-> IF tx[id].user = u THEN WalletEffect(tx[id]) ELSE 0])
  BY DEF Balance, WalletBalance
<1> HIDE DEF rows
<1>4. Balance(u) = SumFunction(rows)
  BY <1>1, <1>3
<1> QED
  BY <1>2, <1>4 DEF SumFunction, rows

LEMMA SpareType ==
  ASSUME IInv, KindsOK, SomeDebits, NEW u
  PROVE  /\ \A id \in TxId : WorstRows(u)[id] \in Int
         /\ \A q \in Requests : Spending(u)[q] \in Int /\ Spending(u)[q] = Spends(q, u)
         /\ SumFunctionOnSet(WorstRows(u), TxId) \in Int
         /\ SumFunctionOnSet(Spending(u), Requests) \in Int
         /\ SumFunctionOnSet(Spending(u), Requests) >= 0
<1>1. \A id \in TxId : WorstRows(u)[id] \in Int
  BY LeastEffect DEF WorstRows
<1>2. \A q \in Requests : Spending(u)[q] \in Int /\ Spending(u)[q] >= 0 /\ Spending(u)[q] = Spends(q, u)
  BY SpendsType DEF Spending
<1>3. IsFiniteSet(TxId) /\ IsFiniteSet(Requests)
  BY TableFinite DEF SomeDebits
<1>4. SumFunctionOnSet(WorstRows(u), TxId) \in Int
  BY <1>1, <1>3, SumType
<1>5. SumFunctionOnSet(Spending(u), Requests) \in Int
  BY <1>2, <1>3, SumType
<1>6. SumFunctionOnSet(Spending(u), Requests) >= 0
  BY <1>2, <1>3, SumCovers
<1> QED
  BY <1>1, <1>2, <1>4, <1>5, <1>6

\* What is spare is less than the balance, so that a wallet is overdrawn by no
\* more than what is covered.
LEMMA CoveredBounds ==
  ASSUME IInv, KindsOK, CoveredOK, SomeDebits
  PROVE  OverdraftBounded
<1> SUFFICES ASSUME NEW u \in Users
             PROVE  Balance(u) >= -LargestDebit * (Cardinality(Procs \cup Hooks) - 1)
  BY DEF OverdraftBounded
<1> DEFINE rows == [id \in TxId |-> IF tx[id].user = u THEN WalletEffect(tx[id]) ELSE 0]
<1>1. \A id \in TxId : rows[id] \in Int /\ WorstRows(u)[id] \in Int /\ WorstRows(u)[id] <= rows[id]
  BY LeastEffect, EffectType DEF WorstRows
<1>2. Balance(u) = SumFunctionOnSet(rows, TxId)
  BY BalanceIsSum
<1> HIDE DEF rows
<1>3. SumFunctionOnSet(WorstRows(u), TxId) <= SumFunctionOnSet(rows, TxId)
  BY <1>1, TableFinite, SumLeq
<1>4. SumFunctionOnSet(rows, TxId) \in Int
  BY <1>1, TableFinite, SumType
<1>5. Spare(u) >= -(LargestDebit * Others)
  BY DEF CoveredOK
<1>6. Balance(u) >= -(LargestDebit * Others)
  BY <1>2, <1>3, <1>4, <1>5, SpareType, OthersType DEF Spare
<1>7. LargestDebit \in Nat /\ Others \in Nat /\ Others = Cardinality(Procs \cup Hooks) - 1
  BY DebitsBounded, OthersType DEF Others, Requests
<1> HIDE DEF Others
<1>8. -LargestDebit * Others = -(LargestDebit * Others)
  BY <1>7
<1> QED
  BY <1>6, <1>7, <1>8

\* A request that neither holds a row nor spends leaves room for one debit more:
\* what the others hold and spend is at most a debit each.
LEMMA RoomForOne ==
  ASSUME IInv, KindsOK, SomeDebits, NEW u, NEW p \in Requests,
         req[p].pc \notin HoldsRow, Spends(p, u) = 0
  PROVE  Balance(u) \in Int /\ Spare(u) >= Balance(u) - LargestDebit * Others
<1> DEFINE rows == [id \in TxId |-> IF tx[id].user = u THEN WalletEffect(tx[id]) ELSE 0]
           worst == WorstRows(u)
           spent == Spending(u)
           MayLose(q) == req[q].pc \in HoldsRow /\ tx[req[q].id].user = u
           loss == [q \in Requests |-> IF MayLose(q)
                                       THEN WalletEffect(tx[req[q].id]) - Least(req[q].id) ELSE 0]
           owner == [q \in Requests |-> req[q].id]
           mine == [id \in TxId |-> [q \in Requests |-> IF owner[q] = id THEN loss[q] ELSE 0]]
           lost == [id \in TxId |-> SumFunctionOnSet(mine[id], Requests)]
           all == [q \in Requests |-> IF owner[q] \in TxId THEN loss[q] ELSE 0]
           cap == [q \in Requests |-> IF q = p THEN 0 ELSE LargestDebit]
           taken == [q \in Requests |-> all[q] + spent[q]]
           left == [id \in TxId |-> worst[id] + lost[id]]
<1>1. IsFiniteSet(TxId) /\ IsFiniteSet(Requests) /\ LargestDebit \in Nat
  BY TableFinite, DebitsBounded DEF SomeDebits
<1>2. ASSUME NEW q \in Requests
      PROVE  /\ loss[q] \in Int /\ loss[q] >= 0
             /\ loss[q] <= IF req[q].pc \in HoldsRow THEN LargestDebit ELSE 0
  <2>1. CASE MayLose(q)
    <3>1. PICK id \in TxId : id = req[q].id /\ Held(id)
      BY <2>1, HeldIsUsed DEF Held, Holds, Requests
    <3>2. loss[q] = WalletEffect(tx[id]) - Least(id)
      BY <2>1, <3>1
    <3>3. /\ Used(id) /\ tx[id].type # "IMAGE_SELL" /\ (tx[id].type = "IMAGE_BUY" => tx[id].method = "SEPAY")
          /\ Least(id) \in Int /\ WalletEffect(tx[id]) \in Int /\ Least(id) <= WalletEffect(tx[id])
      BY <3>1, LeastEffect, EffectType
    <3>4. WalletEffect(tx[id]) - Least(id) <= LargestDebit
      <4>1. tx[id].type \in {"DEPOSIT", "WITHDRAWAL", "IMAGE_BUY"}
        BY <3>3 DEF KindsOK, RowKind
      <4>2. tx[id].type # "IMAGE_BUY" => tx[id].amount \in Nat /\ tx[id].amount <= LargestDebit
        BY <3>3, <4>1, DebitsBounded DEF KindsOK, RowKind
      <4>3. CASE tx[id].type = "DEPOSIT"
        <5>1. Least(id) = 0 /\ WalletEffect(tx[id]) <= tx[id].amount
          BY <4>2, <4>3, EffectOf DEF Least
        <5> QED
          BY <1>1, <3>3, <4>2, <4>3, <5>1
      <4>4. CASE tx[id].type = "WITHDRAWAL"
        <5>1. Least(id) = -tx[id].amount /\ WalletEffect(tx[id]) <= 0
          BY <4>2, <4>4, EffectOf DEF Least
        <5> QED
          BY <1>1, <3>3, <4>2, <4>4, <5>1
      <4>5. CASE tx[id].type = "IMAGE_BUY"
        <5>1. Least(id) = 0 /\ WalletEffect(tx[id]) = 0
          BY <3>3, <4>5, EffectOf DEF Least
        <5> QED
          BY <1>1, <5>1
      <4> QED
        BY <4>1, <4>3, <4>4, <4>5
    <3> HIDE DEF loss
    <3> QED
      BY <2>1, <3>2, <3>3, <3>4
  <2>2. CASE ~MayLose(q)
    BY <1>1, <2>2
  <2> QED
    BY <2>1, <2>2
<1>3. ASSUME NEW q \in Requests
      PROVE  /\ all[q] \in Int /\ all[q] >= 0 /\ spent[q] \in Int
             /\ taken[q] \in Int /\ cap[q] \in Int /\ taken[q] <= cap[q]
             /\ taken[q] = all[q] + spent[q]
  <2>1. all[q] = 0 \/ all[q] = loss[q]
    OBVIOUS
  <2>2. spent[q] = Spends(q, u) /\ spent[q] \in Nat /\ spent[q] <= LargestDebit
        /\ (req[q].pc \in HoldsRow => spent[q] = 0)
    BY SpendsType DEF Spending
  <2>3. cap[q] = IF q = p THEN 0 ELSE LargestDebit
    OBVIOUS
  <2>4. taken[q] = all[q] + spent[q]
    OBVIOUS
  <2>5. q = p => spent[q] = 0 /\ req[q].pc \notin HoldsRow
    BY <2>2
  <2> HIDE DEF all, loss, cap, taken, spent
  <2> QED
    BY <1>1, <1>2, <2>1, <2>2, <2>3, <2>4, <2>5
<1>4. SumFunctionOnSet(lost, TxId) = SumFunctionOnSet(all, Requests)
  <2>1. \A q \in Requests : loss[q] \in Int
    BY <1>2
  <2>2. \A id \in TxId : lost[id] = SumFunctionOnSet(mine[id], Requests)
    OBVIOUS
  <2>3. \A id \in TxId : \A q \in Requests : mine[id][q] = IF owner[q] = id THEN loss[q] ELSE 0
    OBVIOUS
  <2>4. \A q \in Requests : all[q] = IF owner[q] \in TxId THEN loss[q] ELSE 0
    OBVIOUS
  <2> HIDE DEF owner, mine, lost, all, loss
  <2>5. SharedOut(Requests, TxId, loss, owner, mine, lost, all)
    BY <1>1, <2>1, <2>2, <2>3, <2>4 DEF SharedOut
  <2> QED
    BY <2>5, SumPerOwner
<1>5. SumFunctionOnSet(cap, Requests) = LargestDebit * Others
  <2>1. \A q \in Requests : cap[q] \in Int
    BY <1>3
  <2>2. cap[p] = 0 /\ \A q \in Requests \ {p} : cap[q] = LargestDebit
    OBVIOUS
  <2> HIDE DEF cap
  <2>3. SumFunctionOnSet(cap, Requests) = cap[p] + SumFunctionOnSet(cap, Requests \ {p})
    BY <1>1, <2>1, SumRemove
  <2>4. IsFiniteSet(Requests \ {p}) /\ Cardinality(Requests \ {p}) = Others
    BY <1>1, FS_RemoveElement DEF Others
  <2>5. SumFunctionOnSet(cap, Requests \ {p}) = LargestDebit * Cardinality(Requests \ {p})
    BY <1>1, <2>2, <2>4, SumConst
  <2>6. SumFunctionOnSet(cap, Requests) = 0 + LargestDebit * Others
    BY <2>2, <2>3, <2>4, <2>5
  <2> QED
    BY <2>6, OthersType
<1>6. SumFunctionOnSet(taken, Requests) = SumFunctionOnSet(all, Requests) + SumFunctionOnSet(spent, Requests)
  <2> HIDE DEF taken, all, spent, cap
  <2> QED
    BY <1>1, <1>3, SumPlus
<1>7. SumFunctionOnSet(taken, Requests) <= SumFunctionOnSet(cap, Requests)
  <2> HIDE DEF taken, all, spent, cap
  <2> QED
    BY <1>1, <1>3, SumLeq
<1>8. ASSUME NEW id \in TxId
      PROVE  /\ rows[id] \in Int /\ worst[id] \in Int /\ lost[id] \in Int
             /\ left[id] \in Int /\ left[id] = worst[id] + lost[id] /\ rows[id] <= left[id]
  <2>1. \A q \in Requests : mine[id][q] \in Int /\ mine[id][q] >= 0
    BY <1>2
  <2>2. lost[id] = SumFunctionOnSet(mine[id], Requests)
    OBVIOUS
  <2>3. lost[id] \in Int /\ lost[id] >= 0 /\ \A q \in Requests : mine[id][q] <= lost[id]
    <3> HIDE DEF mine, lost
    <3> QED
      BY <1>1, <2>1, <2>2, SumType, SumCovers
  <2>4. rows[id] = IF tx[id].user = u THEN WalletEffect(tx[id]) ELSE 0
    OBVIOUS
  <2>5. worst[id] = IF tx[id].user = u THEN Worst(id) ELSE 0
    BY DEF WorstRows
  <2>6. WalletEffect(tx[id]) \in Int /\ Least(id) \in Int /\ Worst(id) \in Int
    BY EffectType, LeastEffect
  <2>7. tx[id].user = u /\ Held(id) => WalletEffect(tx[id]) <= Least(id) + lost[id]
    <3> SUFFICES ASSUME tx[id].user = u, Held(id)
                 PROVE  WalletEffect(tx[id]) <= Least(id) + lost[id]
      OBVIOUS
    <3>1. PICK q \in Requests : Holds(q, id)
      BY DEF Held
    <3>2. mine[id][q] = WalletEffect(tx[id]) - Least(id)
      BY <3>1 DEF Holds
    <3>3. mine[id][q] <= lost[id]
      BY <2>3
    <3> HIDE DEF mine, lost
    <3> QED
      BY <2>3, <2>6, <3>2, <3>3
  <2>8. rows[id] <= worst[id] + lost[id]
    <3> HIDE DEF lost, rows, worst
    <3> QED
      BY <2>3, <2>4, <2>5, <2>6, <2>7 DEF Worst
  <2>9. left[id] = worst[id] + lost[id]
    OBVIOUS
  <2> HIDE DEF lost, rows, worst, left
  <2> QED
    BY <2>3, <2>4, <2>5, <2>6, <2>8, <2>9
<1>9. SumFunctionOnSet(rows, TxId) <= SumFunctionOnSet(left, TxId)
  <2>1. \A id \in TxId : rows[id] \in Int /\ left[id] \in Int /\ rows[id] <= left[id]
    BY <1>8
  <2> HIDE DEF rows, left
  <2> QED
    BY <1>1, <2>1, SumLeq
<1>10. SumFunctionOnSet(left, TxId) = SumFunctionOnSet(worst, TxId) + SumFunctionOnSet(lost, TxId)
  <2>1. \A id \in TxId : worst[id] \in Int /\ lost[id] \in Int /\ left[id] = worst[id] + lost[id]
    BY <1>8
  <2>2. IsFiniteSet(TxId)
    BY <1>1
  <2> HIDE DEF left, worst, lost
  <2>3. AddsUp(TxId, worst, lost, left)
    BY <2>1, <2>2 DEF AddsUp
  <2> QED
    BY <2>3, SumAdds
<1>11. Balance(u) = SumFunctionOnSet(rows, TxId)
  BY BalanceIsSum
<1>12. SumFunctionOnSet(rows, TxId) \in Int
  <2> HIDE DEF rows
  <2> QED
    BY <1>1, <1>8, SumType
<1>13. /\ SumFunctionOnSet(all, Requests) \in Int /\ SumFunctionOnSet(spent, Requests) \in Int
       /\ SumFunctionOnSet(worst, TxId) \in Int
  <2> HIDE DEF all, spent, worst
  <2> QED
    BY <1>1, <1>3, <1>8, SumType
<1>14. Spare(u) = SumFunctionOnSet(worst, TxId) - SumFunctionOnSet(spent, Requests)
  BY DEF Spare
<1> HIDE DEF all, spent, worst, rows, left, lost, taken, cap
<1> QED
  BY <1>4, <1>5, <1>6, <1>7, <1>9, <1>10, <1>11, <1>12, <1>13, <1>14, OthersType

\* The facts about rows and requests, of the next state too.
RowFacts ==
  \A id \in TxId :
    /\ Least(id) \in Int /\ Worst(id) \in Int /\ WalletEffect(tx[id]) \in Int
    /\ tx[id].amount \in Nat
    /\ Held(id) => /\ Used(id) /\ tx[id].type # "IMAGE_SELL"
                   /\ tx[id].type = "IMAGE_BUY" => tx[id].method = "SEPAY"
    /\ Used(id) /\ tx[id].type # "IMAGE_SELL" /\ (tx[id].type = "IMAGE_BUY" => tx[id].method = "SEPAY")
         => Least(id) <= WalletEffect(tx[id])
    /\ Pending(id) => WalletEffect(tx[id]) = Least(id)
    /\ ~Used(id) => WalletEffect(tx[id]) = 0
    /\ Used(id) /\ tx[id].type = "IMAGE_SELL" => WalletEffect(tx[id]) = tx[id].amount - tx[id].fee
    /\ Used(id) /\ tx[id].type = "IMAGE_BUY" =>
         WalletEffect(tx[id]) = IF tx[id].method = "WALLET" THEN -tx[id].amount ELSE 0

LEMMA RowFactsHold == IInv /\ KindsOK => RowFacts
<1> SUFFICES ASSUME IInv, KindsOK, NEW id \in TxId
             PROVE  /\ Least(id) \in Int /\ Worst(id) \in Int /\ WalletEffect(tx[id]) \in Int
                    /\ tx[id].amount \in Nat
                    /\ Held(id) => /\ Used(id) /\ tx[id].type # "IMAGE_SELL"
                                   /\ tx[id].type = "IMAGE_BUY" => tx[id].method = "SEPAY"
                    /\ Used(id) /\ tx[id].type # "IMAGE_SELL"
                         /\ (tx[id].type = "IMAGE_BUY" => tx[id].method = "SEPAY")
                         => Least(id) <= WalletEffect(tx[id])
                    /\ Pending(id) => WalletEffect(tx[id]) = Least(id)
                    /\ ~Used(id) => WalletEffect(tx[id]) = 0
                    /\ Used(id) /\ tx[id].type = "IMAGE_SELL"
                         => WalletEffect(tx[id]) = tx[id].amount - tx[id].fee
                    /\ Used(id) /\ tx[id].type = "IMAGE_BUY" =>
                         WalletEffect(tx[id]) = IF tx[id].method = "WALLET" THEN -tx[id].amount ELSE 0
  BY DEF RowFacts
<1>1. tx[id].amount \in Nat
  BY DEF IInv, TypeOK, Row
<1> QED
  BY <1>1, EffectType, EffectOf, LeastEffect

LEMMA RowFactsNext == IInv' /\ KindsOK' => RowFacts'
  BY RowFactsHold, PTL

\* No step makes the worst of a row worse.
LEMMA WorstRaised ==
  ASSUME IInv, KindsOK, IInv', KindsOK', NEW id \in TxId, Used(id), RowStep(id),
         \A q \in Requests : ReqStep(q)
  PROVE  Worst(id) <= Worst(id)'
<1>1. RowFacts /\ RowFacts'
  BY RowFactsHold, RowFactsNext
<1>2. SameRow(id) /\ (tx'[id].method = tx[id].method \/ tx'[id].method = "SEPAY")
  BY UsedRows
<1>3. Least(id)' = Least(id)
  BY <1>2 DEF Least, SameRow
<1>4. Used(id)'
  <2>1. CASE tx'[id] = tx[id]
    BY <2>1 DEF Used
  <2>2. CASE Expired(id) \/ Cancelled(id) \/ \E h \in Hooks : SettledBy(h, id)
    BY <2>2 DEF Expired, Cancelled, SettledBy, Used, Unused
  <2>3. ASSUME NEW p \in Procs, DecidedBy(p, id) PROVE Used(id)'
    <3>1. tx'[id].status \in {"SUCCESS", "CANCEL"} \/ tx'[id].status = req[p].status
      BY <2>3 DEF DecidedBy
    <3>2. req[p].status \in TransactionStatus
      BY DEF IInv, TypeOK, Request
    <3> QED
      BY <3>1, <3>2 DEF Used, Unused, TransactionStatus
  <2> QED
    BY <2>1, <2>2, <2>3 DEF RowStep, Created
<1>5. /\ Least(id) \in Int /\ Worst(id) \in Int /\ WalletEffect(tx[id]) \in Int
      /\ Worst(id)' \in Int /\ WalletEffect(tx'[id]) \in Int
  BY <1>1 DEF RowFacts
<1>6. ASSUME tx[id].type # "IMAGE_SELL", tx[id].type = "IMAGE_BUY" => tx[id].method = "SEPAY"
      PROVE  Least(id) <= WalletEffect(tx'[id])
  <2>1. tx'[id].type # "IMAGE_SELL" /\ (tx'[id].type = "IMAGE_BUY" => tx'[id].method = "SEPAY")
    BY <1>2, <1>6 DEF SameRow
  <2>2. Least(id)' <= WalletEffect(tx'[id])
    BY <1>1, <1>4, <2>1 DEF RowFacts
  <2> QED
    BY <1>3, <2>2
<1>7. Worst(id)' = IF Held(id)' THEN Least(id) ELSE WalletEffect(tx'[id])
  BY <1>3 DEF Worst
<1>8. CASE Held(id)
  <2>1. Least(id) <= WalletEffect(tx'[id])
    BY <1>1, <1>6, <1>8 DEF RowFacts
  <2>2. Worst(id) = Least(id)
    BY <1>8 DEF Worst
  <2> QED
    BY <1>5, <1>7, <2>1, <2>2
<1>9. CASE ~Held(id) /\ Held(id)'
  <2>1. PICK q \in Requests : req'[q].pc \in HoldsRow /\ req'[q].id = id
    BY <1>9 DEF Held, Holds
  <2>2. ReqStep(q) /\ ~(req[q].pc \in HoldsRow /\ req[q].id = id)
    BY <1>9 DEF Held, Holds
  <2>3. Begun(q)
    BY <2>1, <2>2 DEF ReqStep, Idle, Moved, Reads, HoldsRow
  <2>4. Pending(id)
    BY <2>1, <2>3 DEF Begun, Reads, HoldsRow
  <2>5. WalletEffect(tx[id]) = Least(id)
    BY <1>1, <2>4 DEF RowFacts
  <2> QED
    BY <1>5, <1>7, <1>9, <2>5 DEF Worst
<1>10. CASE ~Held(id) /\ ~Held(id)'
  <2>1. Worst(id) = WalletEffect(tx[id]) /\ Worst(id)' = WalletEffect(tx'[id])
    BY <1>7, <1>10 DEF Worst
  <2>2. CASE tx'[id] = tx[id]
    BY <1>5, <2>1, <2>2
  <2>3. CASE Expired(id)
    <3>1. Pending(id) /\ WalletEffect(tx[id]) = Least(id)
      BY <1>1, <2>3 DEF Expired, RowFacts
    <3>2. tx[id].type # "IMAGE_SELL" /\ (tx[id].type = "IMAGE_BUY" => tx[id].method = "SEPAY")
      BY <3>1 DEF Pending, IInv, TableOK, RowsOK, IsSell, KindsOK, RowKind, Used, Unused,
                  TypeOK, Row, PaymentMethod
    <3> QED
      BY <1>6, <2>1, <3>1, <3>2
  <2>4. CASE Cancelled(id)
    <3>1. tx[id].type = "IMAGE_BUY" /\ tx[id].method = "SEPAY"
      BY <2>4, HeldIsUsed DEF Cancelled, KindsOK, ReqKind
    <3>2. WalletEffect(tx[id]) = 0
      BY <1>1, <3>1 DEF RowFacts
    <3>3. Least(id) = 0
      BY <3>1 DEF Least
    <3> QED
      BY <1>6, <2>1, <3>1, <3>2, <3>3
  <2>5. CASE \E p \in Procs \cup Hooks : DecidedBy(p, id) \/ SettledBy(p, id)
    BY <1>10, <2>5 DEF DecidedBy, SettledBy, Held, Requests
  <2> QED
    BY <2>2, <2>3, <2>4, <2>5 DEF RowStep, Created
<1> QED
  BY <1>8, <1>9, <1>10

\* Request p takes what it spends with row id.
Debit(p, id) ==
  /\ tx'[id].user = req[p].user
  /\ \/ WithdrawCreate(p) /\ tx'[id].type = "WITHDRAWAL"
     \/ BuyByWallet(p) /\ tx'[id].type = "IMAGE_BUY"

\* A new row counts for nothing or more, unless it is a debit.
LEMMA WorstOfNew ==
  ASSUME IInv, KindsOK, IInv', KindsOK', NEW id \in TxId, ~Used(id), RowStep(id)
  PROVE  /\ tx[id].user \notin Users /\ Worst(id) = 0
         /\ \/ tx'[id].user \notin Users /\ tx'[id] = tx[id]
            \/ Worst(id)' >= 0
            \/ \E p \in Procs : /\ Debit(p, id) /\ tx'[id] # tx[id]
                                /\ Worst(id)' >= -Spends(p, req[p].user)
<1>1. RowFacts /\ RowFacts'
  BY RowFactsHold, RowFactsNext
<1>2. tx[id] = FreeRow
  BY DEF IInv, TableOK, SlotsOK
<1>3. tx[id].user \notin Users
  BY <1>2, PaymentsAssumption DEF FreeRow
<1>4. Worst(id) = 0
  BY <1>1 DEF RowFacts, Worst
<1>5. ~(\E p \in Procs \cup Hooks : Holds(p, id)) /\ \A p \in Procs : id \notin req[p].seen
  BY HeldIsUsed DEF Holds
<1>6. tx'[id] = tx[id] \/ Created(id)
  BY <1>5 DEF RowStep, Expired, Cancelled, DecidedBy, SettledBy, Pending, Used, Unused
<1>7. Worst(id)' \in Int /\ Least(id)' \in Int /\ WalletEffect(tx'[id]) \in Int /\ tx'[id].amount \in Nat
  BY <1>1 DEF RowFacts
<1>8. Worst(id)' = Least(id)' \/ Worst(id)' = WalletEffect(tx'[id])
  BY DEF Worst
<1>9. tx'[id].status = "PENDING" => Worst(id)' = Least(id)'
  BY <1>1, <1>8 DEF RowFacts, Pending
<1>10. CASE tx'[id] = tx[id]
  BY <1>3, <1>4, <1>10
<1>11. CASE NewDeposit(id)
  <2>1. Worst(id)' = 0
    BY <1>9, <1>11 DEF NewDeposit, Least
  <2> QED
    BY <1>3, <1>4, <2>1
<1>12. CASE NewSell(id)
  <2>1. Used(id)' /\ tx'[id].type = "IMAGE_SELL" /\ ~Held(id)'
    BY <1>1, <1>12 DEF NewSell, RowFacts, Used, Unused
  <2>2. Worst(id)' = tx'[id].amount - tx'[id].fee
    BY <1>1, <2>1 DEF RowFacts, Worst
  <2>3. tx'[id].fee \in Nat /\ tx'[id].fee <= tx'[id].amount
    BY <1>12 DEF NewSell, IInv, TypeOK, Row
  <2>4. Worst(id)' >= 0
    BY <1>7, <2>2, <2>3
  <2> QED
    BY <1>3, <1>4, <2>4
<1>13. ASSUME NEW p \in Procs, NewWithdrawal(p, id)
       PROVE  Debit(p, id) /\ Worst(id)' >= -Spends(p, req[p].user)
  <2>1. Worst(id)' = -tx'[id].amount
    BY <1>9, <1>13 DEF NewWithdrawal, Least
  <2>2. Spends(p, req[p].user) = req[p].amount
    BY <1>13 DEF NewWithdrawal, WithdrawCreate, At, Spends, Withdraws
  <2>3. tx'[id].amount = req[p].amount
    BY <1>13 DEF NewWithdrawal
  <2>4. Worst(id)' >= -Spends(p, req[p].user)
    BY <1>7, <2>1, <2>2, <2>3
  <2> QED
    BY <1>13, <2>4 DEF NewWithdrawal, Debit
<1>14. ASSUME NEW p \in Procs, NewBuy(p, id)
       PROVE  \/ Worst(id)' >= 0
              \/ Debit(p, id) /\ Worst(id)' >= -Spends(p, req[p].user)
  <2>1. CASE tx'[id].status = "PENDING"
    <3>1. Worst(id)' = 0
      BY <1>9, <1>14, <2>1 DEF NewBuy, Least
    <3> QED
      BY <3>1
  <2>2. CASE BuyByWallet(p) /\ tx'[id].status = "SUCCESS" /\ tx'[id].method = "WALLET"
             /\ tx'[id].amount = Price[req[p].photo]
    <3>1. Used(id)' /\ tx'[id].type = "IMAGE_BUY" /\ tx'[id].user = req[p].user
      BY <1>14, <2>2 DEF NewBuy, Used, Unused
    <3>2. ~Held(id)'
      BY <1>1, <2>2, <3>1 DEF RowFacts
    <3>3. Worst(id)' = -tx'[id].amount
      BY <1>1, <2>2, <3>1, <3>2 DEF RowFacts, Worst
    <3>4. Spends(p, req[p].user) = Price[req[p].photo]
      BY <2>2 DEF BuyByWallet, At, Spends, Withdraws
    <3>5. Worst(id)' >= -Spends(p, req[p].user)
      BY <1>7, <2>2, <3>3, <3>4
    <3> QED
      BY <2>2, <3>1, <3>5 DEF Debit
  <2> QED
    BY <1>14, <2>1, <2>2 DEF NewBuy
<1>15. CASE Created(id) /\ tx'[id] # tx[id]
  BY <1>3, <1>4, <1>11, <1>12, <1>13, <1>14, <1>15 DEF Created
<1> QED
  BY <1>6, <1>10, <1>15

\* A request comes to spend more only when it finds the balance sufficient.
LEMMA SpendsStep ==
  ASSUME IInv, KindsOK, NEW q \in Requests, ReqStep(q), NEW u \in Users
  PROVE  \/ Spends(q, u)' <= Spends(q, u)
         \/ /\ Spends(q, u) = 0 /\ req[q].pc \notin HoldsRow /\ tx' = tx
            /\ Spends(q, u)' <= Balance(u)
            /\ \A y \in Requests : y # q => req'[y] = req[y]
<1>1. req[q].pc \in Withdraws => req[q].amount \in Nat
  BY PaymentsAssumption DEF KindsOK, ReqKind, Requests
<1>2. req[q].pc = "payByWallet" => Price[req[q].photo] \in Nat
  BY PaymentsAssumption DEF IInv, RequestsOK, RequestOK, HoldsBuy, Requests
<1>3. Spends(q, u) \in Nat
  BY <1>1, <1>2 DEF Spends
<1>4. Spends(q, u)' = IF req'[q].user = u /\ req'[q].pc \in Withdraws THEN req'[q].amount
                      ELSE IF req'[q].user = u /\ req'[q].pc = "payByWallet" THEN Price[req'[q].photo]
                      ELSE 0
  BY DEF Spends, Withdraws
<1>5. CASE req'[q] = req[q]
  BY <1>3, <1>5 DEF Spends
<1>6. CASE req'[q].user # u \/ req'[q].pc \notin Withdraws \cup {"payByWallet"}
  <2>1. Spends(q, u)' = 0
    BY <1>4, <1>6
  <2> QED
    BY <1>3, <2>1
<1>7. ASSUME NEW a \in Amounts, Reads(q, "findPendingWithdrawal"), WithdrawBalance(q, u, a),
             req'[q].user = u, req'[q].amount = a
      PROVE  /\ Spends(q, u) = 0 /\ req[q].pc \notin HoldsRow /\ tx' = tx
             /\ Spends(q, u)' <= Balance(u)
             /\ \A y \in Requests : y # q => req'[y] = req[y]
  <2>1. Spends(q, u)' = a
    BY <1>4, <1>7 DEF Reads, Withdraws
  <2>2. Balance(u) >= a /\ req[q].pc = "idle" /\ tx' = tx
        /\ \A y \in Requests : y # q => req'[y] = req[y]
    BY <1>7 DEF WithdrawBalance, Begin, IInv, TypeOK, Requests
  <2>3. Spends(q, u) = 0 /\ req[q].pc \notin HoldsRow
    BY <2>2 DEF Spends, Withdraws, HoldsRow
  <2>4. a \in Int /\ Balance(u) \in Int
    <3>1. [id \in TxId |-> IF tx[id].user = u THEN WalletEffect(tx[id]) ELSE 0] \in [TxId -> Int]
      BY EffectType
    <3> DEFINE rows == [id \in TxId |-> IF tx[id].user = u THEN WalletEffect(tx[id]) ELSE 0]
    <3>2. \A id \in TxId : rows[id] \in Int
      BY <3>1
    <3>3. Balance(u) = SumFunctionOnSet(rows, TxId)
      BY BalanceIsSum
    <3> HIDE DEF rows
    <3>4. Balance(u) \in Int
      BY <3>2, <3>3, TableFinite, SumType
    <3> QED
      BY <3>4, PaymentsAssumption
  <2>5. Spends(q, u)' <= Balance(u)
    BY <2>1, <2>2, <2>4
  <2> QED
    BY <2>2, <2>3, <2>5
<1>8. CASE Reads(q, "createWithdrawal") /\ req[q].pc = "findPendingWithdrawal" /\ Moved(q)
  BY <1>3, <1>4, <1>8 DEF Reads, Moved, Spends, Withdraws
<1>9. CASE Reads(q, "payByWallet") /\ BuyCheckWallet(q) /\ Moved(q) /\ req'[q].user = u
  <2>1. req[q].pc = "checkWallet" /\ req[q].user = u /\ req'[q].photo = req[q].photo /\ tx' = tx
    BY <1>9 DEF BuyCheckWallet, At, Moved
  <2>2. ~Done(q)
    BY <1>9 DEF Done, Reads, Idle, IInv, TypeOK, Requests
  <2>3. Balance(u) >= Price[req[q].photo] /\ Goto(q, "payByWallet")
    BY <1>9, <2>1, <2>2 DEF BuyCheckWallet
  <2>4. \A y \in Requests : y # q => req'[y] = req[y]
    BY <2>3 DEF Goto, IInv, TypeOK, Requests
  <2>5. Spends(q, u) = 0 /\ req[q].pc \notin HoldsRow
    BY <2>1 DEF Spends, Withdraws, HoldsRow
  <2>6. Spends(q, u)' = Price[req[q].photo]
    BY <1>4, <1>9, <2>1 DEF Reads, Withdraws
  <2>7. Price[req[q].photo] \in Int
    <3>1. req[q].photo \in Photos
      BY <2>1 DEF IInv, RequestsOK, RequestOK, HoldsBuy, Requests
    <3> QED
      BY <3>1, PaymentsAssumption
  <2>8. Balance(u) \in Int
    <3> DEFINE rows == [id \in TxId |-> IF tx[id].user = u THEN WalletEffect(tx[id]) ELSE 0]
    <3>1. \A id \in TxId : rows[id] \in Int
      BY EffectType
    <3>2. Balance(u) = SumFunctionOnSet(rows, TxId)
      BY BalanceIsSum
    <3> HIDE DEF rows
    <3> QED
      BY <3>1, <3>2, TableFinite, SumType
  <2>9. Spends(q, u)' <= Balance(u)
    BY <2>3, <2>6, <2>7, <2>8
  <2> QED
    BY <2>1, <2>4, <2>5, <2>9
<1>10. CASE req'[q] = Idle
  BY <1>6, <1>10 DEF Idle, Withdraws
<1>11. CASE Begun(q)
  <2>1. \/ req'[q].pc \in {"findPendingBuys", "settle", "uploadProof", "deny", "managerWallet"}
        \/ \E v \in Users, a \in Amounts :
             /\ Reads(q, "findPendingWithdrawal") /\ WithdrawBalance(q, v, a)
             /\ req'[q].user = v /\ req'[q].amount = a
    BY <1>11 DEF Begun, Reads
  <2> QED
    BY <1>6, <1>7, <2>1 DEF Withdraws
<1>12. CASE Moved(q)
  <2>1. \/ Reads(q, "createWithdrawal") /\ req[q].pc = "findPendingWithdrawal"
        \/ Reads(q, "payByWallet") /\ BuyCheckWallet(q)
        \/ req'[q].pc \in {"managerWrite", "checkWallet", "payByBank"}
    BY <1>12 DEF Moved, Reads
  <2> QED
    BY <1>6, <1>8, <1>9, <1>12, <2>1 DEF Withdraws
<1> QED
  BY <1>5, <1>10, <1>11, <1>12 DEF ReqStep

\* A debit is one row, and ends the request that spends it.
LEMMA OneDebit ==
  ASSUME IInv, NEW p \in Procs, NEW id \in TxId, ~Used(id), tx'[id] # tx[id], Debit(p, id),
         NEW y \in TxId, y # id, ~Used(y), tx'[y] # tx[y]
  PROVE  tx'[y].type = "IMAGE_SELL"
<1>1. CASE WithdrawCreate(p)
  BY <1>1 DEF WithdrawCreate, IInv, TypeOK
<1>2. CASE BuyByWallet(p) /\ tx'[id].type = "IMAGE_BUY"
  <2>1. PICK sell \in TxId, buy \in TxId :
          /\ buy = sell + 1
          /\ tx' = [CancelSeen(p) EXCEPT
                   ![sell] = SellRow(SellerOf[req[p].photo], Price[req[p].photo],
                                     Fee(Price[req[p].photo]), FALSE),
                   ![buy]  = BuyRow(req[p].user, req[p].photo, "WALLET", "SUCCESS", sell)]
    BY <1>2 DEF BuyByWallet
  <2>2. \A j \in TxId : j # sell /\ j # buy => tx'[j] = CancelSeen(p)[j]
    BY <2>1 DEF CancelSeen
  <2>3. \A j \in TxId : ~Used(j) => CancelSeen(p)[j] = tx[j]
    BY HeldIsUsed DEF CancelSeen
  <2>4. tx'[sell] = SellRow(SellerOf[req[p].photo], Price[req[p].photo],
                            Fee(Price[req[p].photo]), FALSE)
    <3>1. DOMAIN CancelSeen(p) = TxId /\ sell # buy
      BY <2>1 DEF CancelSeen
    <3> QED
      BY <2>1, <3>1
  <2>5. tx'[sell].type = "IMAGE_SELL"
    BY <2>4 DEF SellRow, NewRow, FreeRow
  <2> QED
    BY <1>2, <2>2, <2>3, <2>5
<1> QED
  BY <1>1, <1>2 DEF Debit

SpendsOK == \A q \in Requests, u \in Users : Spends(q, u) \in Nat

LEMMA SpendsNat == SomeDebits => (IInv /\ KindsOK => SpendsOK)
  BY SpendsType DEF SpendsOK

LEMMA SpendsNatNext == SomeDebits => (IInv' /\ KindsOK' => SpendsOK')
<1> HIDE DEF SomeDebits
<1>1. SomeDebits /\ IInv /\ KindsOK => SpendsOK
  BY SpendsNat
<1>2. SomeDebits' /\ IInv' /\ KindsOK' => SpendsOK'
  BY <1>1, PTL
<1>3. SomeDebits' = SomeDebits
  BY DEF SomeDebits, Requests, Prices
<1> QED
  BY <1>2, <1>3

LEMMA CoveredInit ==
  ASSUME SomeDebits, Init, IInv, KindsOK
  PROVE  CoveredOK
<1> SUFFICES ASSUME NEW u \in Users PROVE Spare(u) >= -(LargestDebit * Others)
  BY DEF CoveredOK
<1>1. IsFiniteSet(TxId) /\ IsFiniteSet(Requests)
  BY TableFinite DEF SomeDebits
<1>2. \A id \in TxId : WorstRows(u)[id] = 0
  BY PaymentsAssumption DEF Init, FreeRow, WorstRows
<1>3. \A q \in Requests : Spending(u)[q] = 0
  BY DEF Init, Idle, Spending, Spends, Withdraws, Requests
<1>4. SumFunctionOnSet(WorstRows(u), TxId) = 0
  BY <1>1, <1>2, SumZero
<1>5. SumFunctionOnSet(Spending(u), Requests) = 0
  BY <1>1, <1>3, SumZero
<1> QED
  BY <1>4, <1>5, OthersType DEF Spare

LEMMA CoveredNext ==
  ASSUME SomeDebits, IInv, KindsOK, CoveredOK, [Next]_vars, IInv', KindsOK'
  PROVE  CoveredOK'
<1> SUFFICES ASSUME NEW u \in Users PROVE Spare(u)' >= -(LargestDebit * Others)
  BY DEF CoveredOK
<1>1. (\A id \in TxId : RowStep(id)) /\ \A q \in Requests : ReqStep(q)
  BY RowSteps, ReqSteps DEF Requests
<1>2. RowFacts /\ RowFacts'
  BY RowFactsHold, RowFactsNext
<1>3. PICK w, w1, s, s1 : /\ w = WorstRows(u) /\ w1 = WorstRows(u)'
                          /\ s = Spending(u) /\ s1 = Spending(u)'
  OBVIOUS
<1>4. /\ Spare(u) = SumFunctionOnSet(w, TxId) - SumFunctionOnSet(s, Requests)
      /\ Spare(u)' = SumFunctionOnSet(w1, TxId) - SumFunctionOnSet(s1, Requests)
  BY <1>3 DEF Spare
<1>5. \A id \in TxId :
        /\ w[id] = (IF tx[id].user = u THEN Worst(id) ELSE 0)
        /\ w1[id] = (IF tx'[id].user = u THEN Worst(id)' ELSE 0)
        /\ w[id] \in Int /\ w1[id] \in Int
  BY <1>2, <1>3 DEF WorstRows, RowFacts
<1>6. \A q \in Requests : /\ s[q] = Spends(q, u) /\ s1[q] = Spends(q, u)'
                          /\ s[q] \in Int /\ s1[q] \in Int /\ s[q] >= 0
  <2>1. \A q \in Requests : Spends(q, u) \in Nat
    BY SpendsType
  <2>2. \A q \in Requests : Spends(q, u)' \in Nat
    BY SpendsNatNext DEF SpendsOK
  <2> QED
    BY <1>3, <2>1, <2>2 DEF Spending
<1>7. IsFiniteSet(TxId) /\ IsFiniteSet(Requests)
  BY TableFinite DEF SomeDebits
<1>8. /\ SumFunctionOnSet(w, TxId) \in Int /\ SumFunctionOnSet(w1, TxId) \in Int
      /\ SumFunctionOnSet(s, Requests) \in Int /\ SumFunctionOnSet(s1, Requests) \in Int
  BY <1>5, <1>6, <1>7, SumType
<1>9. Spare(u) >= -(LargestDebit * Others)
  BY DEF CoveredOK
<1>10. \A id \in TxId : Used(id) => w[id] <= w1[id]
  <2> SUFFICES ASSUME NEW id \in TxId, Used(id) PROVE w[id] <= w1[id]
    OBVIOUS
  <2>1. Worst(id) <= Worst(id)'
    BY <1>1, WorstRaised
  <2>2. tx'[id].user = tx[id].user
    BY <1>1, UsedRows DEF SameRow
  <2> QED
    BY <1>5, <2>1, <2>2
<1>11. \A id \in TxId : ~Used(id) =>
         \/ w[id] <= w1[id]
         \/ \E p \in Procs : /\ Debit(p, id) /\ tx'[id] # tx[id]
                             /\ w[id] - Spends(p, u) <= w1[id]
  <2> SUFFICES ASSUME NEW id \in TxId, ~Used(id), ~(w[id] <= w1[id])
               PROVE  \E p \in Procs : /\ Debit(p, id) /\ tx'[id] # tx[id]
                                       /\ w[id] - Spends(p, u) <= w1[id]
    OBVIOUS
  <2>1. w[id] = 0
    BY <1>1, <1>5, WorstOfNew
  <2>2. tx'[id].user = u /\ ~(Worst(id)' >= 0)
    BY <1>5, <2>1
  <2>3. PICK p \in Procs : /\ Debit(p, id) /\ tx'[id] # tx[id]
                           /\ Worst(id)' >= -Spends(p, req[p].user)
    BY <1>1, <2>2, WorstOfNew
  <2>4. req[p].user = u /\ Spends(p, u) \in Int
    BY <1>6, <2>2, <2>3 DEF Debit, Requests
  <2>5. w[id] - Spends(p, u) <= w1[id]
    BY <1>5, <2>1, <2>2, <2>3, <2>4
  <2> QED
    BY <2>3, <2>5
<1>12. ASSUME NEW p \in Procs, NEW id \in TxId, ~Used(id), Debit(p, id), tx'[id] # tx[id],
              w[id] - Spends(p, u) <= w1[id]
       PROVE  Spare(u) <= Spare(u)'
  <2>1. PICK c \in Int : c = Spends(p, u) /\ c >= 0
    BY <1>6 DEF Requests
  <2>2. \A y \in TxId : y # id => w[y] <= w1[y]
    <3> SUFFICES ASSUME NEW y \in TxId, y # id, ~Used(y), ~(w[y] <= w1[y]) PROVE FALSE
      BY <1>10
    <3>1. tx'[y] # tx[y] /\ \E r \in Procs : Debit(r, y)
      BY <1>11
    <3>2. tx'[y].type = "IMAGE_SELL"
      BY <1>12, <3>1, OneDebit
    <3> QED
      BY <3>1, <3>2 DEF Debit
  <2>3. w[id] <= w1[id] + c
    BY <1>5, <1>12, <2>1
  <2>4. SumFunctionOnSet(w, TxId) <= SumFunctionOnSet(w1, TxId) + c
    BY <1>5, <1>7, <2>2, <2>3, SumLeqBut
  <2>5. p \in Requests /\ Done(p)
    BY <1>12 DEF Debit, WithdrawCreate, BuyByWallet, Requests
  <2>6. \A q \in Requests : q # p => s1[q] <= s[q]
    <3> SUFFICES ASSUME NEW q \in Requests, q # p PROVE s1[q] = s[q]
      BY <1>6
    <3>1. req'[q] = req[q]
      BY <2>5 DEF Done, IInv, TypeOK, Requests
    <3> QED
      BY <1>6, <3>1 DEF Spends
  <2>7. s1[p] <= s[p] + (-c)
    <3>1. req'[p] = Idle
      BY <2>5 DEF Done, IInv, TypeOK, Requests
    <3>2. Spends(p, u)' = 0
      BY <3>1 DEF Spends, Withdraws, Idle
    <3> QED
      BY <1>6, <2>1, <2>5, <3>2
  <2>8. SumFunctionOnSet(s1, Requests) <= SumFunctionOnSet(s, Requests) + (-c)
    <3>1. -c \in Int
      BY <2>1
    <3> QED
      BY <1>6, <1>7, <2>5, <2>6, <2>7, <3>1, SumLeqBut
  <2> QED
    BY <1>4, <1>8, <2>1, <2>4, <2>8
<1>13. ASSUME NEW q \in Requests, Spends(q, u) = 0, req[q].pc \notin HoldsRow, tx' = tx,
              Spends(q, u)' <= Balance(u), \A y \in Requests : y # q => req'[y] = req[y]
       PROVE  Spare(u)' >= -(LargestDebit * Others)
  <2>1. Balance(u) \in Int /\ Spare(u) >= Balance(u) - LargestDebit * Others
    BY <1>13, RoomForOne
  <2>2. \A id \in TxId : w[id] <= w1[id]
    BY <1>10, <1>11, <1>13
  <2>3. SumFunctionOnSet(w, TxId) <= SumFunctionOnSet(w1, TxId)
    BY <1>5, <1>7, <2>2, SumLeq
  <2>4. PICK c \in Int : c = Spends(q, u)'
    BY <1>6
  <2>5. \A y \in Requests : y # q => s1[y] <= s[y]
    <3> SUFFICES ASSUME NEW y \in Requests, y # q PROVE s1[y] = s[y]
      BY <1>6
    <3>1. req'[y] = req[y]
      BY <1>13
    <3> QED
      BY <1>6, <3>1 DEF Spends
  <2>6. s1[q] <= s[q] + c
    BY <1>6, <1>13, <2>4
  <2>7. SumFunctionOnSet(s1, Requests) <= SumFunctionOnSet(s, Requests) + c
    BY <1>6, <1>7, <2>5, <2>6, SumLeqBut
  <2> QED
    BY <1>4, <1>8, <1>13, <2>1, <2>3, <2>4, <2>7, OthersType
<1>14. ASSUME \A id \in TxId : w[id] <= w1[id], \A q \in Requests : s1[q] <= s[q]
       PROVE  Spare(u) <= Spare(u)'
  <2>1. SumFunctionOnSet(w, TxId) <= SumFunctionOnSet(w1, TxId)
    BY <1>5, <1>7, <1>14, SumLeq
  <2>2. SumFunctionOnSet(s1, Requests) <= SumFunctionOnSet(s, Requests)
    BY <1>6, <1>7, <1>14, SumLeq
  <2> QED
    BY <1>4, <1>8, <2>1, <2>2
<1>15. Spare(u) \in Int /\ Spare(u)' \in Int
  BY <1>4, <1>8
<1>16. CASE \E id \in TxId : ~(w[id] <= w1[id])
  BY <1>9, <1>10, <1>11, <1>12, <1>15, <1>16, OthersType
<1>17. CASE \E q \in Requests : ~(s1[q] <= s[q])
  <2>1. PICK q \in Requests : ~(Spends(q, u)' <= Spends(q, u))
    BY <1>6, <1>17
  <2> QED
    BY <1>1, <1>13, <2>1, SpendsStep
<1> QED
  BY <1>9, <1>14, <1>15, <1>16, <1>17, OthersType

\* However requests interleave, no wallet is overdrawn by more than one largest
\* debit for every request but one: the check of the balance and the row that
\* takes the money are apart, so that each request in flight may take once what
\* another took too, but never twice.
THEOREM OverdraftLimited ==
  ASSUME SomeDebits
  PROVE  Spec => []OverdraftBounded
<1>1. Init /\ IInv /\ KindsOK => CoveredOK
  BY CoveredInit
<1>2. IInv /\ KindsOK /\ CoveredOK /\ [Next]_vars /\ IInv' /\ KindsOK' => CoveredOK'
  BY CoveredNext
<1>3. IInv /\ KindsOK /\ CoveredOK => OverdraftBounded
  BY CoveredBounds
<1> QED
  BY <1>1, <1>2, <1>3, KindsInvariance, PTL DEF Spec
====
