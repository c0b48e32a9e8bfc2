------------------------------- MODULE Wallet -------------------------------
(***************************************************************************)
(* The transaction table's vocabulary and the wallet computed from it.     *)
(* A user has no stored balance: SepayService folds the user's transaction *)
(* rows into one every time a balance is asked for.                        *)
(***************************************************************************)
EXTENDS Integers, FiniteSets, Functions

TransactionStatus == {"SUCCESS", "FAILED", "PENDING", "CANCEL", "EXPIRED"}

\* REFUND_FROM_BUY_IMAGE exists in the schema and in the fold, and no code
\* creates one.
TransactionType == {"UPGRADE_TO_PHOTOGRAPHER", "IMAGE_SELL", "IMAGE_BUY",
                    "REFUND_FROM_BUY_IMAGE", "DEPOSIT", "WITHDRAWAL"}

PaymentMethod == {"SEPAY", "WALLET"}

\* The status of a table slot no INSERT has used yet.
Unused == "UNUSED"

\* Mutant: a purchase paid by bank falls through to the case of sales.
WalletEffectMutant(t) ==
  CASE t.status = "SUCCESS" /\ t.type \in {"DEPOSIT", "REFUND_FROM_BUY_IMAGE"}
         -> t.amount
    [] t.status = "SUCCESS" /\ t.type = "IMAGE_SELL"
         -> t.amount - t.fee
    [] t.status = "SUCCESS" /\ t.type = "IMAGE_BUY" /\ t.method = "SEPAY"
         -> t.amount - t.fee
    [] \/ t.status \in {"SUCCESS", "PENDING"} /\ t.type = "WITHDRAWAL"
       \/ /\ t.status = "SUCCESS"
          /\ t.type \in {"IMAGE_BUY", "UPGRADE_TO_PHOTOGRAPHER"}
          /\ t.method = "WALLET"
         -> -t.amount
    [] OTHER -> 0

\* What one row adds to its owner's wallet: the body of the reduce callback.
\* Only SUCCESS rows count, except that a PENDING withdrawal already holds its
\* amount back; purchases count only when they were paid from the wallet.
WalletEffect(t) ==
  CASE t.status = "SUCCESS" /\ t.type \in {"DEPOSIT", "REFUND_FROM_BUY_IMAGE"}
         -> t.amount
    [] t.status = "SUCCESS" /\ t.type = "IMAGE_SELL"
         -> t.amount - t.fee
    [] \/ t.status \in {"SUCCESS", "PENDING"} /\ t.type = "WITHDRAWAL"
       \/ /\ t.status = "SUCCESS"
          /\ t.type \in {"IMAGE_BUY", "UPGRADE_TO_PHOTOGRAPHER"}
          /\ t.method = "WALLET"
         -> -t.amount
    [] OTHER -> 0

\* The wallet of user u over the table rows, a function from ids to rows.
WalletBalance(rows, u) ==
  SumFunction([id \in DOMAIN rows |-> IF rows[id].user = u THEN WalletEffect(rows[id]) ELSE 0])
=============================================================================
