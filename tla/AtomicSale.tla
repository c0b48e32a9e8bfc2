----------------------------- MODULE AtomicSale -----------------------------
(***************************************************************************)
(* What the payment core promises about selling photos, whatever requests, *)
(* webhooks, managers and the cron do to each other: paying for a purchase *)
(* and crediting its photographer are one step, for the same amount, and   *)
(* neither is ever undone or altered.                                      *)
(***************************************************************************)
CONSTANTS Id, Photos, Amounts, SellerOf

VARIABLES
  paid,    \* purchase -> the photo and the amount paid for it
  credits  \* credit -> the photographer and the amount credited

avars == <<paid, credits>>

Init == paid = [id \in {} |-> id] /\ credits = [id \in {} |-> id]

Put(f, k, v) == [x \in DOMAIN f \cup {k} |-> IF x = k THEN v ELSE f[x]]

\* Purchase b of photo ph is paid for, or reported paid once more, and its
\* photographer gets the new credit s.
Sell(b, s, ph, amount) ==
  /\ s \notin DOMAIN credits
  /\ b \in DOMAIN paid => paid[b] = <<ph, amount>>
  /\ paid' = Put(paid, b, <<ph, amount>>)
  /\ credits' = Put(credits, s, <<SellerOf[ph], amount>>)

Next == \E b, s \in Id, ph \in Photos, amount \in Amounts : Sell(b, s, ph, amount)

Spec == Init /\ [][Next]_avars
=============================================================================
