------------------------------- MODULE Plans -------------------------------
(***************************************************************************)
(* The upgrade packages managers write, and what a user pays for one: the  *)
(* price of the months asked for, less what the package the user has is    *)
(* worth still.  UpgradeOrders.tla has the orders themselves; here a       *)
(* purchase is one step.  Time passes in days.                             *)
(***************************************************************************)
EXTENDS Library, Functions

CONSTANTS
  Procs,     \* requests of managers in flight at once
  Names,     \* of packages
  Prices,    \* of packages, for a month
  Months,    \* months users ask for
  Starts,    \* dates on which it all begins
  MaxPlans,  \* bound: rows of the UpgradePackage table
  MaxWait    \* bound: days that pass

\* Months count from January of a leap year.
Length(month) ==
  CASE month % 12 \in {3, 5, 8, 10} -> 30
    [] month % 12 = 1 -> IF (month \div 12) % 4 = 0 THEN 29 ELSE 28
    [] OTHER -> 31

Dates == {d \in [month : Nat, day : 1..31] : d.day <= Length(d.month)}

ASSUME PlansAssumption ==
  /\ Prices \subseteq Nat \ {0} /\ Months \subseteq Nat \ {0}
  /\ Starts \subseteq Dates /\ Starts # {} /\ None \notin Names /\ IsFiniteSet(Procs)
  /\ {MaxPlans, MaxWait} \subseteq Nat

PlanId == 1..MaxPlans

VARIABLES
  plan,    \* the UpgradePackage table
  today,   \* a date
  waited,  \* days since the start
  order,   \* the active order of one user, with what was paid and its copy of the package
  ask      \* requests of managers in flight

plansVars == <<plan, today, waited, order, ask>>

NoPlan == [name |-> None, price |-> 0, quota |-> 0, minMonths |-> 1, enabled |-> FALSE, deleted |-> FALSE]
NoOrder == [plan |-> 0, quota |-> 0, paid |-> 0, at |-> [month |-> 0, day |-> 1], until |-> [month |-> 0, day |-> 1]]
NoAsk == [pc |-> "idle", id |-> 0, row |-> NoPlan]

PlanRow == [name : Names \cup {None}, price : Nat, quota : Nat, minMonths : Nat, enabled : BOOLEAN, deleted : BOOLEAN]

\* What managers write.
Rows == [name : Names, price : Prices, quota : {1}, minMonths : {1}, enabled : BOOLEAN, deleted : {FALSE}]

PlansTypeOK ==
  /\ plan \in [PlanId -> PlanRow]
  /\ today.month \in Nat /\ today.day \in 1..31
  /\ order.plan \in {0} \cup PlanId /\ order.paid \in Nat
  /\ \A p \in Procs : ask[p].pc \in {"idle", "findByName", "write"} /\ ask[p].row \in PlanRow

PlansInit ==
  \* Orders begin with packages that are offered already.
  /\ plan \in IF May("order") THEN {[i \in PlanId |-> [t[i] EXCEPT !.quota = i]] : t \in
                                       {t \in [PlanId -> Rows] : \A i, k \in PlanId : t[i].enabled /\ (t[i].name = t[k].name => i = k)}}
                             ELSE {[i \in PlanId |-> NoPlan]}
  /\ today \in IF May("order") \/ May("plan") THEN Starts ELSE {CHOOSE d \in Starts : TRUE}
  /\ waited = 0
  /\ order = NoOrder
  /\ ask = [p \in Procs |-> NoAsk]

-----------------------------------------------------------------------------
(* Dates *)

LeastOf(a, b) == IF a <= b THEN a ELSE b
NotAfter(d, e) == d.month < e.month \/ (d.month = e.month /\ d.day <= e.day)
NextDay(d) == IF d.day < Length(d.month) THEN [d EXCEPT !.day = @ + 1] ELSE [month |-> d.month + 1, day |-> 1]

\* Days from the first of month a to the first of month b, and between two dates.
DaysOf(a, b) == SumFunctionOnSet([m \in a..(b - 1) |-> Length(m)], a..(b - 1))
Between(d, e) == DaysOf(d.month, e.month) + e.day - d.day

\* addCalendarMonths
AddCalendarMonths(d, n) == [month |-> d.month + n, day |-> LeastOf(d.day, Length(d.month + n))]

-----------------------------------------------------------------------------
(* Packages *)

Kept(i) == plan[i] # NoPlan /\ ~plan[i].deleted
AskAt(p, pc) == ask[p].pc = pc
Answer(p) == ask' = [ask EXCEPT ![p] = NoAsk]

\* create, and replace or update after findById.
AskWrite(p) ==
  /\ May("plan") /\ AskAt(p, "idle")
  /\ \E i \in {0} \cup {i \in PlanId : Kept(i)}, row \in Rows :
       ask' = [ask EXCEPT ![p] = [pc |-> "findByName", id |-> i, row |-> row]]
  /\ UNCHANGED <<libraryVars, plan, today, waited, order>>

\* Mutant: a package being created is not compared with the others.
FindByNameMutant(p) ==
  /\ AskAt(p, "findByName")
  /\ IF ask[p].id # 0 /\ \E i \in PlanId : Kept(i) /\ plan[i].name = ask[p].row.name /\ i # ask[p].id
       THEN Answer(p)
       ELSE ask' = [ask EXCEPT ![p].pc = "write"]
  /\ UNCHANGED <<libraryVars, plan, today, waited, order>>

\* findFirst by name: ExistUpgradePackageWithSameNameException.
FindByName(p) ==
  /\ AskAt(p, "findByName")
  /\ IF \E i \in PlanId : Kept(i) /\ plan[i].name = ask[p].row.name /\ i # ask[p].id
       THEN Answer(p)
       ELSE ask' = [ask EXCEPT ![p].pc = "write"]
  /\ UNCHANGED <<libraryVars, plan, today, waited, order>>

\* A package that was deleted since is not found by the update.
WritePlan(p) ==
  /\ AskAt(p, "write")
  /\ \/ /\ ask[p].id = 0
        /\ \E i \in PlanId : /\ plan[i] = NoPlan /\ \A k \in 1..(i - 1) : plan[k] # NoPlan
                             /\ plan' = [plan EXCEPT ![i] = ask[p].row]
     \/ /\ ask[p].id # 0
        /\ plan' = IF Kept(ask[p].id) THEN [plan EXCEPT ![ask[p].id] = ask[p].row] ELSE plan
  /\ Answer(p)
  /\ UNCHANGED <<libraryVars, today, waited, order>>

DeletePlan(i) ==
  /\ May("plan") /\ Kept(i)
  /\ plan' = [plan EXCEPT ![i].deleted = TRUE]
  /\ UNCHANGED <<libraryVars, today, waited, order, ask>>

-----------------------------------------------------------------------------
(* Orders *)

\* calculateTransferFee refuses a package that is not offered, less than the user has, the
\* same, or for too few months.
MayQuote(i, n) ==
  /\ Kept(i) /\ plan[i].enabled
  /\ n >= plan[i].minMonths
  /\ order # NoOrder => order.quota <= plan[i].quota /\ order.plan # i

Passed == Between(order.at, today)
Span == Between(order.at, order.until)

\* Mutant: the share of the time that has passed is credited.
CreditMutant == IF order = NoOrder \/ Passed >= Span THEN 0 ELSE order.paid * Passed
\* What the active order is worth still, times its days (1 without an order): what was paid for
\* it, by the share of its days to come.
Credit == IF order = NoOrder \/ Passed >= Span THEN 0 ELSE order.paid * (Span - Passed)
Days == IF order = NoOrder THEN 1 ELSE Span

\* remainPrice, refundPrice and discountPrice, rounded down.
Remain(i, n) == LET left == plan[i].price * n * Days - Credit IN IF left >= 0 THEN left \div Days ELSE 0
Refund(i, n) == LET left == plan[i].price * n * Days - Credit IN IF left >= 0 THEN 0 ELSE (-left) \div Days
Discount == Credit \div Days

\* requestUpgradePayment: what was paid for the new order does not count what was credited.
Buy(i, n) ==
  /\ May("order") /\ MayQuote(i, n)
  /\ order' = [plan |-> i, quota |-> plan[i].quota, paid |-> Remain(i, n), at |-> today,
               until |-> AddCalendarMonths(today, n)]
  /\ UNCHANGED <<libraryVars, plan, today, waited, ask>>

\* Before the first order there is nothing to wait for.
Wait ==
  /\ May("order") /\ order # NoOrder /\ waited < MaxWait
  /\ today' = NextDay(today) /\ waited' = waited + 1
  /\ UNCHANGED <<libraryVars, plan, order, ask>>

PlansStep ==
  \/ \E p \in Procs : AskWrite(p) \/ FindByName(p) \/ WritePlan(p)
  \/ \E i \in PlanId : DeletePlan(i) \/ \E n \in Months : Buy(i, n)
  \/ Wait
=============================================================================
