----------------------------- MODULE Agreement -----------------------------
(***************************************************************************)
(* What bookings promise: an agreement of a customer for some dates is     *)
(* requested, accepted or denied, and paid; while it stands no other one   *)
(* of the same customer meets its dates; when it is over nothing in it     *)
(* changes.  Every operation is one step.                                  *)
(***************************************************************************)
EXTENDS Naturals

CONSTANTS Ids, Users, Dates, Items, None
VARIABLES phase, holder, dates, bill

agreementVars == <<phase, holder, dates, bill>>

Standing(b) == phase[b] \in {"REQUESTED", "ACCEPTED"}
Meet(s, t) == s.from <= t.to /\ t.from <= s.to

\* No other standing agreement of u meets these dates.
FreeFor(u, b, s) ==
  \A c \in Ids \ {b} : Standing(c) /\ holder[c] = u => ~Meet(dates[c], s)

Init ==
  /\ phase = [b \in Ids |-> "UNUSED"]
  /\ holder = [b \in Ids |-> None]
  /\ dates = [b \in Ids |-> None]
  /\ bill = [b \in Ids |-> {}]

Place(b) ==
  /\ phase[b] = "UNUSED"
  /\ \E u \in Users, s \in Dates, i \in Items :
       /\ FreeFor(u, b, s)
       /\ holder' = [holder EXCEPT ![b] = u]
       /\ dates' = [dates EXCEPT ![b] = s]
       /\ bill' = [bill EXCEPT ![b] = {i}]
  /\ phase' = [phase EXCEPT ![b] = "REQUESTED"]

Move(b) ==
  /\ Standing(b)
  /\ \E s \in Dates : FreeFor(holder[b], b, s) /\ dates' = [dates EXCEPT ![b] = s]
  /\ UNCHANGED <<phase, holder, bill>>

Forward(b) ==
  /\ \/ phase[b] = "REQUESTED" /\ phase' = [phase EXCEPT ![b] = "ACCEPTED"]
     \/ phase[b] = "REQUESTED" /\ phase' = [phase EXCEPT ![b] = "DENIED"]
     \/ phase[b] = "ACCEPTED" /\ phase' = [phase EXCEPT ![b] = "SUCCESSED"]
  /\ UNCHANGED <<holder, dates, bill>>

Bill(b) ==
  /\ Standing(b)
  /\ \E S \in SUBSET Items : bill' = [bill EXCEPT ![b] = S]
  /\ UNCHANGED <<phase, holder, dates>>

Next == \E b \in Ids : Place(b) \/ Move(b) \/ Forward(b) \/ Bill(b)
Spec == Init /\ [][Next]_agreementVars
=============================================================================
