----------------------------- MODULE MCBooking -----------------------------
(* Small instances of Booking for TLC. *)
EXTENDS Booking, TLC
CONSTANTS c1, g1, k1

MCOwner == k1 :> g1
\* Two shoots that touch, and one that is too short.
MCSpans == {[from |-> 24, to |-> 27], [from |-> 27, to |-> 30], [from |-> 24, to |-> 26]}

MCRows ==
  "serial" :> [bookings |-> 2, photos |-> 1, items |-> 1] @@
  "managed" :> [bookings |-> 1, photos |-> 1, items |-> 1] @@
  "races" :> [bookings |-> 1, photos |-> 1, items |-> 1]

Slots == Permutations(Procs)
=============================================================================
