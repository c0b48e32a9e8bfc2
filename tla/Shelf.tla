------------------------------- MODULE Shelf -------------------------------
(***************************************************************************)
(* The photoshoot packages as they are offered: photographers and managers *)
(* change their terms, managers and the expiry of an upgrade take them off *)
(* the shelf, customers see them and book them.  PhotoshootPackages.tla    *)
(* has their files and their count, Booking.tla what becomes of a booking. *)
(***************************************************************************)
EXTENDS Library

CONSTANTS
  Terms,     \* titles and prices of packages
  MaxOffers  \* bound: rows of the PhotoshootPackage table

ASSUME ShelfAssumption == MaxOffers \in Nat /\ None \notin Terms

OfferId == 1..MaxOffers
Manager == None
Actors == Users \cup {Manager}

VARIABLES
  offer,    \* the PhotoshootPackage table
  offered,  \* history: under which terms each package was on the shelf at some time
  want,     \* the request of each actor in flight, with what it has read
  deal,     \* the bookings, with the terms copied into the bill and the PhotoshootPackageHistory
  shown     \* the listing shown last

shelfVars == <<offer, offered, want, deal, shown>>

NoOffer == [owner |-> None, terms |-> None, enabled |-> FALSE, deleted |-> FALSE]
NoWant == [pc |-> "idle", offer |-> 0, terms |-> None]

ShelfTypeOK ==
  /\ offer \in [OfferId -> [owner : Users \cup {None}, terms : Terms \cup {None}, enabled : BOOLEAN, deleted : BOOLEAN]]
  /\ offered \in [OfferId -> SUBSET Terms]
  /\ want \in [Actors -> [pc : {"idle", "write", "delete", "book"}, offer : {0} \cup OfferId, terms : Terms \cup {None}]]
  /\ deal \subseteq [customer : Users, offer : OfferId, terms : Terms]
  /\ shown.to \in {"visitor", "of one", "manager"} /\ shown.page \subseteq OfferId \X Terms

ShelfInit ==
  /\ offer = [k \in OfferId |-> NoOffer]
  /\ offered = [k \in OfferId |-> {}]
  /\ want = [w \in Actors |-> NoWant]
  /\ deal = {}
  /\ shown = [to |-> "visitor", page |-> {}]

-----------------------------------------------------------------------------
\* findUniqueOrThrow and updateById: a deleted package is not found.
Standing(k) == offer[k] # NoOffer /\ ~offer[k].deleted

WantAt(w, pc) == want[w].pc = pc
Wants(w, pc, k, terms) == WantAt(w, "idle") /\ want' = [want EXCEPT ![w] = [pc |-> pc, offer |-> k, terms |-> terms]]
Served(w) == want' = [want EXCEPT ![w] = NoWant]

Shelved(new) ==
  /\ offer' = new
  /\ offered' = [k \in OfferId |-> offered[k] \cup IF new[k].enabled /\ ~new[k].deleted THEN {new[k].terms} ELSE {}]

\* create: on the shelf at once.
CreateOffer(u, terms) ==
  /\ \E k \in OfferId :
       /\ offer[k] = NoOffer /\ \A i \in 1..(k - 1) : offer[i] # NoOffer
       /\ Shelved([offer EXCEPT ![k] = [owner |-> u, terms |-> terms, enabled |-> TRUE, deleted |-> FALSE]])
  /\ UNCHANGED <<libraryVars, want, deal, shown>>

Disable(k) ==
  /\ Standing(k) /\ Shelved([offer EXCEPT ![k].enabled = FALSE])
  /\ UNCHANGED <<libraryVars, want, deal, shown>>

Enable(k) ==
  /\ Standing(k) /\ Shelved([offer EXCEPT ![k].enabled = TRUE])
  /\ UNCHANGED <<libraryVars, want, deal, shown>>

\* The cron that ends upgrades takes the user's packages off the shelf; nothing puts them back when
\* the user upgrades again.
ExpireOwner(u) ==
  /\ Shelved([k \in OfferId |-> IF Standing(k) /\ offer[k].owner = u THEN [offer[k] EXCEPT !.enabled = FALSE] ELSE offer[k]])
  /\ UNCHANGED <<libraryVars, want, deal, shown>>

\* replace and update of photographers; the thumbnail is uploaded before the row is written.
AskTerms(u, k, terms) ==
  /\ Standing(k) /\ offer[k].enabled /\ offer[k].owner = u
  /\ Wants(u, "write", k, terms)
  /\ UNCHANGED <<libraryVars, offer, offered, deal, shown>>

\* replace and update of managers: also what is off the shelf.
ManagerAsksTerms(k, terms) ==
  /\ Standing(k)
  /\ Wants(Manager, "write", k, terms)
  /\ UNCHANGED <<libraryVars, offer, offered, deal, shown>>

WriteTerms(w) ==
  /\ WantAt(w, "write")
  /\ LET k == want[w].offer
     IN Shelved(IF Standing(k) THEN [offer EXCEPT ![k].terms = want[w].terms] ELSE offer)
  /\ Served(w)
  /\ UNCHANGED <<libraryVars, deal, shown>>

AskDelete(u, k) ==
  /\ Standing(k) /\ offer[k].owner = u
  /\ Wants(u, "delete", k, None)
  /\ UNCHANGED <<libraryVars, offer, offered, deal, shown>>

ManagerAsksDelete(k) ==
  /\ Standing(k)
  /\ Wants(Manager, "delete", k, None)
  /\ UNCHANGED <<libraryVars, offer, offered, deal, shown>>

DeleteOffer(w) ==
  /\ WantAt(w, "delete")
  /\ LET k == want[w].offer
     IN Shelved(IF Standing(k) THEN [offer EXCEPT ![k].deleted = TRUE] ELSE offer)
  /\ Served(w)
  /\ UNCHANGED <<libraryVars, deal, shown>>

-----------------------------------------------------------------------------
(* Customers *)

\* Mutant: what is off the shelf may be booked by who knows its id.
AskDealMutant(u, k) ==
  /\ Standing(k) /\ offer[k].owner # u
  /\ Wants(u, "book", k, offer[k].terms)
  /\ UNCHANGED <<libraryVars, offer, offered, deal, shown>>

\* requestBooking reads the package, ...
AskDeal(u, k) ==
  /\ Standing(k) /\ offer[k].owner # u /\ offer[k].enabled
  /\ Wants(u, "book", k, offer[k].terms)
  /\ UNCHANGED <<libraryVars, offer, offered, deal, shown>>

\* ... is refused when the customer has a booking at that time, and books what it read.
Strike(u) ==
  /\ WantAt(u, "book")
  /\ \/ deal' = deal \cup {[customer |-> u, offer |-> want[u].offer, terms |-> want[u].terms]}
     \/ UNCHANGED deal
  /\ Served(u)
  /\ UNCHANGED <<libraryVars, offer, offered, shown>>

\* PhotoshootPackageFindAllDto.toWhere, for those of one owner or of all, None being all.
Offers(owner, statuses) ==
  {k \in OfferId : Standing(k) /\ offer[k].enabled \in statuses /\ (owner # None => offer[k].owner = owner)}

Show(to, owner, statuses) ==
  /\ shown' = [to |-> to, page |-> {<<k, offer[k].terms>> : k \in Offers(owner, statuses)}]
  /\ UNCHANGED <<libraryVars, offer, offered, want, deal>>

\* A visitor's listing of all packages is of those on the shelf, whatever is asked for, ...
FindAll == Show("visitor", None, {TRUE})
\* ... that of one photographer shows what is asked for, as those of managers do, and a package
\* is shown by its id.
FindAllWithPhotographerId == \E u \in Users, statuses \in SUBSET BOOLEAN : Show("of one", u, statuses)
ManagerFindsAll == \E owner \in Actors, statuses \in SUBSET BOOLEAN : Show("manager", owner, statuses)

PhotographerAsks(u) ==
  \E k \in OfferId : AskDelete(u, k) \/ \E terms \in Terms : AskTerms(u, k, terms)

ManagerAsks ==
  \E k \in OfferId :
    Enable(k) \/ Disable(k) \/ ManagerAsksDelete(k) \/ \E terms \in Terms : ManagerAsksTerms(k, terms)

\* The first user creates packages: a bound.
ShelfStep ==
  /\ May("shelf")
  /\ \/ \E terms \in Terms : CreateOffer(CHOOSE u \in Users : TRUE, terms)
     \/ \E u \in Users : PhotographerAsks(u) \/ ExpireOwner(u) \/ Strike(u) \/ \E k \in OfferId : AskDeal(u, k)
     \/ \E w \in Actors : WriteTerms(w) \/ DeleteOffer(w)
     \/ ManagerAsks \/ FindAll \/ FindAllWithPhotographerId \/ ManagerFindsAll
=============================================================================
