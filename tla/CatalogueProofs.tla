--------------------------- MODULE CatalogueProofs ---------------------------
(***************************************************************************)
(* What holds of Catalogue for all values of its constants: its types, and *)
(* one invariant for each component, over the component's own variables    *)
(* and the library, whose steps and the camera jobs alone write it.        *)
(***************************************************************************)
EXTENDS Catalogue, Sums, FiniteSetTheorems, SequenceTheorems, TLAPS

-----------------------------------------------------------------------------
(* The shelf *)

OfferRow == [owner : Users \cup {None}, terms : Terms \cup {None}, enabled : BOOLEAN, deleted : BOOLEAN]
WantRow == [pc : {"idle", "write", "delete", "book"}, offer : {0} \cup OfferId, terms : Terms \cup {None}]

OfferOK(o) == o = NoOffer \/ (o.owner \in Users /\ o.terms \in Terms)

\* What is on the shelf is offered under the terms it has; ...
OnShelf == \A k \in OfferId :
  /\ OfferOK(offer[k])
  /\ offer[k].enabled /\ ~offer[k].deleted => offer[k].terms \in offered[k]
\* ... who is about to write or to book has read a package of somebody, under terms it was offered.
WantOK(w, x) ==
  /\ x.pc # "idle" => x.offer \in OfferId /\ offer[x.offer] # NoOffer
  /\ x.pc = "write" => x.terms \in Terms
  /\ x.pc = "book" => x.terms \in offered[x.offer] /\ offer[x.offer].owner # w
DealsOK == \A d \in deal : offer[d.offer] # NoOffer

WantsOK == \A w \in Actors : WantOK(w, want[w])

ShelfInv == ShelfTypeOK /\ OnShelf /\ DealsOK /\ BookedAsOffered /\ WantsOK

LEMMA SomeUser == (CHOOSE u \in Users : TRUE) \in Users /\ None \notin Users
  BY LibraryAssumption

\* Packages keep their owners, and terms that were offered are not forgotten.
LEMMA ShelfChange ==
  ASSUME ShelfInv, NEW new \in [OfferId -> OfferRow], Shelved(new),
         \A k \in OfferId : OfferOK(new[k]) /\ (offer[k] # NoOffer => new[k] # NoOffer /\ new[k].owner = offer[k].owner),
         want' \in [Actors -> WantRow], \A w \in Actors : want'[w] \in {want[w], NoWant},
         deal' = deal, shown' = shown
  PROVE  ShelfInv'
<1>1. offer' = new /\ DOMAIN offered' = OfferId
  BY DEF Shelved
<1>2. \A k \in OfferId : offered'[k] = offered[k] \cup IF new[k].enabled /\ ~new[k].deleted THEN {new[k].terms} ELSE {}
  BY DEF Shelved
<1>3. \A k \in OfferId : new[k].enabled => new[k].terms \in Terms
  BY DEF OfferOK, NoOffer
<1>4. \A k \in OfferId : offered'[k] \in SUBSET Terms /\ offered[k] \subseteq offered'[k]
  <2> SUFFICES ASSUME NEW k \in OfferId PROVE offered'[k] \in SUBSET Terms /\ offered[k] \subseteq offered'[k]
    OBVIOUS
  <2>1. PICK S : S = IF new[k].enabled /\ ~new[k].deleted THEN {new[k].terms} ELSE {}
    OBVIOUS
  <2>2. S \subseteq Terms
    BY <1>3, <2>1
  <2>3. offered[k] \subseteq Terms
    BY DEF ShelfInv, ShelfTypeOK
  <2>4. offered'[k] = offered[k] \cup S
    BY <1>2, <2>1
  <2> QED
    BY <2>2, <2>3, <2>4
<1>5. offered' \in [OfferId -> SUBSET Terms]
  BY <1>1, <1>4 DEF Shelved
<1>6. ShelfTypeOK'
  BY <1>1, <1>5 DEF ShelfInv, ShelfTypeOK, OfferRow, WantRow
<1>7. OnShelf'
  BY <1>1, <1>2 DEF OnShelf
<1>8. DealsOK'
  BY <1>1 DEF ShelfInv, ShelfTypeOK, DealsOK
<1>9. BookedAsOffered'
  <2>1. ASSUME NEW d \in deal PROVE d.terms \in offered'[d.offer] /\ d.customer # offer'[d.offer].owner
    <3>1. d.offer \in OfferId /\ offer[d.offer] # NoOffer
      BY DEF ShelfInv, ShelfTypeOK, DealsOK
    <3> QED
      BY <1>1, <1>4, <3>1 DEF ShelfInv, BookedAsOffered
  <2>2. ASSUME shown.to = "visitor", NEW x \in shown.page PROVE x[2] \in offered'[x[1]]
    <3>1. x[1] \in OfferId
      BY DEF ShelfInv, ShelfTypeOK
    <3> QED
      BY <1>4, <2>2, <3>1 DEF ShelfInv, BookedAsOffered
  <2> QED
    BY <2>1, <2>2 DEF BookedAsOffered
<1>10. WantsOK'
  <2> SUFFICES ASSUME NEW w \in Actors, want'[w].pc # "idle" PROVE WantOK(w, want[w])'
    BY DEF WantsOK, WantOK
  <2>1. want'[w] = want[w]
    BY DEF NoWant
  <2>2. WantOK(w, want[w]) /\ want[w].pc # "idle"
    BY <2>1 DEF ShelfInv, WantsOK
  <2>3. want[w].offer \in OfferId /\ offer[want[w].offer] # NoOffer
    BY <2>2 DEF WantOK
  <2> QED
    BY <1>1, <1>4, <2>1, <2>2, <2>3 DEF WantOK
<1> QED
  BY <1>6, <1>7, <1>8, <1>9, <1>10 DEF ShelfInv

\* A request begins or ends.
LEMMA ShelfAsks ==
  ASSUME ShelfInv, NEW w \in Actors, NEW x \in WantRow, WantOK(w, x),
         want' = [want EXCEPT ![w] = x], UNCHANGED <<offer, offered, deal, shown>>
  PROVE  ShelfInv'
<1>1. want' \in [Actors -> WantRow] /\ \A v \in Actors : want'[v] = IF v = w THEN x ELSE want[v]
  BY DEF ShelfInv, ShelfTypeOK, WantRow
<1>2. ShelfTypeOK' /\ OnShelf' /\ DealsOK' /\ BookedAsOffered'
  BY <1>1 DEF ShelfInv, ShelfTypeOK, OnShelf, DealsOK, BookedAsOffered, WantRow
<1>3. WantsOK'
  BY <1>1 DEF ShelfInv, WantsOK, WantOK
<1> QED
  BY <1>2, <1>3 DEF ShelfInv
\* An actor has one request in flight.
LEMMA ShelfWants ==
  ASSUME ShelfInv, NEW w \in Actors, NEW k \in OfferId, NEW pc \in {"write", "delete", "book"}, NEW terms \in Terms \cup {None},
         Wants(w, pc, k, terms), UNCHANGED <<offer, offered, deal, shown>>, Standing(k),
         pc = "write" => terms \in Terms, pc = "book" => terms \in offered[k] /\ offer[k].owner # w
  PROVE  ShelfInv'
<1>1. PICK x : x = [pc |-> pc, offer |-> k, terms |-> terms]
  OBVIOUS
<1>2. x \in WantRow /\ x.pc = pc /\ x.offer = k /\ x.terms = terms
  BY <1>1 DEF WantRow
<1>3. want' = [want EXCEPT ![w] = x]
  BY <1>1 DEF Wants
<1>4. WantOK(w, x)
  BY <1>2 DEF WantOK, Standing
<1> QED
  BY <1>2, <1>3, <1>4, ShelfAsks

LEMMA ShelfServed ==
  ASSUME ShelfInv, NEW w \in Actors, Served(w)
  PROVE  /\ want' \in [Actors -> WantRow] /\ \A v \in Actors : want'[v] \in {want[v], NoWant}
BY DEF ShelfInv, ShelfTypeOK, WantRow, Served, NoWant

LEMMA ShelfTyped ==
  ASSUME ShelfInv
  PROVE  /\ offer \in [OfferId -> OfferRow] /\ want \in [Actors -> WantRow]
         /\ \A k \in OfferId : OfferOK(offer[k])
BY DEF ShelfInv, ShelfTypeOK, OnShelf, OfferRow, WantRow

\* A new package, or one that changes and keeps its owner.
LEMMA OneOffer ==
  ASSUME ShelfInv, NEW k \in OfferId, NEW o \in OfferRow, OfferOK(o), o # NoOffer,
         offer[k] # NoOffer => o.owner = offer[k].owner, Shelved([offer EXCEPT ![k] = o]),
         want' \in [Actors -> WantRow], \A w \in Actors : want'[w] \in {want[w], NoWant}, deal' = deal, shown' = shown
  PROVE  ShelfInv'
<1>1. PICK new : new = [offer EXCEPT ![k] = o]
  OBVIOUS
<1>2. new \in [OfferId -> OfferRow] /\ \A l \in OfferId : new[l] = IF l = k THEN o ELSE offer[l]
  BY <1>1, ShelfTyped
<1>3. \A l \in OfferId : OfferOK(new[l]) /\ (offer[l] # NoOffer => new[l] # NoOffer /\ new[l].owner = offer[l].owner)
  BY <1>2, ShelfTyped
<1>4. Shelved(new)
  BY <1>1
<1> QED
  BY <1>2, <1>3, <1>4, ShelfChange

LEMMA CreateOfferOK ==
  ASSUME ShelfInv, NEW u \in Users, NEW terms \in Terms, CreateOffer(u, terms)
  PROVE  ShelfInv'
<1>1. PICK k \in OfferId : /\ offer[k] = NoOffer
                           /\ Shelved([offer EXCEPT ![k] = [owner |-> u, terms |-> terms, enabled |-> TRUE, deleted |-> FALSE]])
  BY DEF CreateOffer
<1>2. PICK o : o = [owner |-> u, terms |-> terms, enabled |-> TRUE, deleted |-> FALSE]
  OBVIOUS
<1>3. o \in OfferRow /\ OfferOK(o) /\ o # NoOffer
  BY <1>2, LibraryAssumption DEF OfferRow, OfferOK, NoOffer
<1>4. Shelved([offer EXCEPT ![k] = o])
  BY <1>1, <1>2
<1>5. want' = want /\ deal' = deal /\ shown' = shown
  BY DEF CreateOffer
<1> QED
  BY <1>1, <1>3, <1>4, <1>5, OneOffer, ShelfTyped

LEMMA SwitchOffer ==
  ASSUME ShelfInv, NEW k \in OfferId, Enable(k) \/ Disable(k)
  PROVE  ShelfInv'
<1>1. PICK b \in BOOLEAN : Shelved([offer EXCEPT ![k].enabled = b])
  BY DEF Enable, Disable
<1>2. Standing(k) /\ want' = want /\ deal' = deal /\ shown' = shown
  BY DEF Enable, Disable
<1>3. PICK o : o = [offer[k] EXCEPT !.enabled = b]
  OBVIOUS
<1>4. o \in OfferRow /\ OfferOK(o) /\ o # NoOffer /\ o.owner = offer[k].owner
  BY <1>2, <1>3, ShelfTyped, LibraryAssumption DEF Standing, OfferRow, OfferOK, NoOffer
<1>5. Shelved([offer EXCEPT ![k] = o])
  BY <1>1, <1>3
<1> QED
  BY <1>2, <1>4, <1>5, OneOffer, ShelfTyped

LEMMA ExpireOwnerOK ==
  ASSUME ShelfInv, NEW u \in Users, ExpireOwner(u)
  PROVE  ShelfInv'
<1>1. PICK new : new = [k \in OfferId |-> IF Standing(k) /\ offer[k].owner = u THEN [offer[k] EXCEPT !.enabled = FALSE]
                                          ELSE offer[k]]
  OBVIOUS
<1>2. Shelved(new) /\ want' = want /\ deal' = deal /\ shown' = shown
  BY <1>1 DEF ExpireOwner
<1>3. ASSUME NEW k \in OfferId
      PROVE  new[k] \in OfferRow /\ OfferOK(new[k]) /\ (offer[k] # NoOffer => new[k] # NoOffer /\ new[k].owner = offer[k].owner)
  <2>1. offer[k] \in OfferRow /\ OfferOK(offer[k])
    BY ShelfTyped
  <2>2. CASE Standing(k) /\ offer[k].owner = u
    <3>1. new[k] = [offer[k] EXCEPT !.enabled = FALSE]
      BY <1>1, <2>2
    <3>2. offer[k] \in OfferRow /\ offer[k].owner \in Users /\ offer[k].terms \in Terms
      BY <2>1, <2>2 DEF Standing, OfferOK
    <3>3. PICK o : o = [offer[k] EXCEPT !.enabled = FALSE]
      OBVIOUS
    <3>4. o \in OfferRow /\ OfferOK(o) /\ o # NoOffer /\ o.owner = offer[k].owner
      BY <3>2, <3>3, LibraryAssumption DEF OfferRow, OfferOK, NoOffer
    <3>5. new[k] = o
      BY <3>1, <3>3
    <3> QED
      BY <3>4, <3>5
  <2>3. CASE ~(Standing(k) /\ offer[k].owner = u)
    <3>1. new[k] = offer[k]
      BY <1>1, <2>3
    <3> QED
      BY <2>1, <3>1
  <2> QED
    BY <2>2, <2>3
<1>4. new \in [OfferId -> OfferRow]
  BY <1>1, <1>3
<1> QED
  BY <1>2, <1>3, <1>4, ShelfTyped, ShelfChange

\* A write by id of what is still there; a package that is gone is not found.
LEMMA WriteTermsOK ==
  ASSUME ShelfInv, NEW w \in Actors, WriteTerms(w)
  PROVE  ShelfInv'
<1>1. PICK k \in OfferId, t \in Terms : k = want[w].offer /\ t = want[w].terms
  BY DEF WriteTerms, WantAt, ShelfInv, WantsOK, WantOK
<1>2. Served(w) /\ deal' = deal /\ shown' = shown
  BY DEF WriteTerms
<1>3. CASE Standing(k)
  <2>1. Shelved([offer EXCEPT ![k].terms = t])
    BY <1>1, <1>3 DEF WriteTerms
  <2>2. PICK o : o = [offer[k] EXCEPT !.terms = t]
    OBVIOUS
  <2>3. o \in OfferRow /\ OfferOK(o) /\ o # NoOffer /\ o.owner = offer[k].owner
    BY <1>3, <2>2, ShelfTyped, LibraryAssumption DEF Standing, OfferRow, OfferOK, NoOffer
  <2>4. Shelved([offer EXCEPT ![k] = o])
    BY <2>1, <2>2
  <2> QED
    BY <1>2, <2>3, <2>4, OneOffer, ShelfServed
<1>4. CASE ~Standing(k)
  <2>1. Shelved(offer)
    BY <1>1, <1>4 DEF WriteTerms
  <2> QED
    BY <1>2, <2>1, ShelfTyped, ShelfServed, ShelfChange
<1> QED
  BY <1>3, <1>4

LEMMA DeleteOfferOK ==
  ASSUME ShelfInv, NEW w \in Actors, DeleteOffer(w)
  PROVE  ShelfInv'
<1>1. PICK k \in OfferId : k = want[w].offer
  BY DEF DeleteOffer, WantAt, ShelfInv, WantsOK, WantOK
<1>2. Served(w) /\ deal' = deal /\ shown' = shown
  BY DEF DeleteOffer
<1>3. CASE Standing(k)
  <2>1. Shelved([offer EXCEPT ![k].deleted = TRUE])
    BY <1>1, <1>3 DEF DeleteOffer
  <2>2. PICK o : o = [offer[k] EXCEPT !.deleted = TRUE]
    OBVIOUS
  <2>3. o \in OfferRow /\ OfferOK(o) /\ o # NoOffer /\ o.owner = offer[k].owner
    BY <1>3, <2>2, ShelfTyped, LibraryAssumption DEF Standing, OfferRow, OfferOK, NoOffer
  <2>4. Shelved([offer EXCEPT ![k] = o])
    BY <2>1, <2>2
  <2> QED
    BY <1>2, <2>3, <2>4, OneOffer, ShelfServed
<1>4. CASE ~Standing(k)
  <2>1. Shelved(offer)
    BY <1>1, <1>4 DEF DeleteOffer
  <2> QED
    BY <1>2, <2>1, ShelfTyped, ShelfServed, ShelfChange
<1> QED
  BY <1>3, <1>4
LEMMA StrikeOK ==
  ASSUME ShelfInv, NEW u \in Users, Strike(u)
  PROVE  ShelfInv'
<1>1. u \in Actors /\ WantOK(u, want[u]) /\ want[u].pc = "book"
  BY DEF Strike, WantAt, Actors, ShelfInv, WantsOK
<1>2. PICK k \in OfferId, t \in Terms : /\ k = want[u].offer /\ t = want[u].terms /\ offer[k] # NoOffer
                                        /\ t \in offered[k] /\ offer[k].owner # u
  BY <1>1 DEF WantOK, ShelfInv, ShelfTypeOK
<1>3. PICK d : d = [customer |-> u, offer |-> k, terms |-> t]
  OBVIOUS
<1>4. deal' \in {deal, deal \cup {d}} /\ UNCHANGED <<offer, offered, shown>> /\ Served(u)
  BY <1>2, <1>3 DEF Strike
<1>5. PICK D : D \in {deal, deal \cup {d}} /\ D = deal'
  BY <1>4
<1>6. d.customer = u /\ d.offer = k /\ d.terms = t /\ d \in [customer : Users, offer : OfferId, terms : Terms]
  BY <1>3
<1>7. ShelfInv => D \subseteq [customer : Users, offer : OfferId, terms : Terms]
  BY <1>5, <1>6 DEF ShelfInv, ShelfTypeOK
<1>8. \A e \in D : offer[e.offer] # NoOffer /\ e.terms \in offered[e.offer] /\ e.customer # offer[e.offer].owner
  BY <1>2, <1>5, <1>6 DEF ShelfInv, DealsOK, BookedAsOffered
<1>9. ShelfTypeOK'
  BY <1>1, <1>4, <1>5, <1>7, ShelfServed DEF ShelfInv, ShelfTypeOK, WantRow
<1>10. DealsOK' /\ BookedAsOffered'
  BY <1>4, <1>5, <1>8 DEF ShelfInv, DealsOK, BookedAsOffered
<1>11. WantsOK'
  <2>1. \A v \in Actors : want'[v] \in {want[v], NoWant}
    BY <1>1, <1>4, ShelfServed
  <2> QED
    BY <1>4, <2>1 DEF ShelfInv, WantsOK, WantOK, NoWant
<1> QED
  BY <1>4, <1>9, <1>10, <1>11 DEF ShelfInv, OnShelf

\* What a visitor is shown among all is on the shelf now.
LEMMA ShowOK ==
  ASSUME ShelfInv, NEW to \in {"visitor", "of one", "manager"}, NEW owner, NEW statuses,
         Show(to, owner, statuses), to = "visitor" => statuses = {TRUE}
  PROVE  ShelfInv'
<1>1. PICK page : page = {<<k, offer[k].terms>> : k \in Offers(owner, statuses)}
  OBVIOUS
<1>2. shown' = [to |-> to, page |-> page] /\ UNCHANGED <<offer, offered, want, deal>>
  BY <1>1 DEF Show
<1>3. \A k \in Offers(owner, statuses) : k \in OfferId /\ Standing(k) /\ offer[k].enabled \in statuses
  BY DEF Offers
<1>4. ASSUME NEW x \in page
      PROVE  x \in OfferId \X Terms /\ (to = "visitor" => x[2] \in offered[x[1]])
  <2>1. PICK k \in OfferId : x = <<k, offer[k].terms>> /\ Standing(k) /\ offer[k].enabled \in statuses
    BY <1>1, <1>3, <1>4
  <2>2. offer[k].terms \in Terms /\ (offer[k].enabled => offer[k].terms \in offered[k])
    BY <2>1 DEF Standing, ShelfInv, OnShelf, OfferOK
  <2>3. PICK t : t = offer[k].terms
    OBVIOUS
  <2>4. x[1] = k /\ x[2] = t
    BY <2>1, <2>3
  <2>5. x \in OfferId \X Terms
    BY <2>1, <2>2
  <2>6. to = "visitor" => offer[k].enabled
    <3>1. to = "visitor" => offer[k].enabled = TRUE
      BY <2>1
    <3> QED
      BY <3>1, Zenon
  <2>7. to = "visitor" => t \in offered[k]
    BY <2>2, <2>3, <2>6
  <2>8. to = "visitor" => x[2] \in offered[x[1]]
    BY Zenon, <2>4, <2>7
  <2> QED
    BY Zenon, <2>5, <2>8
<1>5. ShelfTypeOK'
  BY <1>2, <1>4 DEF ShelfInv, ShelfTypeOK
<1>6. BookedAsOffered'
  BY <1>2, <1>4 DEF ShelfInv, BookedAsOffered
<1> QED
  BY <1>2, <1>5, <1>6 DEF ShelfInv, OnShelf, DealsOK, WantsOK, WantOK

LEMMA ShelfStepOK ==
  ASSUME ShelfInv, ShelfStep
  PROVE  ShelfInv'
<1>1. ASSUME NEW terms \in Terms, CreateOffer(CHOOSE u \in Users : TRUE, terms) PROVE ShelfInv'
  BY <1>1, SomeUser, CreateOfferOK
<1>2. ASSUME NEW u \in Users, NEW k \in OfferId, AskDelete(u, k) PROVE ShelfInv'
  <2>1. u \in Actors /\ UNCHANGED <<offer, offered, deal, shown>>
    BY <1>2 DEF Actors, AskDelete
  <2> QED
    BY <1>2, <2>1, ShelfWants DEF AskDelete
<1>3. ASSUME NEW u \in Users, NEW k \in OfferId, NEW terms \in Terms, AskTerms(u, k, terms) PROVE ShelfInv'
  <2>1. u \in Actors /\ UNCHANGED <<offer, offered, deal, shown>>
    BY <1>3 DEF Actors, AskTerms
  <2> QED
    BY <1>3, <2>1, ShelfWants DEF AskTerms
<1>4. ASSUME NEW u \in Users, NEW k \in OfferId, AskDeal(u, k) PROVE ShelfInv'
  <2>1. u \in Actors /\ UNCHANGED <<offer, offered, deal, shown>>
    BY <1>4 DEF Actors, AskDeal
  <2>2. offer[k].terms \in Terms \cup {None} /\ offer[k].terms \in offered[k] /\ offer[k].owner # u
    BY <1>4 DEF AskDeal, Standing, ShelfInv, OnShelf, OfferOK
  <2> QED
    BY <1>4, <2>1, <2>2, ShelfWants DEF AskDeal
<1>5. ASSUME NEW k \in OfferId, ManagerAsksDelete(k) PROVE ShelfInv'
  <2>1. Manager \in Actors /\ UNCHANGED <<offer, offered, deal, shown>>
    BY <1>5 DEF Actors, ManagerAsksDelete
  <2> QED
    BY <1>5, <2>1, ShelfWants DEF ManagerAsksDelete
<1>6. ASSUME NEW k \in OfferId, NEW terms \in Terms, ManagerAsksTerms(k, terms) PROVE ShelfInv'
  <2>1. Manager \in Actors /\ UNCHANGED <<offer, offered, deal, shown>>
    BY <1>6 DEF Actors, ManagerAsksTerms
  <2> QED
    BY <1>6, <2>1, ShelfWants DEF ManagerAsksTerms
<1>7. ASSUME FindAll \/ FindAllWithPhotographerId \/ ManagerFindsAll PROVE ShelfInv'
  BY <1>7, ShowOK DEF FindAll, FindAllWithPhotographerId, ManagerFindsAll
<1>8. ASSUME NEW u \in Users, PhotographerAsks(u) PROVE ShelfInv'
  BY <1>2, <1>3, <1>8 DEF PhotographerAsks
<1>9. CASE ManagerAsks
  BY <1>5, <1>6, <1>9, SwitchOffer DEF ManagerAsks
<1> QED
  BY <1>1, <1>4, <1>7, <1>8, <1>9, ExpireOwnerOK, StrikeOK, WriteTermsOK, DeleteOfferOK DEF ShelfStep

LEMMA ShelfStill == ASSUME ShelfInv, UNCHANGED shelfVars PROVE ShelfInv'
BY DEF ShelfInv, shelfVars, ShelfTypeOK, OnShelf, DealsOK, BookedAsOffered, WantsOK, WantOK

LEMMA ShelfBegins == ShelfInit => ShelfInv
<1> SUFFICES ASSUME ShelfInit PROVE ShelfInv
  OBVIOUS
<1>1. ShelfTypeOK
  BY DEF ShelfInit, ShelfTypeOK, NoOffer, NoWant
<1> QED
  BY <1>1 DEF ShelfInit, ShelfInv, OnShelf, OfferOK, NoOffer, DealsOK, BookedAsOffered, WantsOK, WantOK, NoWant

-----------------------------------------------------------------------------
(* Listings *)

FilterRow ==
  [type : {None, "RAW", "BOOKING"}, visibility : {None, "PUBLIC", "PRIVATE"},
   statuses : {None} \cup SUBSET {"PENDING", "PARSED", "DUPLICATED", "BAN"}, selling : {None} \cup BOOLEAN,
   owner : {None} \cup Users, gps : BOOLEAN, near : {None} \cup SUBSET Located, ids : {None} \cup SUBSET Located]

ListingRow ==
  [pc : {"idle", "ids", "count", "find"}, by : {"none", "visitor", "next", "me", "manager"},
   user : Users \cup {None}, filter : FilterRow, count : 0..MaxPhotos, page : SUBSET PhotoId]

\* The filter restricts the listing to what its user may open, whatever was asked for.
Restricted(by, user, filter) ==
  /\ by \in {"visitor", "next"} => filter.visibility = "PUBLIC" /\ filter.statuses = {"PENDING", "PARSED"}
  /\ by = "me" => user \in Users /\ filter.owner = user
  /\ by # "none"

ListingInv ==
  /\ listing \in ListingRow
  /\ listing.pc # "idle" => Restricted(listing.by, listing.user, listing.filter) /\ listing.page = {}
  /\ listing.pc = "ids" => listing.filter.near # None

LEMMA FoundFew == \A filter : Found(filter) \in SUBSET PhotoId /\ Cardinality(Found(filter)) \in 0..MaxPhotos
<1> SUFFICES ASSUME NEW filter PROVE Found(filter) \in SUBSET PhotoId /\ Cardinality(Found(filter)) \in 0..MaxPhotos
  OBVIOUS
<1>1. MaxPhotos \in Nat
  BY LibraryAssumption
<1>2. IsFiniteSet(PhotoId) /\ Cardinality(PhotoId) = MaxPhotos
  BY <1>1, FS_Interval DEF PhotoId
<1>3. Found(filter) \in SUBSET PhotoId
  BY DEF Found
<1>4. IsFiniteSet(Found(filter)) /\ Cardinality(Found(filter)) <= Cardinality(PhotoId)
  BY <1>2, <1>3, FS_Subset
<1>5. Cardinality(Found(filter)) \in Nat
  BY <1>4, FS_CardinalityType
<1> QED
  BY <1>1, <1>2, <1>3, <1>4, <1>5

LEMMA EmptyFilter == NoFilter \in FilterRow
BY DEF NoFilter, FilterRow

LEMMA FiltersAre == \A filter \in Filters : filter \in FilterRow
<1> SUFFICES ASSUME NEW filter \in Filters PROVE filter \in FilterRow
  OBVIOUS
<1>1. CASE filter = NoFilter
  BY <1>1, EmptyFilter
<1>2. CASE filter = [NoFilter EXCEPT !.type = "BOOKING"] \/ filter = [NoFilter EXCEPT !.visibility = "PRIVATE"]
  BY <1>2 DEF NoFilter, FilterRow
<1>3. ASSUME NEW s \in {"BAN", "DUPLICATED"}, filter = [NoFilter EXCEPT !.statuses = {s}]
      PROVE  filter \in FilterRow
  <2>1. PICK t \in SUBSET {"PENDING", "PARSED", "DUPLICATED", "BAN"} : t = {s}
    OBVIOUS
  <2>2. filter = [NoFilter EXCEPT !.statuses = t]
    BY <1>3, <2>1
  <2> QED
    BY <2>2 DEF NoFilter, FilterRow
<1>4. CASE \E b \in BOOLEAN : filter = [NoFilter EXCEPT !.selling = b]
  BY <1>4 DEF NoFilter, FilterRow
<1>5. CASE \E near \in {None} \cup SUBSET Located : filter = [NoFilter EXCEPT !.gps = TRUE, !.near = near]
  BY <1>5 DEF NoFilter, FilterRow
<1> QED
  BY <1>1, <1>2, <1>3, <1>4, <1>5 DEF Filters

LEMMA BeginOK ==
  ASSUME ListingInv, NEW by \in {"visitor", "next", "me", "manager"}, NEW user \in Users \cup {None},
         NEW filter \in FilterRow, Restricted(by, user, filter), Begin(by, user, filter)
  PROVE  ListingInv'
<1>1. PICK pc \in {"ids", "count"} : pc = IF Asked(filter.near) THEN "ids" ELSE "count"
  OBVIOUS
<1>2. listing' = [NoListing EXCEPT !.pc = pc, !.by = by, !.user = user, !.filter = filter]
  BY <1>1 DEF Begin
<1>3. PICK x : x = [NoListing EXCEPT !.pc = pc, !.by = by, !.user = user, !.filter = filter]
  OBVIOUS
<1>4. x \in ListingRow
  <2>1. x = [pc |-> pc, by |-> by, user |-> user, filter |-> filter, count |-> 0, page |-> {}]
    BY <1>3 DEF NoListing
  <2>2. 0 \in 0..MaxPhotos
    BY LibraryAssumption
  <2> QED
    BY <2>1, <2>2 DEF ListingRow
<1>5. x.pc # "idle" => Restricted(x.by, x.user, x.filter) /\ x.page = {}
  BY <1>3 DEF NoListing
<1>6. x.pc = "ids" => x.filter.near # None
  BY <1>1, <1>3 DEF NoListing, Asked
<1> QED
  BY <1>2, <1>3, <1>4, <1>5, <1>6 DEF ListingInv

LEMMA ListOK ==
  ASSUME ListingInv, NEW filter \in FilterRow, List(filter)
  PROVE  ListingInv'
<1>1. ASSUME NEW u \in Users \cup {None}, Begin("visitor", u, Public(filter)) PROVE ListingInv'
  <2>1. PICK g : g = Public(filter)
    OBVIOUS
  <2>2. g \in FilterRow /\ Restricted("visitor", u, g)
    BY <2>1 DEF Public, FilterRow, Restricted
  <2> QED
    BY <1>1, <2>1, <2>2, BeginOK
<1>2. ASSUME NEW u \in Users \cup {None}, Begin("next", u, NextPublic) PROVE ListingInv'
  <2>1. PICK g : g = NextPublic
    OBVIOUS
  <2>2. g \in FilterRow /\ Restricted("next", u, g)
    BY <2>1, EmptyFilter DEF NextPublic, FilterRow, NoFilter, Restricted
  <2> QED
    BY <1>2, <2>1, <2>2, BeginOK
<1>3. ASSUME NEW u \in Users, Begin("me", u, Mine(filter, u)) PROVE ListingInv'
  <2>1. PICK g : g = Mine(filter, u)
    OBVIOUS
  <2>2. g \in FilterRow /\ Restricted("me", u, g)
    BY <2>1 DEF Mine, FilterRow, Restricted
  <2> QED
    BY <1>3, <2>1, <2>2, BeginOK
<1>4. ASSUME Begin("manager", None, [filter EXCEPT !.near = None]) PROVE ListingInv'
  <2>1. PICK g : g = [filter EXCEPT !.near = None]
    OBVIOUS
  <2>2. g \in FilterRow /\ Restricted("manager", None, g)
    BY <2>1 DEF FilterRow, Restricted
  <2> QED
    BY <1>4, <2>1, <2>2, BeginOK
<1> QED
  BY <1>1, <1>2, <1>3, <1>4 DEF List


LEMMA FindIdsOK ==
  ASSUME ListingInv, FindIds
  PROVE  ListingInv'
<1>1. PICK x \in ListingRow : x = listing
  BY DEF ListingInv
<1>2. x.pc = "ids" /\ Restricted(x.by, x.user, x.filter) /\ x.page = {} /\ x.filter.near # None
  BY <1>1 DEF ListingInv, FindIds
<1>3. x.filter \in FilterRow
  BY DEF ListingRow
<1>4. x.filter.near \in SUBSET Located /\ x.filter.ids \in {None} \cup SUBSET Located
  BY <1>2, <1>3 DEF FilterRow
<1>5. PICK near : near = {f \in x.filter.near : Has(f)}
  OBVIOUS
<1>6. PICK ids \in {None} \cup SUBSET Located : ids = IF near # {} THEN near ELSE x.filter.ids
  BY <1>4, <1>5
<1>7. PICK g : g = [x.filter EXCEPT !.ids = ids]
  OBVIOUS
<1>8. g \in FilterRow /\ g.visibility = x.filter.visibility /\ g.statuses = x.filter.statuses
        /\ g.owner = x.filter.owner
  BY <1>3, <1>6, <1>7 DEF FilterRow
<1>9. Restricted(x.by, x.user, g)
  BY <1>2, <1>8 DEF Restricted
<1>10. PICK y : y = [x EXCEPT !.pc = "count", !.filter = g]
  OBVIOUS
<1>11. y \in ListingRow /\ y.pc = "count" /\ y.by = x.by /\ y.user = x.user /\ y.filter = g /\ y.page = x.page
  BY <1>8, <1>10 DEF ListingRow
<1>12. listing' = [x EXCEPT !.pc = "count", !.filter.ids = ids]
  BY <1>1, <1>5, <1>6 DEF FindIds
<1>13. listing' = y
  BY <1>7, <1>10, <1>12
<1> QED
  BY <1>2, <1>9, <1>11, <1>13 DEF ListingInv

LEMMA CountOK ==
  ASSUME ListingInv, Count
  PROVE  ListingInv'
<1>1. PICK x \in ListingRow : x = listing
  BY DEF ListingInv
<1>2. x.pc = "count" /\ Restricted(x.by, x.user, x.filter) /\ x.page = {}
  BY <1>1 DEF ListingInv, Count
<1>3. PICK n \in 0..MaxPhotos : n = Cardinality(Found(x.filter))
  BY FoundFew
<1>4. PICK y : y = [x EXCEPT !.pc = "find", !.count = n]
  OBVIOUS
<1>5. y \in ListingRow /\ y.pc = "find" /\ y.by = x.by /\ y.user = x.user /\ y.filter = x.filter /\ y.page = x.page
  BY <1>3, <1>4 DEF ListingRow
<1>6. listing' = y
  BY <1>1, <1>3, <1>4 DEF Count
<1> QED
  BY <1>2, <1>5, <1>6 DEF ListingInv

LEMMA FindManyOK ==
  ASSUME ListingInv, FindMany
  PROVE  ListingInv' /\ listing'.page \subseteq Found(listing.filter)
<1>1. PICK x \in ListingRow : x = listing
  BY DEF ListingInv
<1>2. PICK found \in SUBSET PhotoId : found = Found(x.filter)
  BY FoundFew
<1>3. PICK page \in IF x.by = "next" THEN {{}} \cup {{f} : f \in found} ELSE {found} :
        listing' = [NoListing EXCEPT !.user = x.user, !.page = page]
  BY <1>1, <1>2 DEF FindMany
<1>4. page \subseteq found
  BY <1>3
<1>5. x.user \in Users \cup {None}
  BY DEF ListingRow
<1>6. MaxPhotos \in Nat
  BY LibraryAssumption
<1>7. PICK y : y = [NoListing EXCEPT !.user = x.user, !.page = page]
  OBVIOUS
<1>8. y \in ListingRow /\ y.pc = "idle" /\ y.page = page
  <2>1. y = [pc |-> "idle", by |-> "none", user |-> x.user, filter |-> NoFilter, count |-> 0, page |-> page]
    BY <1>7 DEF NoListing
  <2>2. page \in SUBSET PhotoId /\ 0 \in 0..MaxPhotos
    BY <1>2, <1>4, <1>6
  <2> QED
    BY <1>5, <2>1, <2>2, EmptyFilter DEF ListingRow
<1> QED
  BY <1>1, <1>2, <1>3, <1>4, <1>7, <1>8 DEF ListingInv

LEMMA ListingStepOK ==
  ASSUME ListingInv, ListingStep
  PROVE  ListingInv'
<1>1. CASE FindIds
  BY <1>1, FindIdsOK
<1>2. CASE Count
  BY <1>2, CountOK
<1>3. CASE FindMany
  BY <1>3, FindManyOK
<1>4. ASSUME NEW filter \in Filters, List(filter) PROVE ListingInv'
  BY <1>4, FiltersAre, ListOK
<1> QED
  BY <1>1, <1>2, <1>3, <1>4 DEF ListingStep

LEMMA ListingStill ==
  ASSUME ListingInv, UNCHANGED listing
  PROVE  ListingInv'
BY DEF ListingInv

LEMMA ListingBegins == ListingsInit => ListingInv
<1> SUFFICES ASSUME ListingsInit PROVE ListingInv
  OBVIOUS
<1>1. MaxPhotos \in Nat
  BY LibraryAssumption
<1>2. listing \in ListingRow /\ listing.pc = "idle"
  BY <1>1, EmptyFilter DEF ListingsInit, NoListing, ListingRow
<1> QED
  BY <1>2 DEF ListingInv

\* What is found under a restricted filter may be opened.
LEMMA FoundMayOpen ==
  ASSUME NEW by, NEW user, NEW filter, Restricted(by, user, filter), by # "manager",
         by \in {"none", "visitor", "next", "me", "manager"}, user \in Users \cup {None},
         NEW f \in Found(filter)
  PROVE  MayOpen(user, f)
<1>1. Live(f) /\ Where(filter, f)
  BY DEF Found
<1>2. CASE by \in {"visitor", "next"}
  <2>1. filter.visibility = "PUBLIC" /\ filter.statuses = {"PENDING", "PARSED"}
    BY <1>2 DEF Restricted
  <2>2. Asked(filter.visibility) /\ Asked(filter.statuses)
    BY <2>1, ListingsAssumption DEF Asked
  <2>3. photo[f].visibility = "PUBLIC" /\ photo[f].status \in {"PENDING", "PARSED"}
    BY <1>1, <2>1, <2>2 DEF Where
  <2> QED
    BY <1>1, <2>3 DEF MayOpen
<1>3. CASE by = "me"
  <2>1. user \in Users /\ filter.owner = user
    BY <1>3 DEF Restricted
  <2>2. Asked(filter.owner)
    BY <2>1, LibraryAssumption DEF Asked
  <2>3. photo[f].owner = user
    BY <1>1, <2>1, <2>2 DEF Where
  <2> QED
    BY <1>1, <2>3 DEF MayOpen
<1> QED
  BY <1>2, <1>3 DEF Restricted

LEMMA ListedStepOK ==
  ASSUME ListingInv, ListingStep, listing.pc = "find", listing.by # "manager"
  PROVE  \A f \in listing'.page : MayOpen(listing.user, f)
<1>1. FindMany
  BY DEF ListingStep, FindIds, Count, List, Begin
<1>2. listing'.page \subseteq Found(listing.filter)
  BY <1>1, FindManyOK
<1>3. listing.by \in {"none", "visitor", "next", "me", "manager"} /\ listing.user \in Users \cup {None}
  BY DEF ListingInv, ListingRow
<1>4. Restricted(listing.by, listing.user, listing.filter)
  BY DEF ListingInv
<1> QED
  BY <1>2, <1>3, <1>4, FoundMayOpen

-----------------------------------------------------------------------------
(* Dates *)

LEMMA LengthIs == \A month \in Int : Length(month) \in 28..31
BY DEF Length

LEMMA LeastIs ==
  ASSUME NEW a \in Int, NEW b \in Int
  PROVE  LeastOf(a, b) \in {a, b} /\ LeastOf(a, b) <= a /\ LeastOf(a, b) <= b
BY DEF LeastOf

LEMMA NextDayIsDate == \A d \in Dates : NextDay(d) \in Dates
<1> SUFFICES ASSUME NEW d \in Dates PROVE NextDay(d) \in Dates
  OBVIOUS
<1>1. d \in [month : Nat, day : 1..31] /\ d.day <= Length(d.month)
  BY DEF Dates
<1>2. CASE d.day < Length(d.month)
  <2>1. PICK e : e = [d EXCEPT !.day = @ + 1]
    OBVIOUS
  <2>2. e \in [month : Nat, day : 1..31] /\ e.month = d.month /\ e.day = d.day + 1
    BY <1>1, <1>2, <2>1, LengthIs
  <2>3. e.day <= Length(e.month)
    BY <1>1, <1>2, <2>2, LengthIs
  <2> QED
    BY <1>2, <2>1, <2>2, <2>3 DEF NextDay, Dates
<1>3. CASE ~(d.day < Length(d.month))
  <2>1. PICK e : e = [month |-> d.month + 1, day |-> 1]
    OBVIOUS
  <2>2. e \in [month : Nat, day : 1..31] /\ e.month \in Int /\ e.day = 1
    BY <1>1, <2>1
  <2>3. e.day <= Length(e.month)
    BY <2>2, LengthIs
  <2> QED
    BY <1>3, <2>1, <2>2, <2>3 DEF NextDay, Dates
<1> QED
  BY <1>2, <1>3

LEMMA LaterIsDate == \A d \in Dates, n \in Nat : AddCalendarMonths(d, n) \in Dates
<1> SUFFICES ASSUME NEW d \in Dates, NEW n \in Nat PROVE AddCalendarMonths(d, n) \in Dates
  OBVIOUS
<1>1. d.month \in Nat /\ d.day \in 1..31
  BY DEF Dates
<1>2. d.month + n \in Nat
  BY <1>1
<1>3. PICK len \in 28..31 : len = Length(d.month + n)
  BY <1>2, LengthIs
<1>4. PICK x \in 1..31 : x = LeastOf(d.day, len) /\ x <= len
  BY <1>1, LeastIs
<1>5. PICK e : e = [month |-> d.month + n, day |-> x]
  OBVIOUS
<1>6. e \in [month : Nat, day : 1..31] /\ e.day <= Length(e.month)
  BY <1>2, <1>3, <1>4, <1>5
<1> QED
  BY <1>3, <1>4, <1>5, <1>6 DEF AddCalendarMonths, Dates

\* Who orders a day later gets no less, however long the months are.
LEMMA LaterNotEarlier ==
  \A d \in Dates, n \in Nat : NotAfter(AddCalendarMonths(d, n), AddCalendarMonths(NextDay(d), n))
<1> SUFFICES ASSUME NEW d \in Dates, NEW n \in Nat
             PROVE  NotAfter(AddCalendarMonths(d, n), AddCalendarMonths(NextDay(d), n))
  OBVIOUS
<1>1. d \in [month : Nat, day : 1..31]
  BY DEF Dates
<1>2. d.month + n \in Nat
  BY <1>1
<1>3. PICK len \in 28..31 : len = Length(d.month + n)
  BY <1>2, LengthIs
<1>4. CASE d.day < Length(d.month)
  <2>1. PICK e : e = NextDay(d)
    OBVIOUS
  <2>2. e.month = d.month /\ e.day = d.day + 1
    BY <1>1, <1>4, <2>1 DEF NextDay
  <2>3. LeastOf(d.day, len) <= LeastOf(e.day, len)
    BY <1>1, <1>3, <2>2 DEF LeastOf
  <2> QED
    BY <1>3, <2>1, <2>2, <2>3 DEF AddCalendarMonths, NotAfter
<1>5. CASE ~(d.day < Length(d.month))
  <2>1. PICK e : e = NextDay(d)
    OBVIOUS
  <2>2. e.month = d.month + 1
    BY <1>5, <2>1 DEF NextDay
  <2>3. d.month + n < e.month + n
    BY <1>1, <2>2
  <2> QED
    BY <2>1, <2>3 DEF AddCalendarMonths, NotAfter
<1> QED
  BY <1>4, <1>5

LEMMA DaysOfIs ==
  ASSUME NEW a \in Nat, NEW b \in Nat
  PROVE  DaysOf(a, b) \in Nat
<1>1. PICK f : f = [m \in a..(b - 1) |-> Length(m)]
  OBVIOUS
<1>2. IsFiniteSet(a..(b - 1))
  BY FS_Interval
<1>3. \A m \in a..(b - 1) : f[m] \in Int /\ f[m] >= 0
  BY <1>1, LengthIs
<1>4. SumFunctionOnSet(f, a..(b - 1)) >= 0
  BY <1>2, <1>3, SumCovers
<1>5. SumFunctionOnSet(f, a..(b - 1)) \in Int
  BY <1>2, <1>3, SumType
<1> QED
  BY <1>1, <1>4, <1>5 DEF DaysOf

\* A month more, at the end and at the beginning.
LEMMA DaysOfMore ==
  ASSUME NEW a \in Nat, NEW b \in Nat, a <= b
  PROVE  /\ DaysOf(a, b + 1) = DaysOf(a, b) + Length(b)
         /\ DaysOf(a, b + 1) = Length(a) + DaysOf(a + 1, b + 1)
<1>1. PICK f : f = [m \in a..((b + 1) - 1) |-> Length(m)]
  OBVIOUS
<1>2. PICK g : g = [m \in a..(b - 1) |-> Length(m)]
  OBVIOUS
<1>3. PICK h : h = [m \in (a + 1)..((b + 1) - 1) |-> Length(m)]
  OBVIOUS
<1>4. IsFiniteSet(a..b) /\ IsFiniteSet(a..(b - 1)) /\ IsFiniteSet((a + 1)..b)
  BY FS_Interval
<1>5. (b + 1) - 1 = b
  OBVIOUS
<1>6. \A m \in a..b : f[m] = Length(m) /\ f[m] \in Int
  BY <1>1, <1>5, LengthIs
<1>7. \A m \in a..(b - 1) : f[m] \in Int /\ g[m] = f[m]
  BY <1>2, <1>6
<1>8. \A m \in (a + 1)..b : f[m] \in Int /\ h[m] = f[m]
  BY <1>3, <1>5, <1>6
<1>9. (a..b) \ {b} = a..(b - 1) /\ (a..b) \ {a} = (a + 1)..b /\ a \in a..b /\ b \in a..b
  OBVIOUS
<1>10. SumFunctionOnSet(f, a..b) = f[b] + SumFunctionOnSet(f, a..(b - 1))
  BY <1>4, <1>6, <1>9, SumRemove
<1>11. SumFunctionOnSet(f, a..b) = f[a] + SumFunctionOnSet(f, (a + 1)..b)
  <2>1. a \in a..b /\ (a..b) \ {a} = (a + 1)..b
    BY <1>9
  <2>2. SumFunctionOnSet(f, a..b) = f[a] + SumFunctionOnSet(f, (a..b) \ {a})
    BY <1>4, <1>6, <2>1, SumRemove, Zenon
  <2> QED
    BY <2>1, <2>2, Zenon
<1>12. SumFunctionOnSet(g, a..(b - 1)) = SumFunctionOnSet(f, a..(b - 1))
  BY <1>4, <1>7, SumSame
<1>13. SumFunctionOnSet(h, (a + 1)..b) = SumFunctionOnSet(f, (a + 1)..b)
  BY <1>4, <1>8, SumSame
<1>14. DaysOf(a, b + 1) = SumFunctionOnSet(f, a..b)
  BY <1>1, <1>5 DEF DaysOf
<1>15. DaysOf(a, b) = SumFunctionOnSet(g, a..(b - 1))
  BY <1>2 DEF DaysOf
<1>16. DaysOf(a + 1, b + 1) = SumFunctionOnSet(h, (a + 1)..b)
  BY <1>3, <1>5 DEF DaysOf
<1>17. DaysOf(a, b) \in Nat /\ DaysOf(a + 1, b + 1) \in Nat
  <2>1. a + 1 \in Nat /\ b + 1 \in Nat
    OBVIOUS
  <2> QED
    BY <2>1, DaysOfIs
<1>18. f[a] = Length(a) /\ f[b] = Length(b)
  BY <1>6, <1>9
<1>19. Length(a) \in Int /\ Length(b) \in Int
  BY LengthIs
<1> QED
  BY <1>10, <1>11, <1>12, <1>13, <1>14, <1>15, <1>16, <1>17, <1>18, <1>19

LEMMA BetweenNext ==
  ASSUME NEW d \in Dates, NEW e \in Dates, d.month <= e.month
  PROVE  /\ Between(d, NextDay(e)) = Between(d, e) + 1
         /\ Between(d, e) \in Int
         /\ d.month <= NextDay(e).month
<1>1. d \in [month : Nat, day : 1..31] /\ e \in [month : Nat, day : 1..31] /\ e.day <= Length(e.month)
  BY DEF Dates
<1>2. PICK k \in Nat : k = DaysOf(d.month, e.month)
  BY <1>1, DaysOfIs
<1>3. Between(d, e) = k + e.day - d.day
  BY <1>2 DEF Between
<1>4. CASE e.day < Length(e.month)
  <2>1. PICK g : g = NextDay(e)
    OBVIOUS
  <2>2. g.month = e.month /\ g.day = e.day + 1
    BY <1>1, <1>4, <2>1 DEF NextDay
  <2>3. Between(d, g) = k + (e.day + 1) - d.day
    BY <1>2, <2>2 DEF Between
  <2> QED
    BY <1>1, <1>3, <2>1, <2>2, <2>3
<1>5. CASE ~(e.day < Length(e.month))
  <2>1. PICK len \in 28..31 : len = Length(e.month)
    BY <1>1, LengthIs
  <2>2. e.day = len
    BY <1>1, <1>5, <2>1
  <2>3. PICK g : g = NextDay(e)
    OBVIOUS
  <2>4. g.month = e.month + 1 /\ g.day = 1
    BY <1>5, <2>3 DEF NextDay
  <2>5. DaysOf(d.month, e.month + 1) = k + len
    BY <1>1, <1>2, <2>1, DaysOfMore
  <2>6. Between(d, g) = (k + len) + 1 - d.day
    BY <2>4, <2>5 DEF Between
  <2> QED
    BY <1>1, <1>3, <2>1, <2>2, <2>3, <2>4, <2>6
<1> QED
  BY <1>4, <1>5

\* An order runs for a day at least, whatever the months.
LEMMA SpanIsPositive ==
  ASSUME NEW d \in Dates, NEW n \in Nat \ {0}
  PROVE  Between(d, AddCalendarMonths(d, n)) \in Nat \ {0}
<1>1. d \in [month : Nat, day : 1..31] /\ d.day <= Length(d.month)
  BY DEF Dates
<1>2. PICK b \in Nat : b = d.month + n - 1 /\ d.month <= b /\ b + 1 = d.month + n
  BY <1>1
<1>3. DaysOf(d.month, d.month + n) = Length(d.month) + DaysOf(d.month + 1, d.month + n)
  BY <1>1, <1>2, DaysOfMore
<1>4. d.month + 1 \in Nat /\ d.month + n \in Nat
  BY <1>1
<1>5. DaysOf(d.month + 1, d.month + n) \in Nat
  BY <1>4, DaysOfIs
<1>6. PICK len \in 28..31 : len = Length(d.month)
  BY <1>1, LengthIs
<1>7. PICK end \in 28..31 : end = Length(d.month + n)
  BY <1>4, LengthIs
<1>8. PICK e : e = AddCalendarMonths(d, n)
  OBVIOUS
<1>9. e.month = d.month + n /\ e.day = LeastOf(d.day, end)
  BY <1>7, <1>8 DEF AddCalendarMonths
<1>10. Between(d, e) = (len + DaysOf(d.month + 1, d.month + n)) + LeastOf(d.day, end) - d.day
  BY <1>3, <1>6, <1>9 DEF Between
<1>11. LeastOf(d.day, end) \in {d.day, end}
  BY <1>1, LeastIs
<1> QED
  BY <1>1, <1>5, <1>8, <1>10, <1>11

-----------------------------------------------------------------------------
(* Upgrade packages *)

OrderRow == [plan : {0} \cup PlanId, quota : Nat, paid : Nat, at : Dates, until : Dates]
AskRow == [pc : {"idle", "findByName", "write"}, id : {0} \cup PlanId, row : PlanRow]

\* The active order began before today and runs for a day at least.
OrderOK ==
  /\ order \in OrderRow
  /\ order # NoOrder => /\ order.at.month <= today.month
                        /\ Between(order.at, today) \in Nat
                        /\ Between(order.at, order.until) \in Nat \ {0}

AsksOK == ask \in [Procs -> AskRow] /\ \A p \in Procs : ask[p].pc # "idle" => ask[p].row \in Rows

\* A single manager: a request about to be written is for a name of its own.
Sole == Cardinality(Procs) = 1
NamesOK ==
  Sole => /\ \A i, k \in PlanId : Kept(i) /\ Kept(k) /\ plan[i].name = plan[k].name => i = k
          /\ \A p \in Procs : ask[p].pc = "write" =>
               \A i \in PlanId : Kept(i) /\ plan[i].name = ask[p].row.name => i = ask[p].id

PlanInv ==
  /\ plan \in [PlanId -> PlanRow]
  /\ today \in Dates
  /\ OrderOK
  /\ AsksOK
  /\ NamesOK

LEMMA RowsAre ==
  /\ \A row \in Rows : row \in PlanRow /\ row # NoPlan /\ ~row.deleted
  /\ NoPlan \in PlanRow
<1>1. Prices \subseteq Nat
  BY PlansAssumption
<1>2. None \notin Names
  BY PlansAssumption
<1>3. ASSUME NEW row \in Rows PROVE row \in PlanRow /\ ~row.deleted
  <2>1. row.deleted = FALSE
    BY DEF Rows
  <2>2. row \in PlanRow
    <3>1. PICK F : F = {FALSE}
      OBVIOUS
    <3>2. PICK O : O = {1}
      OBVIOUS
    <3>3. row \in [name : Names, price : Prices, quota : O, minMonths : O, enabled : BOOLEAN, deleted : F]
      BY <3>1, <3>2, Zenon DEF Rows
    <3>4. F \subseteq BOOLEAN /\ O \subseteq Nat
      BY <3>1, <3>2
    <3> QED
      BY <1>1, <3>3, <3>4 DEF PlanRow
  <2> QED
    BY <2>1, <2>2, Zenon
<1>4. \A row \in Rows : row.name \in Names
  BY DEF Rows
<1>5. NoPlan.name = None
  BY DEF NoPlan
<1>6. NoPlan \in PlanRow
  BY DEF NoPlan, PlanRow
<1> QED
  BY <1>2, <1>3, <1>4, <1>5, <1>6

LEMMA OnlyOne == Sole => \A p, q \in Procs : p = q
<1> SUFFICES ASSUME Sole PROVE \A p, q \in Procs : p = q
  OBVIOUS
<1>1. IsFiniteSet(Procs)
  BY PlansAssumption
<1>2. PICK x : Procs = {x}
  BY <1>1, FS_Singleton DEF Sole
<1> QED
  BY <1>2

LEMMA NoDate == [month |-> 0, day |-> 1] \in Dates
<1>1. PICK e : e = [month |-> 0, day |-> 1]
  OBVIOUS
<1>2. e \in [month : Nat, day : 1..31] /\ e.month \in Int /\ e.day = 1
  BY <1>1
<1>3. e.day <= Length(e.month)
  BY <1>2, LengthIs
<1> QED
  BY <1>1, <1>2, <1>3 DEF Dates

LEMMA PlansBegin == PlansInit => PlanInv
<1> SUFFICES ASSUME PlansInit PROVE PlanInv
  OBVIOUS
<1>1. plan \in [PlanId -> PlanRow] /\ \A i, k \in PlanId : Kept(i) /\ Kept(k) /\ plan[i].name = plan[k].name => i = k
  <2>1. CASE May("order")
    <3>1. PICK t \in [PlanId -> Rows] : /\ plan = [i \in PlanId |-> [t[i] EXCEPT !.quota = i]]
                                        /\ \A i, k \in PlanId : t[i].name = t[k].name => i = k
      BY <2>1 DEF PlansInit
    <3>2. \A i \in PlanId : t[i] \in PlanRow /\ i \in Nat
      BY RowsAre DEF PlanId
    <3>3. ASSUME NEW i \in PlanId PROVE plan[i] \in PlanRow /\ plan[i].name = t[i].name
      <4>1. t[i] \in PlanRow /\ i \in Nat
        BY <3>2
      <4>2. PICK x : x = [t[i] EXCEPT !.quota = i]
        OBVIOUS
      <4>3. x \in PlanRow /\ x.name = t[i].name
        BY <4>1, <4>2 DEF PlanRow
      <4> QED
        BY <3>1, <4>2, <4>3
    <3>4. plan \in [PlanId -> PlanRow]
      BY <3>1, <3>3
    <3> QED
      BY <3>1, <3>3, <3>4
  <2>2. CASE ~May("order")
    BY <2>2, RowsAre DEF PlansInit, Kept
  <2> QED
    BY <2>1, <2>2
<1>2. today \in Dates
  <2>1. today \in Starts
    BY PlansAssumption DEF PlansInit
  <2> QED
    BY <2>1, PlansAssumption
<1>3. order = NoOrder /\ order \in OrderRow
  BY NoDate DEF PlansInit, NoOrder, OrderRow
<1>4. NoAsk \in AskRow /\ NoAsk.pc = "idle"
  BY RowsAre DEF NoAsk, AskRow
<1>5. ask \in [Procs -> AskRow] /\ \A p \in Procs : ask[p].pc = "idle"
  BY <1>4 DEF PlansInit
<1> QED
  BY <1>1, <1>2, <1>3, <1>5 DEF PlanInv, OrderOK, AsksOK, NamesOK

\* What the steps of requests leave alone.
LEMMA OrderStill ==
  ASSUME OrderOK, UNCHANGED <<order, today>>
  PROVE  OrderOK'
BY DEF OrderOK

LEMMA AskWriteOK ==
  ASSUME PlanInv, NEW p \in Procs, AskWrite(p)
  PROVE  PlanInv'
<1>1. PICK i \in {0} \cup PlanId, row \in Rows : ask' = [ask EXCEPT ![p] = [pc |-> "findByName", id |-> i, row |-> row]]
  BY DEF AskWrite
<1>2. PICK x : x = [pc |-> "findByName", id |-> i, row |-> row]
  OBVIOUS
<1>3. x \in AskRow /\ x.pc = "findByName" /\ x.row \in Rows
  BY <1>2, RowsAre DEF AskRow
<1>4. ask \in [Procs -> AskRow] /\ ask' = [ask EXCEPT ![p] = x]
  BY <1>1, <1>2 DEF PlanInv, AsksOK
<1>5. UNCHANGED <<plan, today, order>>
  BY DEF AskWrite
<1>6. ask' \in [Procs -> AskRow] /\ ask'[p] = x /\ \A q \in Procs : q # p => ask'[q] = ask[q]
  BY <1>3, <1>4
<1>7. AsksOK'
  BY <1>3, <1>6 DEF PlanInv, AsksOK
<1>8. NamesOK'
  BY <1>3, <1>5, <1>6 DEF PlanInv, NamesOK, Kept
<1>9. OrderOK'
  BY <1>5, OrderStill DEF PlanInv
<1> QED
  BY <1>5, <1>7, <1>8, <1>9 DEF PlanInv

LEMMA AnswerOK ==
  ASSUME AsksOK, NEW p \in Procs, Answer(p)
  PROVE  /\ AsksOK' /\ ask'[p].pc = "idle" /\ \A q \in Procs : q # p => ask'[q] = ask[q]
<1>1. NoAsk \in AskRow /\ NoAsk.pc = "idle"
  BY RowsAre DEF NoAsk, AskRow
<1>2. ask' \in [Procs -> AskRow] /\ ask'[p] = NoAsk /\ \A q \in Procs : q # p => ask'[q] = ask[q]
  BY <1>1 DEF AsksOK, Answer
<1> QED
  BY <1>1, <1>2 DEF AsksOK

LEMMA FindByNameOK ==
  ASSUME PlanInv, NEW p \in Procs, FindByName(p)
  PROVE  PlanInv'
<1>1. UNCHANGED <<plan, today, order>>
  BY DEF FindByName
<1>2. OrderOK'
  BY <1>1, OrderStill DEF PlanInv
<1>3. CASE Answer(p)
  <2>1. AsksOK' /\ ask'[p].pc = "idle" /\ \A q \in Procs : q # p => ask'[q] = ask[q]
    BY <1>3, AnswerOK DEF PlanInv
  <2>2. NamesOK'
    BY <1>1, <2>1 DEF PlanInv, NamesOK, Kept
  <2> QED
    BY <1>1, <1>2, <2>1, <2>2 DEF PlanInv
<1>4. CASE ~Answer(p)
  <2>1. /\ ask[p].pc = "findByName"
        /\ ~\E i \in PlanId : Kept(i) /\ plan[i].name = ask[p].row.name /\ i # ask[p].id
        /\ ask' = [ask EXCEPT ![p].pc = "write"]
    BY <1>4 DEF FindByName, AskAt
  <2>2. PICK x \in AskRow : x = ask[p]
    BY DEF PlanInv, AsksOK
  <2>3. PICK y : y = [x EXCEPT !.pc = "write"]
    OBVIOUS
  <2>4. y \in AskRow /\ y.id = x.id /\ y.row = x.row
    BY <2>3 DEF AskRow
  <2>5. ask \in [Procs -> AskRow] /\ ask' = [ask EXCEPT ![p] = y]
    BY <2>1, <2>2, <2>3 DEF PlanInv, AsksOK
  <2>6. ask' \in [Procs -> AskRow] /\ ask'[p] = y /\ \A q \in Procs : q # p => ask'[q] = ask[q]
    BY <2>4, <2>5
  <2>7. x.row \in Rows
    BY <2>1, <2>2 DEF PlanInv, AsksOK
  <2>8. AsksOK'
    BY <2>4, <2>6, <2>7 DEF PlanInv, AsksOK
  <2>9. \A i \in PlanId : Kept(i) /\ plan[i].name = y.row.name => i = y.id
    BY <2>1, <2>2, <2>4
  <2>10. NamesOK'
    BY <1>1, <2>6, <2>9 DEF PlanInv, NamesOK, Kept
  <2> QED
    BY <1>1, <1>2, <2>8, <2>10 DEF PlanInv
<1> QED
  BY <1>3, <1>4

\* Writing a request that was found to be alone in its name.
LEMMA NamesWritten ==
  ASSUME PlanInv, NEW p \in Procs, ask[p].pc = "write", AsksOK', ask'[p].pc = "idle",
         \A q \in Procs : q # p => ask'[q] = ask[q],
         NEW i \in PlanId, i = ask[p].id \/ ask[p].id = 0,
         plan' = [plan EXCEPT ![i] = ask[p].row]
  PROVE  NamesOK'
<1>1. SUFFICES ASSUME Sole PROVE NamesOK'
  BY DEF NamesOK, Sole
<1>2. \A q \in Procs : ask'[q].pc = "idle"
  BY <1>1, OnlyOne
<1>3. plan'[i] = ask[p].row /\ \A k \in PlanId : k # i => plan'[k] = plan[k]
  BY DEF PlanInv
<1>4. \A k \in PlanId : k # i => (Kept(k)' <=> Kept(k))
  BY <1>3 DEF Kept
<1>5. \A k \in PlanId : Kept(k) /\ plan[k].name = ask[p].row.name => k = ask[p].id
  BY <1>1 DEF PlanInv, NamesOK
<1>6. \A k \in PlanId : Kept(k) /\ plan[k].name = ask[p].row.name => k = i
  BY <1>5 DEF PlanId
<1>7. ASSUME NEW k \in PlanId, Kept(k)', plan'[k].name = plan'[i].name PROVE k = i
  BY <1>3, <1>4, <1>6, <1>7
<1>8. \A j, k \in PlanId : Kept(j) /\ Kept(k) /\ plan[j].name = plan[k].name => j = k
  BY <1>1 DEF PlanInv, NamesOK
<1>9. ASSUME NEW j \in PlanId, NEW k \in PlanId, Kept(j)', Kept(k)', plan'[j].name = plan'[k].name PROVE j = k
  <2>1. CASE j = i
    BY <1>7, <1>9, <2>1
  <2>2. CASE k = i
    BY <1>7, <1>9, <2>2
  <2>3. CASE j # i /\ k # i
    BY <1>3, <1>4, <1>8, <1>9, <2>3
  <2> QED
    BY <2>1, <2>2, <2>3
<1> QED
  BY <1>2, <1>9 DEF NamesOK

LEMMA WritePlanOK ==
  ASSUME PlanInv, NEW p \in Procs, WritePlan(p)
  PROVE  PlanInv'
<1>1. UNCHANGED <<today, order>> /\ Answer(p) /\ ask[p].pc = "write"
  BY DEF WritePlan, AskAt
<1>2. OrderOK'
  BY <1>1, OrderStill DEF PlanInv
<1>3. AsksOK' /\ ask'[p].pc = "idle" /\ \A q \in Procs : q # p => ask'[q] = ask[q]
  BY <1>1, AnswerOK DEF PlanInv
<1>4. ask[p].row \in PlanRow /\ ask[p].id \in {0} \cup PlanId
  BY DEF PlanInv, AsksOK, AskRow
<1>5. CASE plan' = plan
  <2>1. NamesOK'
    BY <1>3, <1>5 DEF PlanInv, NamesOK, Kept
  <2> QED
    BY <1>1, <1>2, <1>3, <1>5, <2>1 DEF PlanInv
<1>6. ASSUME NEW i \in PlanId, i = ask[p].id \/ ask[p].id = 0, plan' = [plan EXCEPT ![i] = ask[p].row]
      PROVE  PlanInv'
  <2>1. plan' \in [PlanId -> PlanRow]
    BY <1>4, <1>6 DEF PlanInv
  <2>2. NamesOK'
    BY <1>1, <1>3, <1>6, NamesWritten
  <2> QED
    BY <1>1, <1>2, <1>3, <2>1, <2>2 DEF PlanInv
<1>7. CASE ask[p].id = 0
  <2>1. PICK i \in PlanId : plan[i] = NoPlan /\ plan' = [plan EXCEPT ![i] = ask[p].row]
    BY <1>7 DEF WritePlan
  <2> QED
    BY <1>6, <1>7, <2>1
<1>8. CASE ask[p].id # 0
  <2>1. ask[p].id \in PlanId
    BY <1>4, <1>8
  <2>2. plan' = IF Kept(ask[p].id) THEN [plan EXCEPT ![ask[p].id] = ask[p].row] ELSE plan
    BY <1>8 DEF WritePlan
  <2> QED
    BY <1>5, <1>6, <2>1, <2>2
<1> QED
  BY <1>7, <1>8

LEMMA DeletePlanOK ==
  ASSUME PlanInv, NEW i \in PlanId, DeletePlan(i)
  PROVE  PlanInv'
<1>1. UNCHANGED <<today, order, ask>> /\ plan' = [plan EXCEPT ![i].deleted = TRUE]
  BY DEF DeletePlan
<1>2. OrderOK'
  BY <1>1, OrderStill DEF PlanInv
<1>3. PICK x \in PlanRow : x = plan[i]
  BY DEF PlanInv
<1>4. PICK y : y = [x EXCEPT !.deleted = TRUE]
  OBVIOUS
<1>5. y \in PlanRow /\ y.deleted
  BY <1>4 DEF PlanRow
<1>6. plan' = [plan EXCEPT ![i] = y] /\ plan \in [PlanId -> PlanRow]
  BY <1>1, <1>3, <1>4 DEF PlanInv
<1>7. plan' \in [PlanId -> PlanRow] /\ plan'[i] = y /\ \A k \in PlanId : k # i => plan'[k] = plan[k]
  BY <1>5, <1>6
<1>8. ~Kept(i)' /\ \A k \in PlanId : k # i => (Kept(k)' <=> Kept(k))
  BY <1>5, <1>7 DEF Kept
<1>9. \A k \in PlanId : Kept(k)' => Kept(k) /\ plan'[k].name = plan[k].name
  BY <1>7, <1>8
<1>10. NamesOK'
  <2>1. SUFFICES ASSUME Sole PROVE NamesOK'
    BY DEF NamesOK, Sole
  <2>2. \A j, k \in PlanId : Kept(j)' /\ Kept(k)' /\ plan'[j].name = plan'[k].name => j = k
    BY <1>9, <2>1 DEF PlanInv, NamesOK
  <2>3. \A p \in Procs : ask[p].pc = "write" =>
          \A k \in PlanId : Kept(k)' /\ plan'[k].name = ask[p].row.name => k = ask[p].id
    BY <1>9, <2>1 DEF PlanInv, NamesOK
  <2> QED
    BY <1>1, <2>2, <2>3 DEF NamesOK
<1>11. AsksOK'
  BY <1>1 DEF PlanInv, AsksOK
<1> QED
  BY <1>1, <1>2, <1>7, <1>10, <1>11 DEF PlanInv

\* Multiplying and dividing.
LEMMA TimesMore ==
  ASSUME NEW a \in Nat, NEW x \in Int, NEW y \in Int, x <= y
  PROVE  a * x \in Int /\ a * y \in Int /\ a * x <= a * y
<1>1. PICK z \in Nat : y = x + z
  <2>1. y - x \in Nat /\ y = x + (y - x)
    OBVIOUS
  <2> QED
    BY <2>1
<1>2. a * y = a * x + a * z
  BY <1>1
<1>3. a * z \in Nat /\ a * x \in Int
  BY <1>1
<1> QED
  BY <1>2, <1>3

LEMMA DividedIs ==
  ASSUME NEW a \in Nat, NEW d \in Nat \ {0}
  PROVE  a \div d \in Nat /\ d * (a \div d) <= a /\ a < d * ((a \div d) + 1)
OBVIOUS

LEMMA DividedMore ==
  ASSUME NEW a \in Nat, NEW b \in Nat, NEW d \in Nat \ {0}, a <= b
  PROVE  a \div d <= b \div d
<1>1. PICK q \in Nat : q = a \div d /\ d * q <= a
  BY DividedIs
<1>2. PICK r \in Nat : r = b \div d /\ b < d * (r + 1)
  BY DividedIs
<1>3. SUFFICES ASSUME r + 1 <= q PROVE FALSE
  BY <1>1, <1>2
<1>4. d * (r + 1) <= d * q
  BY <1>3, TimesMore
<1> QED
  BY <1>1, <1>2, <1>4

LEMMA DividedExactly ==
  ASSUME NEW k \in Nat, NEW d \in Nat \ {0}
  PROVE  k * d \in Nat /\ (k * d) \div d = k
OBVIOUS

\* What is left to pay, or refunded when it is negative, rounded to zero.
Rounded(left, days) ==
  (IF left >= 0 THEN left \div days ELSE 0) - (IF left >= 0 THEN 0 ELSE (-left) \div days)

LEMMA RoundedIs ==
  ASSUME NEW left \in Int, NEW days \in Nat \ {0}
  PROVE  Rounded(left, days) \in Int /\ (left >= 0 => Rounded(left, days) >= 0)
<1>1. CASE left >= 0
  <2>1. left \div days \in Nat
    BY <1>1, DividedIs
  <2> QED
    BY <1>1, <2>1 DEF Rounded
<1>2. CASE ~(left >= 0)
  <2>1. (-left) \div days \in Nat
    BY <1>2, DividedIs
  <2> QED
    BY <1>2, <2>1 DEF Rounded
<1> QED
  BY <1>1, <1>2

LEMMA RoundedMore ==
  ASSUME NEW a \in Int, NEW b \in Int, NEW days \in Nat \ {0}, a <= b
  PROVE  Rounded(a, days) <= Rounded(b, days)
<1>1. CASE a >= 0
  <2>1. a \in Nat /\ b \in Nat /\ b >= 0
    BY <1>1
  <2>2. a \div days <= b \div days /\ a \div days \in Nat /\ b \div days \in Nat
    BY <2>1, DividedMore, DividedIs
  <2> QED
    BY <1>1, <2>1, <2>2 DEF Rounded
<1>2. CASE ~(a >= 0) /\ b >= 0
  <2>1. (-a) \div days \in Nat /\ b \div days \in Nat
    BY <1>2, DividedIs
  <2> QED
    BY <1>2, <2>1 DEF Rounded
<1>3. CASE ~(a >= 0) /\ ~(b >= 0)
  <2>1. -a \in Nat /\ -b \in Nat /\ -b <= -a
    BY <1>3
  <2>2. (-b) \div days <= (-a) \div days /\ (-a) \div days \in Nat /\ (-b) \div days \in Nat
    BY <2>1, DividedMore, DividedIs
  <2> QED
    BY <1>3, <2>2 DEF Rounded
<1> QED
  BY <1>1, <1>2, <1>3

LEMMA RoundedExactly ==
  ASSUME NEW k \in Int, NEW days \in Nat \ {0}
  PROVE  k * days \in Int /\ Rounded(k * days, days) = k
<1>1. CASE k >= 0
  <2>1. k \in Nat /\ k * days \in Nat /\ (k * days) \div days = k
    BY <1>1, DividedExactly
  <2> QED
    BY <2>1 DEF Rounded
<1>2. CASE ~(k >= 0)
  <2>1. PICK j \in Nat \ {0} : j = -k
    BY <1>2
  <2>2. j * days \in Nat /\ (j * days) \div days = j
    BY <2>1, DividedExactly
  <2>3. k * days = -(j * days)
    BY <2>1
  <2>4. 1 * days <= j * days
    BY <2>1, TimesMore
  <2>5. ~(k * days >= 0) /\ -(k * days) = j * days
    BY <2>2, <2>3, <2>4
  <2> QED
    BY <2>1, <2>2, <2>3, <2>5 DEF Rounded
<1> QED
  BY <1>1, <1>2

\* What an order is worth still is no more than what was paid for it, and never less than nothing.
LEMMA CreditIs ==
  ASSUME PlanInv
  PROVE  Credit \in Nat /\ Days \in Nat \ {0} /\ Credit <= order.paid * Days
<1>1. CASE order = NoOrder
  <2>1. order.paid = 0
    BY <1>1 DEF NoOrder
  <2> QED
    BY <1>1, <2>1 DEF Credit, Days
<1>2. CASE order # NoOrder
  <2>1. PICK p \in Nat : p = order.paid
    BY DEF PlanInv, OrderOK, OrderRow
  <2>2. PICK a \in Nat : a = Passed
    BY <1>2 DEF PlanInv, OrderOK, Passed
  <2>3. PICK s \in Nat \ {0} : s = Span
    BY <1>2 DEF PlanInv, OrderOK, Span
  <2>4. Days = s
    BY <1>2, <2>3 DEF Days
  <2>5. CASE a >= s
    BY <1>2, <2>1, <2>2, <2>3, <2>4, <2>5 DEF Credit
  <2>6. CASE ~(a >= s)
    <3>1. Credit = p * (s - a)
      BY <1>2, <2>1, <2>2, <2>3, <2>6 DEF Credit
    <3>2. p * (s - a) <= p * s
      BY TimesMore
    <3>3. s - a \in Nat
      BY <2>6
    <3>4. p * (s - a) \in Nat
      BY <3>3
    <3> QED
      BY <2>1, <2>4, <3>1, <3>2, <3>4
  <2> QED
    BY <2>5, <2>6
<1> QED
  BY <1>1, <1>2

LEMMA RemainIs ==
  ASSUME PlanInv, NEW i \in PlanId, NEW n \in Nat
  PROVE  Remain(i, n) \in Nat
<1>1. PICK c \in Nat, d \in Nat \ {0} : c = Credit /\ d = Days
  BY CreditIs
<1>2. plan[i].price \in Nat
  BY DEF PlanInv, PlanRow
<1>3. PICK x \in Nat : x = plan[i].price * n
  BY <1>2
<1>4. PICK left \in Int : left = x * d - c
  BY <1>1, <1>3
<1>5. Remain(i, n) = IF left >= 0 THEN left \div d ELSE 0
  BY <1>1, <1>3, <1>4 DEF Remain
<1>6. left >= 0 => left \div d \in Nat
  BY DividedIs
<1> QED
  BY <1>5, <1>6

LEMMA BuyOK ==
  ASSUME PlanInv, NEW i \in PlanId, NEW n \in Months, Buy(i, n)
  PROVE  PlanInv'
<1>1. n \in Nat \ {0}
  BY PlansAssumption
<1>2. PICK paid \in Nat : paid = Remain(i, n)
  BY <1>1, RemainIs
<1>3. PICK d \in Dates : d = today
  BY DEF PlanInv
<1>4. PICK e \in Dates : e = AddCalendarMonths(d, n)
  BY <1>1, LaterIsDate
<1>5. plan[i].quota \in Nat
  BY DEF PlanInv, PlanRow
<1>6. UNCHANGED <<plan, today, ask>>
  BY DEF Buy
<1>7. order' = [plan |-> i, quota |-> plan[i].quota, paid |-> paid, at |-> d, until |-> e]
  BY <1>2, <1>3, <1>4 DEF Buy
<1>8. order' \in OrderRow /\ order'.at = d /\ order'.until = e
  BY <1>5, <1>7 DEF OrderRow
<1>9. Between(d, e) \in Nat \ {0}
  BY <1>1, <1>4, SpanIsPositive
<1>10. Between(d, d) = 0 /\ d.month <= d.month
  <2>1. d.month \in Nat /\ d.day \in Nat
    BY DEF Dates
  <2>2. (d.month)..(d.month - 1) = {}
    BY <2>1
  <2>3. DaysOf(d.month, d.month) = 0
    BY <2>2, SumEmpty DEF DaysOf
  <2> QED
    BY <2>1, <2>3 DEF Between
<1>11. OrderOK'
  BY <1>3, <1>6, <1>8, <1>9, <1>10 DEF OrderOK
<1>12. AsksOK' /\ NamesOK'
  BY <1>6 DEF PlanInv, AsksOK, NamesOK, Kept
<1> QED
  BY <1>6, <1>11, <1>12 DEF PlanInv

\* A day passes.
LEMMA WaitOK ==
  ASSUME PlanInv, Wait
  PROVE  PlanInv' /\ Passed' = Passed + 1
<1>1. UNCHANGED <<plan, order, ask>> /\ today' = NextDay(today) /\ order # NoOrder
  BY DEF Wait
<1>2. today \in Dates /\ order.at \in Dates /\ order.at.month <= today.month
  BY <1>1 DEF PlanInv, OrderOK, OrderRow
<1>3. /\ Between(order.at, NextDay(today)) = Between(order.at, today) + 1
      /\ order.at.month <= NextDay(today).month
  BY <1>2, BetweenNext
<1>4. today' \in Dates
  BY <1>1, <1>2, NextDayIsDate
<1>5. Passed' = Passed + 1 /\ Passed \in Nat
  BY <1>1, <1>3 DEF Passed, PlanInv, OrderOK
<1>6. OrderOK'
  BY <1>1, <1>3, <1>5 DEF PlanInv, OrderOK, Passed
<1>7. AsksOK' /\ NamesOK'
  BY <1>1 DEF PlanInv, AsksOK, NamesOK, Kept
<1> QED
  BY <1>1, <1>4, <1>5, <1>6, <1>7 DEF PlanInv

LEMMA PlansStepOK ==
  ASSUME PlanInv, PlansStep
  PROVE  PlanInv'
<1>1. ASSUME NEW p \in Procs, AskWrite(p) PROVE PlanInv'
  BY <1>1, AskWriteOK
<1>2. ASSUME NEW p \in Procs, FindByName(p) PROVE PlanInv'
  BY <1>2, FindByNameOK
<1>3. ASSUME NEW p \in Procs, WritePlan(p) PROVE PlanInv'
  BY <1>3, WritePlanOK
<1>4. ASSUME NEW i \in PlanId, DeletePlan(i) PROVE PlanInv'
  BY <1>4, DeletePlanOK
<1>5. ASSUME NEW i \in PlanId, NEW n \in Months, Buy(i, n) PROVE PlanInv'
  BY <1>5, BuyOK
<1>6. CASE Wait
  BY <1>6, WaitOK
<1> QED
  BY <1>1, <1>2, <1>3, <1>4, <1>5, <1>6 DEF PlansStep

LEMMA PlansStill ==
  ASSUME PlanInv, UNCHANGED plansVars
  PROVE  PlanInv'
BY DEF PlanInv, OrderOK, AsksOK, NamesOK, Kept, plansVars

\* What is credited shrinks day by day.
LEMMA CreditShrinks ==
  ASSUME PlanInv, Wait
  PROVE  Credit' \in Nat /\ Credit' <= Credit /\ Days' = Days
<1>1. order' = order /\ order # NoOrder
  BY DEF Wait
<1>2. Span' = Span
  BY <1>1 DEF Span
<1>3. Days' = Days
  BY <1>1, <1>2 DEF Days
<1>4. PICK p \in Nat : p = order.paid
  BY DEF PlanInv, OrderOK, OrderRow
<1>5. PICK a \in Nat : a = Passed
  BY <1>1 DEF PlanInv, OrderOK, Passed
<1>6. PICK s \in Nat \ {0} : s = Span
  BY <1>1 DEF PlanInv, OrderOK, Span
<1>7. Passed' = a + 1
  BY <1>5, WaitOK
<1>8. Credit' = IF a + 1 >= s THEN 0 ELSE p * (s - (a + 1))
  BY <1>1, <1>2, <1>4, <1>6, <1>7 DEF Credit
<1>9. Credit = IF a >= s THEN 0 ELSE p * (s - a)
  BY <1>1, <1>4, <1>5, <1>6 DEF Credit
<1>10. p * (s - (a + 1)) <= p * (s - a)
  BY TimesMore
<1>11. Credit \in Nat
  BY CreditIs
<1>12. Credit' \in Nat
  <2>1. CASE a + 1 >= s
    BY <1>8, <2>1
  <2>2. CASE ~(a + 1 >= s)
    <3>1. PICK k \in Nat : k = s - (a + 1)
      BY <2>2
    <3>2. p * k \in Nat
      OBVIOUS
    <3> QED
      BY <1>8, <2>2, <3>1, <3>2
  <2> QED
    BY <2>1, <2>2
<1> QED
  BY <1>3, <1>8, <1>9, <1>10, <1>11, <1>12

LEMMA WaitingOK ==
  ASSUME PlanInv, Wait
  PROVE  /\ \A i \in PlanId, n \in Months : MayQuote(i, n) =>
              /\ Net(i, n) <= Net(i, n)'
              /\ Net(i, n)' <= plan[i].price * n
              /\ plan[i].price * n - order.paid <= Net(i, n)
         /\ \A n \in Months : NotAfter(AddCalendarMonths(today, n), AddCalendarMonths(today, n)')
<1>1. ASSUME NEW i \in PlanId, NEW n \in Months
      PROVE  /\ Net(i, n) <= Net(i, n)'
             /\ Net(i, n)' <= plan[i].price * n
             /\ plan[i].price * n - order.paid <= Net(i, n)
  <2>1. n \in Nat /\ plan[i].price \in Nat /\ order.paid \in Nat
    BY PlansAssumption DEF PlanInv, PlanRow, OrderOK, OrderRow
  <2>2. PICK x \in Nat, p \in Nat : x = plan[i].price * n /\ p = order.paid
    BY <2>1
  <2>3. PICK c \in Nat, d \in Nat \ {0} : c = Credit /\ d = Days /\ c <= p * d
    BY <2>2, CreditIs
  <2>5. PICK e \in Nat : e = Credit' /\ e <= c /\ Days' = d
    BY <2>3, CreditShrinks
  <2>6. plan' = plan
    BY DEF Wait
  <2>7. Net(i, n) = Rounded(x * d - c, d)
    BY <2>2, <2>3 DEF Net, Remain, Refund, Rounded
  <2>8. Net(i, n)' = Rounded(x * d - e, d)
    BY <2>2, <2>5, <2>6 DEF Net, Remain, Refund, Rounded
  <2>9. x * d \in Int /\ Rounded(x * d, d) = x
    BY RoundedExactly
  <2>10. (x - p) * d \in Int /\ Rounded((x - p) * d, d) = x - p
    BY RoundedExactly
  <2>11. (x - p) * d = x * d - p * d /\ p * d \in Int
    OBVIOUS
  <2>12. x * d - c <= x * d - e /\ x * d - e <= x * d /\ (x - p) * d <= x * d - c
    <3>1. PICK y \in Int, q \in Int : y = x * d /\ q = p * d /\ (x - p) * d = y - q
      BY <2>9, <2>11
    <3>2. c <= q /\ e <= c
      BY <2>3, <2>5, <3>1, Zenon
    <3>3. y - c <= y - e /\ y - e <= y /\ y - q <= y - c
      BY <3>2
    <3> QED
      BY <3>1, <3>3, Zenon
  <2>13. x * d - c \in Int /\ x * d - e \in Int
    BY <2>9
  <2>14. Rounded(x * d - c, d) <= Rounded(x * d - e, d)
    BY <2>12, <2>13, RoundedMore
  <2>15. Rounded(x * d - e, d) <= x
    BY <2>9, <2>12, <2>13, RoundedMore
  <2>16. x - p <= Rounded(x * d - c, d)
    BY <2>10, <2>12, <2>13, RoundedMore
  <2> QED
    BY <2>2, <2>7, <2>8, <2>14, <2>15, <2>16
<1>2. ASSUME NEW n \in Months PROVE NotAfter(AddCalendarMonths(today, n), AddCalendarMonths(today, n)')
  <2>1. n \in Nat /\ today \in Dates
    BY PlansAssumption DEF PlanInv
  <2>2. AddCalendarMonths(today, n)' = AddCalendarMonths(NextDay(today), n)
    BY DEF Wait, AddCalendarMonths
  <2> QED
    BY <2>1, <2>2, LaterNotEarlier
<1> QED
  BY <1>1, <1>2

LEMMA PlansStepWaits ==
  ASSUME PlanInv, PlansStep, today' # today
  PROVE  Wait
BY DEF PlansStep, AskWrite, FindByName, WritePlan, DeletePlan, Buy

-----------------------------------------------------------------------------
(* The Photo table *)

PhotoRow ==
  [owner : Users \cup {None}, model : Models \cup {None}, type : {"RAW", "BOOKING"},
   booked : BOOLEAN, status : {"PENDING", "PARSED", "DUPLICATED", "BAN"},
   visibility : {"PUBLIC", "PRIVATE"}, created : {0} \cup Time, deleted : {0} \cup Time,
   sales : SUBSET Time, active : BOOLEAN]
JobRow == [pc : {"none", "read", "connect", "count"}, left : 0..Attempts]

\* A photo has an owner, and was put on sale as RAW.
PhotoOK(x) == x # NoPhoto => x.owner \in Users /\ (~May("retype") /\ x.sales # {} => x.type = "RAW")

PhotosOK ==
  /\ photo \in [PhotoId -> PhotoRow]
  /\ \A f \in PhotoId : PhotoOK(photo[f])

\* A photo has a job only once it is uploaded; a job looks up a camera only for a model.
JobsOK ==
  /\ job \in [PhotoId -> JobRow]
  /\ \A f \in PhotoId : /\ job[f].pc # "none" => Has(f)
                        /\ job[f].pc = "connect" => photo[f].model # None

LibraryInv ==
  /\ setting \in Settings
  /\ now \in Time /\ First <= now /\ now <= First + DayLength * setting.days
  /\ PhotosOK
  /\ JobsOK

\* What no step takes from a photo.
Keeps(old, new) ==
  /\ new.owner = old.owner /\ new.model = old.model /\ new.created = old.created /\ old.sales \subseteq new.sales
  /\ May("retype") \/ new.type = old.type
  /\ May("delete") \/ new.deleted = old.deleted
PhotosKept == \A f \in PhotoId : Has(f) => photo'[f] # NoPhoto /\ Keeps(photo[f], photo'[f])

LEMMA NumbersAre ==
  /\ Attempts \in Nat \ {0} /\ DayLength \in Nat \ {0} /\ Backfill \in Nat /\ MaxDays \in Nat /\ MaxPhotos \in Nat
  /\ First \in Nat \ {0} /\ First \in Time /\ Time \subseteq Nat \ {0}
  /\ DayLength * MaxDays \in Nat
<1>1. Attempts \in Nat \ {0} /\ DayLength \in Nat \ {0} /\ Backfill \in Nat /\ MaxDays \in Nat /\ MaxPhotos \in Nat
  BY LibraryAssumption
<1>2. Backfill + 1 \in Nat /\ 1 <= Backfill + 1
  BY <1>1
<1>3. DayLength * 1 <= DayLength * (Backfill + 1) /\ DayLength * (Backfill + 1) \in Int
  BY <1>1, <1>2, TimesMore
<1>4. First \in Nat \ {0}
  BY <1>1, <1>3 DEF First
<1>5. DayLength * (MaxDays + 1) \in Nat /\ DayLength * MaxDays \in Nat
  BY <1>1
<1>6. First \in Time /\ Time \subseteq Nat \ {0}
  BY <1>4, <1>5 DEF Time
<1> QED
  BY <1>1, <1>4, <1>5, <1>6

LEMMA NoPhotoIs == NoPhoto \in PhotoRow /\ NoPhoto.owner = None /\ None \notin Users /\ None \notin Models
<1>1. NoPhoto \in PhotoRow
  BY DEF NoPhoto, PhotoRow
<1>2. NoPhoto.owner = None
  BY DEF NoPhoto
<1> QED
  BY <1>1, <1>2, LibraryAssumption

LEMMA TickOK ==
  ASSUME LibraryInv, Tick
  PROVE  LibraryInv' /\ PhotosKept /\ now <= now'
<1>1. UNCHANGED <<setting, photo, job>> /\ now' = now + 1 /\ now < First + DayLength * setting.days
  BY DEF Tick
<1>2. PICK days \in 0..MaxDays : days = setting.days
  <2>1. setting \in [kinds : SUBSET Kinds, photos : 0..MaxPhotos, days : 0..MaxDays, during : BOOLEAN]
    BY LibraryAssumption DEF LibraryInv
  <2> QED
    BY <2>1
<1>3. days \in Nat /\ MaxDays + 1 \in Nat /\ days <= MaxDays + 1
  BY <1>2, NumbersAre
<1>4. DayLength * days <= DayLength * (MaxDays + 1) /\ DayLength * days \in Int /\ DayLength * (MaxDays + 1) \in Int
  BY <1>3, NumbersAre, TimesMore
<1>5. now \in Nat \ {0} /\ First <= now
  BY NumbersAre DEF LibraryInv
<1>6. now' \in Time /\ First <= now' /\ now' <= First + DayLength * setting.days
  <2>1. PICK x \in Int : x = DayLength * days
    BY <1>4
  <2>2. PICK y \in Int : y = DayLength * (MaxDays + 1) /\ x <= y
    BY <1>4, <2>1
  <2>3. now < First + x
    BY <1>1, <1>2, <2>1
  <2>4. now + 1 \in 1..(First + y) /\ First <= now + 1 /\ now + 1 <= First + x
    BY <1>5, <2>2, <2>3, NumbersAre
  <2> QED
    BY <1>1, <1>2, <2>1, <2>2, <2>4 DEF Time
<1>7. PhotosOK' /\ JobsOK'
  BY <1>1 DEF LibraryInv, PhotosOK, JobsOK, PhotoOK, Has, May
<1>8. PhotosKept
  BY <1>1 DEF PhotosKept, Keeps, Has
<1>9. setting' \in Settings
  BY <1>1 DEF LibraryInv
<1> QED
  BY <1>1, <1>5, <1>6, <1>7, <1>8, <1>9 DEF LibraryInv

\* A step that changes one photo.
LEMMA ChangeOK ==
  ASSUME LibraryInv, NEW f \in PhotoId, NEW new \in PhotoRow, new.owner \in Users,
         ~May("retype") /\ new.sales # {} => new.type = "RAW",
         Has(f) => Keeps(photo[f], new),
         Change(f, new), job' = job \/ \E x \in JobRow : x.pc = "read" /\ job' = [job EXCEPT ![f] = x]
  PROVE  LibraryInv' /\ PhotosKept /\ now' = now
<1>1. UNCHANGED <<setting, now>> /\ photo' = [photo EXCEPT ![f] = new]
  BY DEF Change
<1>2. photo' \in [PhotoId -> PhotoRow] /\ photo'[f] = new /\ \A g \in PhotoId : g # f => photo'[g] = photo[g]
  BY <1>1 DEF LibraryInv, PhotosOK
<1>3. new # NoPhoto
  BY NoPhotoIs
<1>4. PhotoOK(new)
  BY DEF PhotoOK
<1>5. \A g \in PhotoId : PhotoOK(photo'[g])
  BY <1>2, <1>4 DEF LibraryInv, PhotosOK
<1>6. PhotosOK'
  BY <1>1, <1>2, <1>5 DEF PhotosOK, PhotoOK, May
<1>7. PhotosKept
  BY <1>2, <1>3 DEF PhotosKept, Keeps, Has
<1>8. \A g \in PhotoId : Has(g) => Has(g)' /\ photo'[g].model = photo[g].model
  BY <1>7 DEF PhotosKept, Keeps, Has
<1>9. Has(f)'
  BY <1>2, <1>3 DEF Has
<1>10. JobsOK'
  <2>1. CASE job' = job
    BY <1>8, <2>1 DEF LibraryInv, JobsOK
  <2>2. CASE \E x \in JobRow : x.pc = "read" /\ job' = [job EXCEPT ![f] = x]
    <3>1. PICK x \in JobRow : x.pc = "read" /\ job' = [job EXCEPT ![f] = x]
      BY <2>2
    <3>2. job' \in [PhotoId -> JobRow] /\ job'[f] = x /\ \A g \in PhotoId : g # f => job'[g] = job[g]
      BY <3>1 DEF LibraryInv, JobsOK
    <3> QED
      BY <1>8, <1>9, <3>1, <3>2 DEF LibraryInv, JobsOK
  <2> QED
    BY <2>1, <2>2
<1>11. setting' \in Settings /\ now' \in Time /\ First <= now' /\ now' <= First + DayLength * setting'.days
  BY <1>1 DEF LibraryInv
<1> QED
  BY <1>1, <1>6, <1>7, <1>10, <1>11 DEF LibraryInv

LEMMA ChosenFrom == Uploaders \subseteq Users /\ Uploaded \subseteq Models \cup {None}
<1>1. Users # {} /\ Models # {}
  BY LibraryAssumption
<1> QED
  BY <1>1 DEF Uploaders, Uploaded

LEMMA UploadOK ==
  ASSUME LibraryInv, NEW f \in PhotoId, NEW u \in Users, NEW m \in Models \cup {None}, NEW s \in {"PENDING", "PARSED"},
         Upload(f, u, m, s)
  PROVE  LibraryInv' /\ PhotosKept /\ now' = now
<1>1. PICK x : x = [NoPhoto EXCEPT !.owner = u, !.model = m, !.status = s, !.created = now]
  OBVIOUS
<1>2. now \in Time
  BY DEF LibraryInv
<1>3. x \in PhotoRow /\ x.owner = u /\ x.type = "RAW"
  BY <1>1, <1>2 DEF NoPhoto, PhotoRow
<1>4. Change(f, x) /\ ~Has(f)
  BY <1>1 DEF Upload
<1>5. PICK j : j = [pc |-> "read", left |-> Attempts]
  OBVIOUS
<1>6. j \in JobRow /\ j.pc = "read"
  BY <1>5, NumbersAre DEF JobRow
<1>7. job' = [job EXCEPT ![f] = j]
  BY <1>5 DEF Upload
<1> QED
  BY <1>3, <1>4, <1>6, <1>7, ChangeOK

LEMMA UploadBookingOK ==
  ASSUME LibraryInv, NEW f \in PhotoId, NEW u \in Users, UploadBooking(f, u)
  PROVE  LibraryInv' /\ PhotosKept /\ now' = now
<1>1. PICK x : x = [NoPhoto EXCEPT !.owner = u, !.type = "BOOKING", !.booked = TRUE, !.status = "PARSED", !.created = now]
  OBVIOUS
<1>2. now \in Time
  BY DEF LibraryInv
<1>3. x \in PhotoRow /\ x.owner = u /\ x.sales = {}
  BY <1>1, <1>2 DEF NoPhoto, PhotoRow
<1>4. Change(f, x) /\ ~Has(f) /\ job' = job
  BY <1>1 DEF UploadBooking
<1> QED
  BY <1>3, <1>4, ChangeOK

\* The row of a photo there is.
LEMMA LiveIs ==
  ASSUME LibraryInv, NEW f \in PhotoId, Live(f)
  PROVE  /\ photo[f] \in PhotoRow /\ photo[f].owner \in Users /\ photo[f].deleted = 0
         /\ ~May("retype") /\ photo[f].sales # {} => photo[f].type = "RAW"
BY DEF LibraryInv, PhotosOK, PhotoOK, Live, Has

LEMMA RetypeOK ==
  ASSUME LibraryInv, NEW f \in PhotoId, Retype(f)
  PROVE  LibraryInv' /\ PhotosKept /\ now' = now
<1>1. PICK t \in {"RAW", "BOOKING"} : Change(f, [photo[f] EXCEPT !.type = t])
  BY DEF Retype
<1>2. PICK x \in PhotoRow : x = photo[f] /\ x.owner \in Users
  BY LiveIs DEF Retype
<1>3. PICK y : y = [x EXCEPT !.type = t]
  OBVIOUS
<1>4. y \in PhotoRow /\ y.owner = x.owner /\ y.model = x.model /\ y.created = x.created /\ y.sales = x.sales /\ y.deleted = x.deleted
  BY <1>3 DEF PhotoRow
<1>5. May("retype") /\ job' = job
  BY DEF Retype
<1>6. Keeps(photo[f], y)
  BY <1>2, <1>4, <1>5 DEF Keeps
<1> QED
  BY <1>1, <1>2, <1>3, <1>4, <1>5, <1>6, ChangeOK

LEMMA HideOK ==
  ASSUME LibraryInv, NEW f \in PhotoId, Hide(f)
  PROVE  LibraryInv' /\ PhotosKept /\ now' = now
<1>1. PICK v \in {"PUBLIC", "PRIVATE"} : Change(f, [photo[f] EXCEPT !.visibility = v])
  BY DEF Hide
<1>2. PICK x \in PhotoRow : x = photo[f] /\ x.owner \in Users /\ (~May("retype") /\ x.sales # {} => x.type = "RAW")
  BY LiveIs DEF Hide
<1>3. PICK y : y = [x EXCEPT !.visibility = v]
  OBVIOUS
<1>4. /\ y \in PhotoRow /\ y.owner = x.owner /\ y.model = x.model /\ y.created = x.created /\ y.sales = x.sales
      /\ y.deleted = x.deleted /\ y.type = x.type
  BY <1>3 DEF PhotoRow
<1>5. job' = job
  BY DEF Hide
<1>6. Keeps(photo[f], y)
  BY <1>2, <1>4 DEF Keeps
<1> QED
  BY <1>1, <1>2, <1>3, <1>4, <1>5, <1>6, ChangeOK

LEMMA SellPhotoOK ==
  ASSUME LibraryInv, NEW f \in PhotoId, SellPhoto(f)
  PROVE  LibraryInv' /\ PhotosKept /\ now' = now
<1>1. PICK x \in PhotoRow : x = photo[f] /\ x.owner \in Users /\ x.type = "RAW"
  BY LiveIs DEF SellPhoto
<1>2. now \in Time
  BY DEF LibraryInv
<1>3. PICK s \in SUBSET Time : s = x.sales \cup {now}
  BY <1>2 DEF PhotoRow
<1>4. PICK y : y = [x EXCEPT !.sales = s, !.active = TRUE, !.visibility = "PUBLIC"]
  OBVIOUS
<1>5. /\ y \in PhotoRow /\ y.owner = x.owner /\ y.model = x.model /\ y.created = x.created /\ y.sales = s
      /\ y.deleted = x.deleted /\ y.type = x.type
  BY <1>4 DEF PhotoRow
<1>6. job' = job
  BY DEF SellPhoto
<1>7. Keeps(photo[f], y)
  BY <1>1, <1>3, <1>5 DEF Keeps
<1>8. Change(f, y)
  BY <1>1, <1>3, <1>4 DEF SellPhoto
<1> QED
  BY <1>1, <1>5, <1>6, <1>7, <1>8, ChangeOK

LEMMA StopSellingPhotoOK ==
  ASSUME LibraryInv, NEW f \in PhotoId, StopSellingPhoto(f)
  PROVE  LibraryInv' /\ PhotosKept /\ now' = now
<1>1. PICK x \in PhotoRow : x = photo[f] /\ x.owner \in Users /\ x.type = "RAW"
  BY LiveIs DEF StopSellingPhoto
<1>2. PICK y : y = [x EXCEPT !.active = FALSE, !.visibility = "PRIVATE"]
  OBVIOUS
<1>3. /\ y \in PhotoRow /\ y.owner = x.owner /\ y.model = x.model /\ y.created = x.created /\ y.sales = x.sales
      /\ y.deleted = x.deleted /\ y.type = x.type
  BY <1>2 DEF PhotoRow
<1>4. job' = job
  BY DEF StopSellingPhoto
<1>5. Keeps(photo[f], y)
  BY <1>1, <1>3 DEF Keeps
<1>6. Change(f, y)
  BY <1>1, <1>2 DEF StopSellingPhoto
<1> QED
  BY <1>1, <1>3, <1>4, <1>5, <1>6, ChangeOK

LEMMA JudgeOK ==
  ASSUME LibraryInv, NEW f \in PhotoId, Judge(f)
  PROVE  LibraryInv' /\ PhotosKept /\ now' = now
<1>1. PICK s \in {"PARSED", "DUPLICATED", "BAN"} : Change(f, [photo[f] EXCEPT !.status = s])
  BY DEF Judge
<1>2. PICK x \in PhotoRow : x = photo[f] /\ x.owner \in Users /\ (~May("retype") /\ x.sales # {} => x.type = "RAW")
  BY LiveIs DEF Judge
<1>3. PICK y : y = [x EXCEPT !.status = s]
  OBVIOUS
<1>4. /\ y \in PhotoRow /\ y.owner = x.owner /\ y.model = x.model /\ y.created = x.created /\ y.sales = x.sales
      /\ y.deleted = x.deleted /\ y.type = x.type
  BY <1>3 DEF PhotoRow
<1>5. job' = job
  BY DEF Judge
<1>6. Keeps(photo[f], y)
  BY <1>2, <1>4 DEF Keeps
<1> QED
  BY <1>1, <1>2, <1>3, <1>4, <1>5, <1>6, ChangeOK

LEMMA DeletePhotoOK ==
  ASSUME LibraryInv, NEW f \in PhotoId, DeletePhoto(f)
  PROVE  LibraryInv' /\ PhotosKept /\ now' = now
<1>1. now \in Time /\ May("delete") /\ job' = job
  BY DEF LibraryInv, DeletePhoto
<1>2. PICK x \in PhotoRow : x = photo[f] /\ x.owner \in Users /\ (~May("retype") /\ x.sales # {} => x.type = "RAW")
  BY LiveIs DEF DeletePhoto
<1>3. PICK y : y = [x EXCEPT !.deleted = now, !.active = FALSE]
  OBVIOUS
<1>4. /\ y \in PhotoRow /\ y.owner = x.owner /\ y.model = x.model /\ y.created = x.created /\ y.sales = x.sales
      /\ y.type = x.type
  BY <1>1, <1>3 DEF PhotoRow
<1>5. Keeps(photo[f], y)
  BY <1>1, <1>2, <1>4 DEF Keeps
<1>6. Change(f, y)
  BY <1>2, <1>3 DEF DeletePhoto
<1> QED
  BY <1>1, <1>2, <1>4, <1>5, <1>6, ChangeOK

LEMMA PhotoStepOK ==
  ASSUME LibraryInv, PhotoStep
  PROVE  LibraryInv' /\ PhotosKept /\ now' = now
<1>1. PICK f \in PhotoId :
        \/ \E u \in Uploaders, m \in Uploaded, s \in FirstStatus : Upload(f, u, m, s)
        \/ \E u \in Uploaders : UploadBooking(f, u)
        \/ Retype(f) \/ Hide(f) \/ SellPhoto(f) \/ StopSellingPhoto(f) \/ Judge(f) \/ DeletePhoto(f)
  BY DEF PhotoStep
<1>2. FirstStatus \subseteq {"PENDING", "PARSED"}
  BY DEF FirstStatus
<1>3. ASSUME NEW u \in Uploaders, NEW m \in Uploaded, NEW s \in FirstStatus, Upload(f, u, m, s)
      PROVE  LibraryInv' /\ PhotosKept /\ now' = now
  BY <1>2, <1>3, ChosenFrom, UploadOK
<1>4. ASSUME NEW u \in Uploaders, UploadBooking(f, u)
      PROVE  LibraryInv' /\ PhotosKept /\ now' = now
  BY <1>4, ChosenFrom, UploadBookingOK
<1> QED
  BY <1>1, <1>3, <1>4, RetypeOK, HideOK, SellPhotoOK, StopSellingPhotoOK, JudgeOK, DeletePhotoOK

LEMMA LibraryBegins == LibraryInit => LibraryInv
<1> SUFFICES ASSUME LibraryInit PROVE LibraryInv
  OBVIOUS
<1>1. setting \in Settings /\ now = First
  BY DEF LibraryInit
<1>2. setting \in [kinds : SUBSET Kinds, photos : 0..MaxPhotos, days : 0..MaxDays, during : BOOLEAN]
  BY <1>1, LibraryAssumption
<1>3. setting.days \in Nat
  BY <1>2, NumbersAre
<1>4. DayLength * setting.days \in Nat
  BY <1>3, NumbersAre
<1>5. now \in Time /\ First <= now /\ now <= First + DayLength * setting.days
  BY <1>1, <1>4, NumbersAre
<1>6. photo \in [PhotoId -> PhotoRow] /\ \A f \in PhotoId : photo[f] = NoPhoto
  BY NoPhotoIs DEF LibraryInit
<1>7. NoJob \in JobRow /\ NoJob.pc = "none"
  BY NumbersAre DEF NoJob, JobRow
<1>8. job \in [PhotoId -> JobRow] /\ \A f \in PhotoId : job[f].pc = "none"
  BY <1>7 DEF LibraryInit
<1> QED
  BY <1>1, <1>5, <1>6, <1>8 DEF LibraryInv, PhotosOK, PhotoOK, JobsOK

-----------------------------------------------------------------------------
(* Cameras *)

CameraRow == [name : Models \cup {None}, created : {0} \cup Time, deleted : BOOLEAN]
CronRow == [pc : {"idle", "timeline", "points"}, left : Seq(Time)]
PointRow == [camera : CameraId, timestamp : Time, count : Nat]

\* Names are unique, and every camera has one.
CameraOK ==
  /\ camera \in [CameraId -> CameraRow]
  /\ \A c \in CameraId : camera[c] # NoCamera => camera[c].name # None
  /\ \A c, d \in CameraId : camera[c].name = camera[d].name => c = d \/ camera[c] = NoCamera
  /\ cameraOf \in [PhotoId -> {0} \cup CameraId]
  /\ \A f \in PhotoId : job[f].pc = "count" => cameraOf[f] \in CameraId

\* The moments that are left are not in the future; the one whose points are next has a timeline.
CronOK ==
  /\ cron \in CronRow
  /\ cron.pc # "idle" => cron.left # <<>>
  /\ \A k \in DOMAIN cron.left : cron.left[k] <= now
  /\ cron.pc = "points" => Head(cron.left) \in timeline
  /\ timeline \subseteq Time

\* Who was a user of the point's camera before its moment, and who became one on the same day.
Before(q) == {u \in Users : joined[q.camera][u] \in 1..(q.timestamp - 1)}
Won(q, u) == {v \in Before(q) : Day(joined[q.camera][v]) = Day(joined[q.camera][u])}
PointOK(q) ==
  /\ q \in PointRow /\ q.timestamp \in timeline /\ q.timestamp <= now
  /\ \E u \in Before(q) : Cardinality(Won(q, u)) = q.count
  /\ \A u \in Before(q) : Cardinality(Won(q, u)) <= q.count

PointsOK ==
  /\ joined \in [CameraId -> [Users -> {0} \cup Time]]
  /\ \A q \in point : PointOK(q)

CamerasInv == CameraOK /\ CronOK /\ PointsOK

LEMMA CamerasBegin == CamerasInit /\ LibraryInit => CamerasInv
<1> SUFFICES ASSUME CamerasInit, LibraryInit PROVE CamerasInv
  OBVIOUS
<1>1. NoCamera \in CameraRow
  BY DEF NoCamera, CameraRow
<1>2. camera \in [CameraId -> CameraRow] /\ \A c \in CameraId : camera[c] = NoCamera
  BY <1>1 DEF CamerasInit
<1>3. cameraOf \in [PhotoId -> {0} \cup CameraId]
  BY DEF CamerasInit
<1>4. \A f \in PhotoId : job[f].pc = "none"
  BY DEF LibraryInit, NoJob
<1>5. CameraOK
  BY <1>2, <1>3, <1>4 DEF CameraOK
<1>6. cron.pc = "idle" /\ cron.left = <<>> /\ cron \in CronRow
  BY DEF CamerasInit, NoCron, CronRow
<1>7. DOMAIN cron.left = {}
  BY <1>6
<1>8. timeline = {} /\ point = {}
  BY DEF CamerasInit
<1>9. CronOK
  BY <1>6, <1>7, <1>8 DEF CronOK
<1>10. joined \in [CameraId -> [Users -> {0} \cup Time]]
  BY DEF CamerasInit
<1> QED
  BY <1>5, <1>8, <1>9, <1>10 DEF CamerasInv, PointsOK

\* No step of a photo leaves its job at the point where it counts.
LEMMA PhotoStepJobs ==
  ASSUME LibraryInv, PhotoStep
  PROVE  \A g \in PhotoId : job'[g].pc = "count" => job[g].pc = "count"
<1>1. CASE job' = job
  BY <1>1
<1>2. CASE \E f \in PhotoId : job' = [job EXCEPT ![f] = [pc |-> "read", left |-> Attempts]]
  <2>1. PICK x : x = [pc |-> "read", left |-> Attempts]
    OBVIOUS
  <2>2. x.pc = "read" /\ \E f \in PhotoId : job' = [job EXCEPT ![f] = x]
    BY <1>2, <2>1
  <2>3. job \in [PhotoId -> JobRow]
    BY DEF LibraryInv, JobsOK
  <2> QED
    BY <2>1, <2>2, <2>3
<1> QED
  BY <1>1, <1>2 DEF PhotoStep, Upload, UploadBooking, Retype, Hide, SellPhoto, StopSellingPhoto, Judge, DeletePhoto

\* Time passes, and photos change.
LEMMA CamerasLater ==
  ASSUME LibraryInv, CamerasInv, UNCHANGED cameraVars, now <= now', now' \in Time,
         \A g \in PhotoId : job'[g].pc = "count" => job[g].pc = "count"
  PROVE  CamerasInv'
<1> USE DEF cameraVars
<1>1. CameraOK'
  BY DEF CamerasInv, CameraOK
<1>2. now \in Nat /\ now' \in Nat
  BY NumbersAre DEF LibraryInv
<1>3. \A k \in DOMAIN cron.left : cron.left[k] \in Nat
  <2>1. cron.left \in Seq(Time)
    BY DEF CamerasInv, CronOK, CronRow
  <2>2. \A k \in DOMAIN cron.left : cron.left[k] \in Time
    BY <2>1
  <2> QED
    BY <2>2, NumbersAre
<1>4. CronOK'
  BY <1>2, <1>3 DEF CamerasInv, CronOK
<1>5. ASSUME NEW q \in point PROVE PointOK(q)'
  <2>1. PointOK(q)
    BY DEF CamerasInv, PointsOK
  <2>2. q.timestamp \in Nat
    BY <2>1, NumbersAre DEF PointOK, PointRow
  <2>3. q.timestamp <= now'
    BY <1>2, <2>1, <2>2 DEF PointOK
  <2> QED
    BY <2>1, <2>3 DEF PointOK, Before, Won
<1> QED
  BY <1>1, <1>4, <1>5 DEF CamerasInv, PointsOK

LEMMA CamerasWait ==
  ASSUME LibraryInv, CamerasInv, Tick \/ PhotoStep, UNCHANGED cameraVars
  PROVE  CamerasInv'
<1>1. CASE Tick
  <2>1. now <= now' /\ now' \in Time /\ job' = job
    BY <1>1, TickOK DEF LibraryInv, Tick
  <2> QED
    BY <2>1, CamerasLater
<1>2. CASE PhotoStep
  <2>1. now' = now /\ now \in Time /\ now <= now
    BY <1>2, PhotoStepOK, NumbersAre DEF LibraryInv
  <2> QED
    BY <1>2, <2>1, PhotoStepJobs, CamerasLater
<1> QED
  BY <1>1, <1>2

LEMMA CamerasStill ==
  ASSUME LibraryInv, CamerasInv, UNCHANGED <<libraryVars, cameraVars>>
  PROVE  CamerasInv'
<1>1. now \in Time /\ now' = now /\ job' = job
  BY DEF LibraryInv, libraryVars
<1>2. now <= now'
  BY <1>1, NumbersAre
<1> QED
  BY <1>1, <1>2, CamerasLater

LEMMA LibraryStill ==
  ASSUME LibraryInv, UNCHANGED libraryVars
  PROVE  LibraryInv'
BY DEF libraryVars, LibraryInv, PhotosOK, PhotoOK, JobsOK, Has, May

\* A step of a job.
LEMMA JobStepOK ==
  ASSUME LibraryInv, UNCHANGED <<setting, now, photo>>, NEW f \in PhotoId, NEW x \in JobRow,
         job' = [job EXCEPT ![f] = x], x.pc # "none" => Has(f), x.pc = "connect" => photo[f].model # None
  PROVE  LibraryInv' /\ job'[f] = x /\ \A g \in PhotoId : g # f => job'[g] = job[g]
<1>1. job' \in [PhotoId -> JobRow] /\ job'[f] = x /\ \A g \in PhotoId : g # f => job'[g] = job[g]
  BY DEF LibraryInv, JobsOK
<1>2. JobsOK'
  BY <1>1 DEF LibraryInv, JobsOK, Has
<1>3. PhotosOK'
  BY DEF LibraryInv, PhotosOK, PhotoOK, May
<1> QED
  BY <1>1, <1>2, <1>3 DEF LibraryInv

\* Steps that leave the points alone, and the statistics.
LEMMA PointsStill ==
  ASSUME CamerasInv, UNCHANGED <<now, joined, timeline, point>>
  PROVE  PointsOK'
<1>1. ASSUME NEW q \in point PROVE PointOK(q)'
  BY DEF CamerasInv, PointsOK, PointOK, Before, Won
<1> QED
  BY <1>1 DEF CamerasInv, PointsOK

LEMMA StatisticsStill ==
  ASSUME CamerasInv, UNCHANGED <<now, joined, timeline, point, cron>>
  PROVE  CronOK' /\ PointsOK'
<1>1. CronOK'
  BY DEF CamerasInv, CronOK
<1> QED
  BY <1>1, PointsStill

LEMMA ReadPhotoOK ==
  ASSUME LibraryInv, CamerasInv, NEW f \in PhotoId, ReadPhoto(f)
  PROVE  LibraryInv' /\ CamerasInv'
<1>1. PICK y \in JobRow : y = job[f]
  BY DEF LibraryInv, JobsOK
<1>2. PICK x : x = [y EXCEPT !.pc = "connect"]
  OBVIOUS
<1>3. x \in JobRow /\ x.pc = "connect"
  BY <1>2 DEF JobRow
<1>4. job' = [job EXCEPT ![f] = x] /\ Has(f) /\ photo[f].model # None /\ UNCHANGED <<setting, now, photo, cameraVars>>
  BY <1>1, <1>2 DEF ReadPhoto, Goto, Live, LibraryInv, JobsOK
<1>5. LibraryInv' /\ job'[f] = x /\ \A g \in PhotoId : g # f => job'[g] = job[g]
  BY <1>3, <1>4, JobStepOK
<1>6. CronOK' /\ PointsOK'
  BY <1>4, StatisticsStill DEF cameraVars
<1>7. CameraOK'
  BY <1>3, <1>4, <1>5 DEF CamerasInv, CameraOK, cameraVars
<1> QED
  BY <1>5, <1>6, <1>7 DEF CamerasInv

LEMMA ConnectOK ==
  ASSUME LibraryInv, CamerasInv, NEW f \in PhotoId, Connect(f)
  PROVE  LibraryInv' /\ CamerasInv'
<1>1. PICK y \in JobRow : y = job[f] /\ y.pc = "connect"
  BY DEF LibraryInv, JobsOK, Connect, JobAt
<1>2. PICK x : x = [y EXCEPT !.pc = "count"]
  OBVIOUS
<1>3. x \in JobRow /\ x.pc = "count"
  BY <1>2 DEF JobRow
<1>4. Has(f) /\ photo[f].model # None /\ photo[f].model \in Models \cup {None}
  BY <1>1 DEF LibraryInv, JobsOK, PhotosOK, PhotoRow
<1>5. job' = [job EXCEPT ![f] = x] /\ UNCHANGED <<setting, now, photo, joined, timeline, point, cron>>
  BY <1>1, <1>2 DEF Connect, Goto, LibraryInv, JobsOK
<1>6. LibraryInv' /\ job'[f] = x /\ \A g \in PhotoId : g # f => job'[g] = job[g]
  BY <1>3, <1>4, <1>5, JobStepOK
<1>7. CronOK' /\ PointsOK'
  BY <1>5, StatisticsStill
<1>8. PICK c \in CameraId :
        /\ \/ Named(c, photo[f].model) /\ UNCHANGED camera
           \/ /\ camera[c] = NoCamera /\ \A d \in CameraId : ~Named(d, photo[f].model)
              /\ \A d \in 1..(c - 1) : camera[d] # NoCamera
              /\ camera' = [camera EXCEPT ![c] = [name |-> photo[f].model, created |-> now, deleted |-> FALSE]]
        /\ cameraOf' = [cameraOf EXCEPT ![f] = c]
  BY DEF Connect
<1>9. /\ cameraOf' \in [PhotoId -> {0} \cup CameraId]
      /\ \A g \in PhotoId : job'[g].pc = "count" => cameraOf'[g] \in CameraId
  BY <1>6, <1>8 DEF CamerasInv, CameraOK
<1>10. CASE UNCHANGED camera
  BY <1>6, <1>7, <1>9, <1>10 DEF CamerasInv, CameraOK
<1>11. CASE /\ camera[c] = NoCamera /\ \A d \in CameraId : ~Named(d, photo[f].model)
            /\ camera' = [camera EXCEPT ![c] = [name |-> photo[f].model, created |-> now, deleted |-> FALSE]]
  <2>1. PICK r : r = [name |-> photo[f].model, created |-> now, deleted |-> FALSE]
    OBVIOUS
  <2>2. now \in Time
    BY DEF LibraryInv
  <2>3. r \in CameraRow /\ r.name = photo[f].model
    BY <1>4, <2>1, <2>2 DEF CameraRow
  <2>4. camera' = [camera EXCEPT ![c] = r]
    BY <1>11, <2>1
  <2>5. camera' \in [CameraId -> CameraRow] /\ camera'[c] = r /\ \A d \in CameraId : d # c => camera'[d] = camera[d]
    BY <2>3, <2>4 DEF CamerasInv, CameraOK
  <2>6. \A d \in CameraId : camera[d].name = r.name => camera[d] = NoCamera
    BY <1>11, <2>3 DEF Named
  <2>7. NoCamera.name = None
    BY DEF NoCamera
  <2>8. \A d \in CameraId : camera[d].name # r.name
    BY <1>4, <2>3, <2>6, <2>7
  <2>9. \A d, e \in CameraId : camera'[d].name = camera'[e].name => d = e \/ camera'[d] = NoCamera
    <3>1. SUFFICES ASSUME NEW d \in CameraId, NEW e \in CameraId, camera'[d].name = camera'[e].name, d # e
                   PROVE  camera'[d] = NoCamera
      OBVIOUS
    <3>2. d # c /\ e # c
      BY <2>5, <2>8, <3>1
    <3> QED
      BY <2>5, <3>1, <3>2 DEF CamerasInv, CameraOK
  <2>10. \A d \in CameraId : camera'[d] # NoCamera => camera'[d].name # None
    BY <1>4, <2>3, <2>5 DEF CamerasInv, CameraOK
  <2> QED
    BY <1>6, <1>7, <1>9, <2>5, <2>9, <2>10 DEF CamerasInv, CameraOK
<1> QED
  BY <1>8, <1>10, <1>11

LEMMA FailJobOK ==
  ASSUME LibraryInv, CamerasInv, NEW f \in PhotoId, FailJob(f)
  PROVE  LibraryInv' /\ CamerasInv'
<1>1. PICK y \in JobRow : y = job[f] /\ y.pc # "none"
  BY DEF LibraryInv, JobsOK, FailJob, JobAt
<1>2. y.left \in 0..Attempts /\ Attempts \in Nat
  BY NumbersAre DEF JobRow
<1>3. PICK x \in JobRow : x.pc \in {"none", "read"} /\ x = IF y.left > 1 THEN [pc |-> "read", left |-> y.left - 1] ELSE NoJob
  <2>1. CASE y.left > 1
    <3>1. y.left - 1 \in 0..Attempts
      BY <1>2, <2>1
    <3> QED
      BY <2>1, <3>1 DEF JobRow
  <2>2. CASE ~(y.left > 1)
    <3>1. 0 \in 0..Attempts
      BY <1>2
    <3> QED
      BY <2>2, <3>1 DEF JobRow, NoJob
  <2> QED
    BY <2>1, <2>2
<1>4. job' = [job EXCEPT ![f] = x] /\ UNCHANGED <<setting, now, photo, cameraVars>>
  BY <1>1, <1>3 DEF FailJob, LibraryInv, JobsOK
<1>5. Has(f)
  BY <1>1 DEF LibraryInv, JobsOK
<1>6. LibraryInv' /\ job'[f] = x /\ \A g \in PhotoId : g # f => job'[g] = job[g]
  BY <1>3, <1>4, <1>5, JobStepOK
<1>7. CronOK' /\ PointsOK'
  BY <1>4, StatisticsStill DEF cameraVars
<1>8. CameraOK'
  BY <1>3, <1>4, <1>6 DEF CamerasInv, CameraOK, cameraVars
<1> QED
  BY <1>6, <1>7, <1>8 DEF CamerasInv

\* An upsert never changes who was a user before a moment that has passed.
LEMMA CountUserOK ==
  ASSUME LibraryInv, CamerasInv, NEW f \in PhotoId, CountUser(f)
  PROVE  LibraryInv' /\ CamerasInv'
<1>1. PICK c \in CameraId : c = cameraOf[f]
  BY DEF CamerasInv, CameraOK, CountUser, JobAt
<1>2. PICK u \in Users : u = photo[f].owner
  BY DEF LibraryInv, PhotosOK, PhotoOK, JobsOK, Has, CountUser, JobAt
<1>3. now \in Time
  BY DEF LibraryInv
<1>4. PICK t \in {0} \cup Time : t = joined[c][u]
  BY DEF CamerasInv, PointsOK
<1>5. PICK s \in {0} \cup Time : s = IF t = 0 THEN now ELSE t
  BY <1>3, <1>4
<1>6. joined' = [joined EXCEPT ![c][u] = s]
  BY <1>1, <1>2, <1>4, <1>5 DEF CountUser, CamerasInv, PointsOK
<1>7. joined' \in [CameraId -> [Users -> {0} \cup Time]] /\ joined'[c][u] = s
  BY <1>5, <1>6 DEF CamerasInv, PointsOK
<1>8. \A d \in CameraId, v \in Users : d # c \/ v # u => joined'[d][v] = joined[d][v]
  BY <1>6 DEF CamerasInv, PointsOK
<1>9. NoJob \in JobRow /\ NoJob.pc = "none"
  BY NumbersAre DEF NoJob, JobRow
<1>10. job' = [job EXCEPT ![f] = NoJob] /\ UNCHANGED <<setting, now, photo, camera, cameraOf, timeline, point, cron>>
  BY DEF CountUser
<1>11. LibraryInv' /\ job'[f] = NoJob /\ \A g \in PhotoId : g # f => job'[g] = job[g]
  BY <1>9, <1>10, JobStepOK
<1>12. CameraOK'
  BY <1>9, <1>10, <1>11 DEF CamerasInv, CameraOK
<1>13. CronOK'
  BY <1>10 DEF CamerasInv, CronOK
<1>14. ASSUME NEW q \in point PROVE PointOK(q)'
  <2>1. PointOK(q)
    BY DEF CamerasInv, PointsOK
  <2>2. q.timestamp \in Nat /\ q.timestamp <= now /\ q.camera \in CameraId /\ now \in Nat
    BY <1>3, <2>1, NumbersAre DEF PointOK, PointRow
  <2>3. \A v \in Users : joined[q.camera][v] \in 1..(q.timestamp - 1) \/ joined'[q.camera][v] \in 1..(q.timestamp - 1)
                           => joined'[q.camera][v] = joined[q.camera][v]
    <3>1. SUFFICES ASSUME s # t PROVE s \notin 1..(q.timestamp - 1) /\ t \notin 1..(q.timestamp - 1)
      BY <1>4, <1>7, <1>8, <2>2
    <3>2. t = 0 /\ s = now
      BY <1>5, <3>1
    <3> QED
      BY <2>2, <3>2
  <2>4. Before(q)' = Before(q)
    BY <1>10, <2>3 DEF Before
  <2>5. \A v \in Before(q) : joined'[q.camera][v] = joined[q.camera][v]
    BY <2>3 DEF Before
  <2>6. \A v \in Before(q) : Won(q, v)' = Won(q, v)
    BY <2>4, <2>5 DEF Won, Day
  <2> QED
    BY <1>10, <2>1, <2>4, <2>6 DEF PointOK
<1> QED
  BY <1>7, <1>10, <1>11, <1>12, <1>13, <1>14 DEF CamerasInv, PointsOK

LEMMA UpdateCameraOK ==
  ASSUME LibraryInv, CamerasInv, NEW c \in CameraId, NEW m \in Models, UpdateCamera(c, m)
  PROVE  LibraryInv' /\ CamerasInv'
<1>1. UNCHANGED <<libraryVars, cameraOf, joined, timeline, point, cron>>
  BY DEF UpdateCamera
<1>2. LibraryInv' /\ CronOK' /\ PointsOK'
  BY <1>1, LibraryStill, StatisticsStill DEF libraryVars
<1>3. PICK x \in CameraRow : x = camera[c]
  BY DEF CamerasInv, CameraOK
<1>4. PICK r : r = [x EXCEPT !.name = m]
  OBVIOUS
<1>5. r \in CameraRow /\ r.name = m
  BY <1>4 DEF CameraRow
<1>6. camera' = [camera EXCEPT ![c] = r] /\ camera \in [CameraId -> CameraRow]
  BY <1>3, <1>4 DEF UpdateCamera, CamerasInv, CameraOK
<1>7. camera' \in [CameraId -> CameraRow] /\ camera'[c] = r /\ \A d \in CameraId : d # c => camera'[d] = camera[d]
  BY <1>5, <1>6
<1>8. NoCamera.name = None /\ m # None
  BY LibraryAssumption DEF NoCamera
<1>9. \A d \in CameraId : d # c => camera[d].name # m
  BY <1>8 DEF UpdateCamera, Named
<1>10. \A d, e \in CameraId : camera'[d].name = camera'[e].name => d = e \/ camera'[d] = NoCamera
  <2>1. SUFFICES ASSUME NEW d \in CameraId, NEW e \in CameraId, camera'[d].name = camera'[e].name, d # e
                 PROVE  camera'[d] = NoCamera
    OBVIOUS
  <2>2. d # c /\ e # c
    BY <1>5, <1>7, <1>9, <2>1
  <2> QED
    BY <1>7, <2>1, <2>2 DEF CamerasInv, CameraOK
<1>11. CameraOK'
  BY <1>1, <1>5, <1>7, <1>8, <1>10 DEF CamerasInv, CameraOK, libraryVars
<1> QED
  BY <1>2, <1>11 DEF CamerasInv

LEMMA DeleteCameraOK ==
  ASSUME LibraryInv, CamerasInv, NEW c \in CameraId, DeleteCamera(c)
  PROVE  LibraryInv' /\ CamerasInv'
<1>1. UNCHANGED <<libraryVars, cameraOf, joined, timeline, point, cron>>
  BY DEF DeleteCamera
<1>2. LibraryInv' /\ CronOK' /\ PointsOK'
  BY <1>1, LibraryStill, StatisticsStill DEF libraryVars
<1>3. PICK x \in CameraRow : x = camera[c] /\ x # NoCamera
  BY DEF CamerasInv, CameraOK, DeleteCamera
<1>4. PICK r : r = [x EXCEPT !.deleted = TRUE]
  OBVIOUS
<1>5. r \in CameraRow /\ r.name = x.name
  BY <1>4 DEF CameraRow
<1>6. camera' = [camera EXCEPT ![c] = r] /\ camera \in [CameraId -> CameraRow]
  BY <1>3, <1>4 DEF DeleteCamera, CamerasInv, CameraOK
<1>7. camera' \in [CameraId -> CameraRow] /\ camera'[c] = r /\ \A d \in CameraId : d # c => camera'[d] = camera[d]
  BY <1>5, <1>6
<1>8. x.name # None
  BY <1>3 DEF CamerasInv, CameraOK
<1>9. \A d \in CameraId : camera'[d].name = camera[d].name /\ (camera[d] = NoCamera => camera'[d] = NoCamera)
  BY <1>3, <1>5, <1>7
<1>10. CameraOK'
  BY <1>1, <1>3, <1>5, <1>7, <1>8, <1>9 DEF CamerasInv, CameraOK, libraryVars
<1> QED
  BY <1>2, <1>10 DEF CamerasInv

LEMMA TriggerCronOK ==
  ASSUME LibraryInv, CamerasInv, TriggerCron
  PROVE  CamerasInv'
<1>1. PICK n \in Nat : n = now
  BY NumbersAre DEF LibraryInv
<1>2. n \in Time /\ First <= n
  BY <1>1 DEF LibraryInv
<1>3. DayLength \in Nat \ {0} /\ Backfill \in Nat
  BY NumbersAre
<1>4. PICK days : days = [i \in 1..(Backfill + 1) |-> n - DayLength * (i % (Backfill + 1))]
  OBVIOUS
<1>5. ASSUME NEW i \in 1..(Backfill + 1) PROVE days[i] \in Time /\ days[i] <= n
  <2>1. PICK k \in 0..Backfill : k = i % (Backfill + 1)
    BY <1>3
  <2>2. PICK d \in Nat : d = DayLength * k
    BY <1>3, <2>1
  <2>3. k \in Nat /\ k <= Backfill
    BY <1>3, <2>1
  <2>4. d <= DayLength * Backfill /\ DayLength * Backfill \in Int
    BY <1>3, <2>2, <2>3, TimesMore
  <2>5. First = DayLength * Backfill + DayLength
    BY <1>3 DEF First
  <2>6. d < n
    BY <1>2, <1>3, <2>2, <2>4, <2>5
  <2>7. First + DayLength * (MaxDays + 1) \in Int
    BY NumbersAre
  <2>8. n - d \in Time /\ n - d <= n
    BY <1>2, <2>2, <2>6, <2>7 DEF Time
  <2> QED
    BY <1>4, <2>1, <2>2, <2>8
<1>6. days \in Seq(Time) /\ DOMAIN days = 1..(Backfill + 1)
  <2>1. PICK m \in Nat : m = Backfill + 1
    BY <1>3
  <2>2. days \in [1..m -> Time]
    BY <1>4, <1>5, <2>1
  <2>3. days \in Seq(Time)
    BY <2>2
  <2> QED
    BY <2>1, <2>2, <2>3
<1>7. days # <<>> /\ \A k \in DOMAIN days : days[k] <= n
  BY <1>3, <1>5, <1>6
<1>8. PICK one \in Seq(Time) : one = <<n>>
  <2>1. <<n>> \in Seq(Time)
    BY <1>2
  <2> QED
    BY <2>1
<1>9. one # <<>> /\ \A k \in DOMAIN one : one[k] <= n
  BY <1>1, <1>8
<1>10. PICK left \in Seq(Time) : /\ left # <<>> /\ \A k \in DOMAIN left : left[k] <= n
                                 /\ cron' = [pc |-> "timeline", left |-> left]
  <2>1. CASE Cardinality({t \in timeline : t <= now}) < Backfill
    BY <1>1, <1>4, <1>6, <1>7, <2>1 DEF TriggerCron
  <2>2. CASE ~(Cardinality({t \in timeline : t <= now}) < Backfill)
    BY <1>1, <1>8, <1>9, <2>2 DEF TriggerCron
  <2> QED
    BY <2>1, <2>2
<1>11. cron' \in CronRow /\ cron'.pc = "timeline" /\ cron'.left = left
  BY <1>10 DEF CronRow
<1>12. UNCHANGED <<libraryVars, camera, cameraOf, joined, timeline, point>>
  BY DEF TriggerCron
<1>13. CameraOK' /\ PointsOK'
  BY <1>12, PointsStill DEF CamerasInv, CameraOK, libraryVars
<1>14. CronOK'
  BY <1>1, <1>10, <1>11, <1>12 DEF CronOK, CamerasInv, libraryVars
<1> QED
  BY <1>13, <1>14 DEF CamerasInv

LEMMA UpsertTimelineOK ==
  ASSUME LibraryInv, CamerasInv, UpsertTimeline
  PROVE  CamerasInv'
<1>1. PICK x \in CronRow : x = cron /\ x.pc = "timeline"
  BY DEF CamerasInv, CronOK, UpsertTimeline
<1>2. PICK left \in Seq(Time) : left = x.left
  BY DEF CronRow
<1>3. left # <<>>
  BY <1>1, <1>2 DEF CamerasInv, CronOK
<1>4. Head(left) \in Time
  BY <1>3
<1>5. PICK y : y = [x EXCEPT !.pc = "points"]
  OBVIOUS
<1>6. y \in CronRow /\ y.pc = "points" /\ y.left = left
  BY <1>2, <1>5 DEF CronRow
<1>7. cron' = y /\ timeline' = timeline \cup {Head(left)} /\ UNCHANGED <<libraryVars, camera, cameraOf, joined, point>>
  BY <1>1, <1>2, <1>5 DEF UpsertTimeline
<1>8. CronOK'
  BY <1>1, <1>2, <1>3, <1>4, <1>6, <1>7 DEF CronOK, CamerasInv, libraryVars
<1>9. ASSUME NEW q \in point PROVE PointOK(q)'
  BY <1>7 DEF CamerasInv, PointsOK, PointOK, Before, Won, libraryVars
<1>10. CameraOK' /\ PointsOK'
  BY <1>7, <1>9 DEF CamerasInv, CameraOK, PointsOK, libraryVars
<1> QED
  BY <1>8, <1>10 DEF CamerasInv

LEMMA StopCronOK ==
  ASSUME LibraryInv, CamerasInv, StopCron
  PROVE  CamerasInv'
<1>1. UNCHANGED <<libraryVars, camera, cameraOf, joined, timeline, point>> /\ cron' = NoCron
  BY DEF StopCron
<1>2. CameraOK' /\ PointsOK'
  BY <1>1, PointsStill DEF CamerasInv, CameraOK, libraryVars
<1>3. NoCron \in CronRow /\ NoCron.pc = "idle" /\ NoCron.left = <<>>
  BY DEF NoCron, CronRow
<1>4. CronOK'
  BY <1>1, <1>3 DEF CamerasInv, CronOK
<1> QED
  BY <1>2, <1>4 DEF CamerasInv

LEMMA MaxIs ==
  ASSUME NEW S, IsFiniteSet(S), S # {}, S \subseteq Int
  PROVE  Max(S) \in S /\ \A x \in S : x <= Max(S)
<1>1. \E m \in S : \A x \in S : m >= x
  BY LargestExists
<1> QED
  BY <1>1 DEF Max

\* The users a camera won on a day are among those it won on some day.
LEMMA NewcomersAre ==
  ASSUME CamerasInv, NEW q \in PointRow, NEW day
  PROVE  Newcomers(q.camera, day, q.timestamp) = {u \in Before(q) : Day(joined[q.camera][u]) = day}
<1>1. q.camera \in CameraId /\ q.timestamp \in Nat
  BY NumbersAre DEF PointRow
<1>2. \A u \in Users : joined[q.camera][u] \in Nat
  <2>1. joined \in [CameraId -> [Users -> {0} \cup Time]]
    BY DEF CamerasInv, PointsOK
  <2>2. \A u \in Users : joined[q.camera][u] \in {0} \cup Time
    BY <1>1, <2>1
  <2>3. {0} \cup Time \subseteq Nat
    BY NumbersAre
  <2> QED
    BY <2>2, <2>3
<1>3. \A u \in Users : joined[q.camera][u] # 0 /\ joined[q.camera][u] < q.timestamp <=> joined[q.camera][u] \in 1..(q.timestamp - 1)
  BY <1>1, <1>2
<1> QED
  BY <1>3 DEF Newcomers, Before

LEMMA PointsNew ==
  ASSUME LibraryInv, CamerasInv, NEW t \in timeline, t <= now, NEW rows, IsTop(rows, Usage(t)),
         NEW q \in Points(rows, t)
  PROVE  PointOK(q)
<1>1. rows \subseteq Usage(t) /\ \A r \in rows, s \in Usage(t) \ rows : r.count >= s.count
  BY DEF IsTop
<1>2. IsFiniteSet(Users) /\ Cardinality(Users) \in Nat
  BY LibraryAssumption, FS_CardinalityType
<1>3. PICK r \in rows : q = [camera |-> r.camera, timestamp |-> t,
                             count |-> Max({s.count : s \in {s \in rows : s.camera = r.camera}})]
  BY DEF Points
<1>4. \A s \in Usage(t) : /\ s.camera \in CameraId /\ s.count \in 1..Cardinality(Users)
                          /\ s.count = Cardinality(Newcomers(s.camera, s.day, t))
  BY DEF Usage
<1>5. PICK c \in CameraId : c = r.camera
  BY <1>1, <1>4
<1>6. PICK C : C = {s.count : s \in {s \in rows : s.camera = c}}
  OBVIOUS
<1>7. C \subseteq 1..Cardinality(Users) /\ r.count \in C
  BY <1>1, <1>4, <1>5, <1>6
<1>8. IsFiniteSet(C) /\ C \subseteq Int
  <2>1. IsFiniteSet(1..Cardinality(Users))
    BY <1>2, FS_Interval
  <2>2. C \in SUBSET (1..Cardinality(Users)) /\ C \subseteq Int
    BY <1>7
  <2> QED
    BY <2>1, <2>2, FS_Subset
<1>9. Max(C) \in C /\ \A x \in C : x <= Max(C)
  BY <1>7, <1>8, MaxIs
<1>10. PICK m \in 1..Cardinality(Users) : m = Max(C)
  BY <1>7, <1>9
<1>11. q = [camera |-> c, timestamp |-> t, count |-> m]
  BY <1>3, <1>5, <1>6, <1>10
<1>12. q \in PointRow /\ q.camera = c /\ q.timestamp = t /\ q.count = m
  <2>1. t \in Time /\ m \in Nat
    BY <1>2, <1>10 DEF CamerasInv, CronOK
  <2> QED
    BY <1>11, <2>1 DEF PointRow
<1>13. PICK top \in rows : top.camera = c /\ top.count = m
  BY <1>6, <1>9, <1>10
<1>14. ASSUME NEW s \in Usage(t), s.camera = c PROVE s.count <= m
  <2>1. CASE s \in rows
    BY <1>6, <1>9, <1>10, <1>14, <2>1
  <2>2. CASE s \notin rows
    <3>1. top.count >= s.count /\ s.count \in Int
      BY <1>1, <1>4, <2>2
    <3> QED
      BY <1>10, <1>13, <3>1
  <2> QED
    BY <2>1, <2>2
<1>15. \A day : Newcomers(c, day, t) = {u \in Before(q) : Day(joined[c][u]) = day}
  BY <1>12, NewcomersAre
<1>16. \A u \in Before(q) : Won(q, u) = Newcomers(c, Day(joined[c][u]), t)
  BY <1>12, <1>15 DEF Won
<1>17. \E u \in Before(q) : Cardinality(Won(q, u)) = m
  <2>1. m = Cardinality(Newcomers(c, top.day, t)) /\ m # 0
    BY <1>1, <1>4, <1>10, <1>13
  <2>2. Newcomers(c, top.day, t) # {}
    BY <2>1, FS_EmptySet
  <2>3. PICK u \in Before(q) : Day(joined[c][u]) = top.day
    BY <1>15, <2>2
  <2> QED
    BY <1>16, <2>1, <2>3
<1>18. ASSUME NEW u \in Before(q) PROVE Cardinality(Won(q, u)) <= m
  <2>1. PICK d : d = Day(joined[c][u])
    OBVIOUS
  <2>2. PICK N : N = Newcomers(c, d, t)
    OBVIOUS
  <2>3. u \in N /\ N \subseteq Users
    BY <1>15, <2>1, <2>2 DEF Newcomers
  <2>4. IsFiniteSet(N) /\ Cardinality(N) <= Cardinality(Users) /\ Cardinality(N) \in Nat /\ Cardinality(N) # 0
    <3>1. IsFiniteSet(N) /\ Cardinality(N) <= Cardinality(Users)
      BY <1>2, <2>3, FS_Subset
    <3> QED
      BY <2>3, <3>1, FS_CardinalityType, FS_EmptySet
  <2>5. PICK n \in 1..Cardinality(Users) : n = Cardinality(N)
    BY <1>2, <2>4
  <2>6. joined[c][u] \in Time
    <3>1. joined[c][u] \in {0} \cup Time /\ joined[c][u] \in 1..(t - 1)
      BY <1>12 DEF CamerasInv, PointsOK, Before
    <3> QED
      BY <3>1
  <2>7. d \in {Day(x) : x \in Time}
    BY <2>1, <2>6
  <2>8. PICK s : s = [camera |-> c, day |-> d, count |-> n]
    OBVIOUS
  <2>9. s \in Usage(t) /\ s.camera = c /\ s.count = n
    BY <2>2, <2>5, <2>7, <2>8 DEF Usage
  <2>10. n <= m
    BY <1>14, <2>9
  <2> QED
    BY <1>16, <2>1, <2>2, <2>5, <2>10
<1> QED
  BY <1>12, <1>17, <1>18 DEF PointOK

LEMMA UpsertPointsOK ==
  ASSUME LibraryInv, CamerasInv, UpsertPoints
  PROVE  CamerasInv'
<1>1. PICK x \in CronRow : x = cron /\ x.pc = "points"
  BY DEF CamerasInv, CronOK, UpsertPoints
<1>2. PICK left \in Seq(Time) : left = x.left
  BY DEF CronRow
<1>3. left # <<>> /\ Head(left) \in timeline /\ \A k \in DOMAIN left : left[k] <= now
  BY <1>1, <1>2 DEF CamerasInv, CronOK
<1>4. Head(left) = left[1] /\ 1 \in DOMAIN left
  BY <1>3
<1>5. PICK t \in timeline : t = Head(left) /\ t <= now
  BY <1>3, <1>4
<1>6. PICK rows : IsTop(rows, Usage(t)) /\ point' = point \cup Points(rows, t)
  BY <1>1, <1>2, <1>5 DEF UpsertPoints
<1>7. UNCHANGED <<libraryVars, camera, cameraOf, joined, timeline>>
  BY DEF UpsertPoints
<1>8. \A q \in point \cup Points(rows, t) : PointOK(q)
  BY <1>5, <1>6, PointsNew DEF CamerasInv, PointsOK
<1>9. ASSUME NEW q, PointOK(q) PROVE PointOK(q)'
  BY <1>7, <1>9 DEF PointOK, Before, Won, libraryVars
<1>10. PointsOK'
  BY <1>6, <1>7, <1>8, <1>9 DEF PointsOK, CamerasInv
<1>11. CameraOK'
  BY <1>7 DEF CamerasInv, CameraOK, libraryVars
<1>12. CronOK'
  <2>1. CASE Len(left) = 1
    <3>1. cron' = NoCron
      BY <1>1, <1>2, <2>1 DEF UpsertPoints
    <3>2. NoCron \in CronRow /\ NoCron.pc = "idle" /\ NoCron.left = <<>>
      BY DEF NoCron, CronRow
    <3> QED
      BY <1>7, <3>1, <3>2 DEF CamerasInv, CronOK
  <2>2. CASE Len(left) # 1
    <3>1. PICK rest : rest = Tail(left)
      OBVIOUS
    <3>2. /\ rest \in Seq(Time) /\ Len(rest) = Len(left) - 1
          /\ \A i \in 1..Len(rest) : rest[i] = left[i + 1]
      BY <1>3, <3>1, HeadTailProperties
    <3>3. Len(left) \in Nat \ {0} /\ DOMAIN left = 1..Len(left) /\ DOMAIN rest = 1..Len(rest)
      BY <1>3, <3>2, EmptySeq, LenProperties
    <3>6. rest # <<>>
      BY <2>2, <3>2, <3>3, EmptySeq
    <3>7. \A k \in DOMAIN rest : k + 1 \in DOMAIN left
      BY <3>2, <3>3
    <3>8. \A k \in DOMAIN rest : rest[k] <= now
      BY <1>3, <3>2, <3>3, <3>7
    <3>4. cron' = [pc |-> "timeline", left |-> rest]
      BY <1>1, <1>2, <2>2, <3>1 DEF UpsertPoints
    <3>5. cron' \in CronRow /\ cron'.pc = "timeline" /\ cron'.left = rest
      BY <3>2, <3>4 DEF CronRow
    <3> QED
      BY <1>7, <3>2, <3>6, <3>8, <3>5 DEF CamerasInv, CronOK, libraryVars
  <2> QED
    BY <2>1, <2>2
<1> QED
  BY <1>10, <1>11, <1>12 DEF CamerasInv

LEMMA CamerasStepOK ==
  ASSUME LibraryInv, CamerasInv, CamerasStep
  PROVE  LibraryInv' /\ CamerasInv' /\ UNCHANGED <<setting, now, photo>>
<1>1. ASSUME NEW f \in PhotoId, ReadPhoto(f) \/ Connect(f) \/ CountUser(f) \/ FailJob(f)
      PROVE  LibraryInv' /\ CamerasInv' /\ UNCHANGED <<setting, now, photo>>
  <2>1. UNCHANGED <<setting, now, photo>>
    BY <1>1 DEF ReadPhoto, Connect, CountUser, FailJob
  <2> QED
    BY <1>1, <2>1, ReadPhotoOK, ConnectOK, CountUserOK, FailJobOK
<1>2. ASSUME NEW c \in CameraId, DeleteCamera(c)
      PROVE  LibraryInv' /\ CamerasInv' /\ UNCHANGED <<setting, now, photo>>
  BY <1>2, DeleteCameraOK DEF DeleteCamera, libraryVars
<1>3. ASSUME NEW c \in CameraId, NEW m \in Models, UpdateCamera(c, m)
      PROVE  LibraryInv' /\ CamerasInv' /\ UNCHANGED <<setting, now, photo>>
  BY <1>3, UpdateCameraOK DEF UpdateCamera, libraryVars
<1>4. CASE TriggerCron \/ UpsertTimeline \/ UpsertPoints \/ StopCron
  <2>1. UNCHANGED libraryVars
    BY <1>4 DEF TriggerCron, UpsertTimeline, UpsertPoints, StopCron
  <2>2. UNCHANGED <<setting, now, photo>>
    BY <2>1 DEF libraryVars
  <2> QED
    BY <1>4, <2>1, <2>2, LibraryStill, TriggerCronOK, UpsertTimelineOK, UpsertPointsOK, StopCronOK
<1> QED
  BY <1>1, <1>2, <1>3, <1>4 DEF CamerasStep

-----------------------------------------------------------------------------
(* Money *)

Tenth == Price \div 10

\* The rows there are: what each type of transaction looks like.
Shape(x) ==
  \/ x = NoRow
  \/ /\ x.status \in {"SUCCESS", "PENDING"}
     /\ \/ x.type \in {"DEPOSIT", "WITHDRAWAL"} /\ x.method = "SEPAY" /\ x.credit = 0
        \/ x.type = "UPGRADE_TO_PHOTOGRAPHER" /\ x.credit = 0
        \/ /\ x.type = "IMAGE_BUY" /\ x.amount = Price /\ x.fee = Tenth
           /\ x.credit # 0 <=> x.status = "SUCCESS"
        \/ /\ x.type = "IMAGE_SELL" /\ x.status = "SUCCESS" /\ x.method = "WALLET"
           /\ x.amount = Price /\ x.fee = Tenth /\ x.credit = 0 /\ x.user \in Users

Bought == {i \in TxId : tx[i].credit # 0}
Sold == {i \in TxId : tx[i].type = "IMAGE_SELL"}

\* As many sales as credited purchases; ids are given in order.
MoneyInv ==
  /\ tx \in [TxId -> Row]
  /\ others \in [Others -> SUBSET Time]
  /\ \A i \in TxId : Shape(tx[i]) /\ (tx[i] # NoRow => First <= tx[i].at /\ tx[i].at <= now)
  /\ \A i, k \in TxId : i < k /\ tx[i] = NoRow => tx[k] = NoRow
  /\ \A i \in Bought : tx[tx[i].credit].type = "IMAGE_SELL"
  /\ Cardinality(Bought) = Cardinality(Sold)

LEMMA PricesAre == Price \in Nat /\ UpgradePrice \in Nat /\ MaxTx \in Nat /\ Tenth \in Nat /\ Tenth <= Price
<1>1. Price \in Nat /\ UpgradePrice \in Nat /\ MaxTx \in Nat
  BY DashboardAssumption
<1>2. Tenth \in Nat /\ Tenth <= Price
  BY <1>1 DEF Tenth
<1> QED
  BY <1>1, <1>2

LEMMA NoRowIs ==
  /\ NoRow \in Row /\ NoRow.status = Unused /\ NoRow.type = "DEPOSIT" /\ NoRow.credit = 0 /\ Shape(NoRow)
<1>1. NoRow \in Row
  BY DEF NoRow, Row, TransactionType, PaymentMethod
<1> QED
  BY <1>1 DEF NoRow, Shape

LEMMA UsedIs == ASSUME MoneyInv, NEW i \in TxId PROVE Used(i) <=> tx[i] # NoRow
<1>1. Shape(tx[i])
  BY DEF MoneyInv
<1> QED
  BY <1>1, NoRowIs DEF Shape, Used, Unused

LEMMA NewIdIs ==
  ASSUME MoneyInv, NEW i \in TxId, NewId(i)
  PROVE  tx[i] = NoRow /\ \A k \in 1..(i - 1) : tx[k] # NoRow
<1>1. \A k \in TxId : Used(k) <=> tx[k] # NoRow
  BY UsedIs
<1>2. \A k \in 1..(i - 1) : k \in TxId
  BY PricesAre DEF TxId
<1> QED
  BY <1>1, <1>2 DEF NewId

LEMMA NewIs ==
  ASSUME LibraryInv, NEW u \in Users, NEW type \in TransactionType, NEW method \in PaymentMethod,
         NEW amount \in Nat, NEW fee \in Nat, NEW status \in {"SUCCESS", "PENDING"},
         NEW x, x = New(u, type, method, amount, fee, status)
  PROVE  /\ x \in Row /\ x.user = u /\ x.type = type /\ x.method = method /\ x.amount = amount /\ x.fee = fee
         /\ x.status = status /\ x.at = now /\ x.credit = 0 /\ x # NoRow
<1>1. now \in Time
  BY DEF LibraryInv
<1>2. x = [user |-> u, type |-> type, method |-> method, amount |-> amount, fee |-> fee, status |-> status,
           at |-> now, credit |-> 0]
  BY DEF New, NoRow
<1>3. x \in Row
  BY <1>1, <1>2 DEF Row
<1>4. x.status # Unused
  BY <1>2 DEF Unused
<1>5. x # NoRow
  BY <1>4, NoRowIs
<1> QED
  BY <1>2, <1>3, <1>5

\* A row is inserted or settled, and no purchase is credited.
LEMMA OneRow ==
  ASSUME MoneyInv, NEW i \in TxId, NEW x \in Row, tx' = [tx EXCEPT ![i] = x], UNCHANGED <<now, others>>,
         Shape(x), x # NoRow, First <= x.at, x.at <= now, x.credit = 0, x.type # "IMAGE_SELL",
         tx[i].credit = 0, tx[i].type # "IMAGE_SELL",
         tx[i] = NoRow => \A k \in 1..(i - 1) : tx[k] # NoRow
  PROVE  MoneyInv'
<1>1. tx' \in [TxId -> Row] /\ tx'[i] = x /\ \A k \in TxId : k # i => tx'[k] = tx[k]
  BY DEF MoneyInv
<1>2. Bought' = Bought /\ Sold' = Sold
  BY <1>1 DEF Bought, Sold
<1>3. \A k \in TxId : Shape(tx'[k]) /\ (tx'[k] # NoRow => First <= tx'[k].at /\ tx'[k].at <= now)
  BY <1>1 DEF MoneyInv
<1>4. ASSUME NEW k \in TxId, NEW l \in TxId, k < l, tx'[k] = NoRow PROVE tx'[l] = NoRow
  <2>1. k # i /\ tx[k] = NoRow
    BY <1>1, <1>4
  <2>2. tx[l] = NoRow
    BY <1>4, <2>1 DEF MoneyInv
  <2>3. l # i
    <3>1. SUFFICES ASSUME l = i PROVE FALSE
      OBVIOUS
    <3>2. k \in 1..(i - 1)
      BY <1>4, <3>1 DEF TxId
    <3> QED
      BY <2>1, <2>2, <3>1, <3>2
  <2> QED
    BY <1>1, <2>2, <2>3
<1>5. ASSUME NEW k \in Bought PROVE tx'[tx'[k].credit].type = "IMAGE_SELL"
  <2>1. k \in TxId /\ tx'[k] = tx[k] /\ tx[k].credit \in TxId
    BY <1>1, <1>5 DEF Bought, MoneyInv, Row
  <2>2. tx[tx[k].credit].type = "IMAGE_SELL"
    BY DEF MoneyInv
  <2> QED
    BY <1>1, <2>1, <2>2
<1>6. Cardinality(Bought)' = Cardinality(Sold)'
  BY <1>2 DEF MoneyInv
<1> QED
  BY <1>1, <1>2, <1>3, <1>4, <1>5, <1>6 DEF MoneyInv

\* A purchase is credited: the row of the photographer is inserted.
LEMMA TwoRows ==
  ASSUME MoneyInv, NEW i \in TxId, NEW k \in TxId, i # k, NEW x \in Row, NEW y \in Row,
         tx' = [tx EXCEPT ![i] = x, ![k] = y], UNCHANGED <<now, others>>,
         Shape(x), x # NoRow, First <= x.at, x.at <= now, x.credit = k, x.type = "IMAGE_BUY",
         Shape(y), y # NoRow, First <= y.at, y.at <= now, y.credit = 0, y.type = "IMAGE_SELL",
         tx[i].credit = 0, tx[i].type # "IMAGE_SELL", tx[k] = NoRow,
         tx[i] = NoRow => \A j \in 1..(i - 1) : tx[j] # NoRow,
         \A j \in 1..(k - 1) : j = i \/ tx[j] # NoRow
  PROVE  MoneyInv'
<1>1. tx' \in [TxId -> Row] /\ tx'[i] = x /\ tx'[k] = y /\ \A j \in TxId : j # i /\ j # k => tx'[j] = tx[j]
  BY DEF MoneyInv
<1>2. tx[k].credit = 0 /\ tx[k].type # "IMAGE_SELL"
  BY NoRowIs
<1>3. k # 0
  BY PricesAre DEF TxId
<1>4. Bought' = Bought \cup {i} /\ i \notin Bought
  BY <1>1, <1>2, <1>3 DEF Bought
<1>5. Sold' = Sold \cup {k} /\ k \notin Sold
  BY <1>1, <1>2 DEF Sold
<1>6. IsFiniteSet(Bought) /\ IsFiniteSet(Sold)
  <2>1. IsFiniteSet(TxId)
    BY PricesAre, FS_Interval DEF TxId
  <2>2. Bought \in SUBSET TxId /\ Sold \in SUBSET TxId
    BY DEF Bought, Sold
  <2> QED
    BY <2>1, <2>2, FS_Subset
<1>7. Cardinality(Bought') = Cardinality(Sold')
  <2>1. Cardinality(Bought \cup {i}) = Cardinality(Bought) + 1
    BY <1>4, <1>6, FS_AddElement
  <2>2. Cardinality(Sold \cup {k}) = Cardinality(Sold) + 1
    BY <1>5, <1>6, FS_AddElement
  <2> QED
    BY <1>4, <1>5, <2>1, <2>2 DEF MoneyInv
<1>8. \A j \in TxId : Shape(tx'[j]) /\ (tx'[j] # NoRow => First <= tx'[j].at /\ tx'[j].at <= now)
  BY <1>1 DEF MoneyInv
<1>9. ASSUME NEW j \in TxId, NEW l \in TxId, j < l, tx'[j] = NoRow PROVE tx'[l] = NoRow
  <2>1. j # i /\ j # k /\ tx[j] = NoRow
    BY <1>1, <1>9
  <2>2. tx[l] = NoRow
    BY <1>9, <2>1 DEF MoneyInv
  <2>3. l # i
    <3>1. SUFFICES ASSUME l = i PROVE FALSE
      OBVIOUS
    <3>2. j \in 1..(i - 1)
      BY <1>9, <3>1 DEF TxId
    <3> QED
      BY <2>1, <2>2, <3>1, <3>2
  <2>4. l # k
    <3>1. SUFFICES ASSUME l = k PROVE FALSE
      OBVIOUS
    <3>2. j \in 1..(k - 1)
      BY <1>9, <3>1 DEF TxId
    <3> QED
      BY <2>1, <3>2
  <2> QED
    BY <1>1, <2>2, <2>3, <2>4
<1>10. ASSUME NEW j \in Bought' PROVE tx'[tx'[j].credit].type = "IMAGE_SELL"
  <2>1. CASE j = i
    BY <1>1, <2>1
  <2>2. CASE j # i
    <3>1. j \in Bought
      BY <1>4, <2>2
    <3>2. j \in TxId /\ j # k /\ tx[j].credit \in TxId
      BY <1>2, <3>1 DEF Bought, MoneyInv, Row
    <3>3. tx[tx[j].credit].type = "IMAGE_SELL"
      BY <3>1 DEF MoneyInv
    <3>4. tx'[j] = tx[j]
      BY <1>1, <2>2, <3>2
    <3>5. tx[j].credit # i /\ tx[j].credit # k
      BY <1>2, <3>3
    <3> QED
      BY <1>1, <3>2, <3>3, <3>4, <3>5
  <2> QED
    BY <2>1, <2>2
<1> QED
  BY <1>1, <1>7, <1>8, <1>9, <1>10 DEF MoneyInv

\* A row that waits for the bank, or one of an upgrade.
LEMMA InsertOK ==
  ASSUME LibraryInv, MoneyInv, NEW i \in TxId, NEW u \in Users,
         NEW type \in {"DEPOSIT", "WITHDRAWAL", "IMAGE_BUY", "UPGRADE_TO_PHOTOGRAPHER"},
         NEW method \in PaymentMethod, NEW amount \in Nat, NEW fee \in Nat, NEW status \in {"SUCCESS", "PENDING"},
         type \in {"DEPOSIT", "WITHDRAWAL"} => method = "SEPAY",
         type = "IMAGE_BUY" => amount = Price /\ fee = Tenth /\ status = "PENDING",
         Insert(i, New(u, type, method, amount, fee, status))
  PROVE  MoneyInv'
<1>1. PICK x : x = New(u, type, method, amount, fee, status)
  OBVIOUS
<1>2. type \in TransactionType
  BY DEF TransactionType
<1>3. /\ x \in Row /\ x.user = u /\ x.type = type /\ x.method = method /\ x.amount = amount /\ x.fee = fee
      /\ x.status = status /\ x.at = now /\ x.credit = 0 /\ x # NoRow
  BY <1>1, <1>2, NewIs
<1>4. Shape(x)
  BY <1>3 DEF Shape
<1>5. NewId(i) /\ tx' = [tx EXCEPT ![i] = x] /\ UNCHANGED <<libraryVars, others, report>>
  BY <1>1 DEF Insert
<1>6. tx[i] = NoRow /\ \A k \in 1..(i - 1) : tx[k] # NoRow
  BY <1>5, NewIdIs
<1>7. tx[i].credit = 0 /\ tx[i].type # "IMAGE_SELL"
  BY <1>6, NoRowIs
<1>8. First <= x.at /\ x.at <= now /\ now' = now
  BY <1>3, <1>5, NumbersAre DEF LibraryInv, libraryVars
<1> QED
  BY <1>3, <1>4, <1>5, <1>6, <1>7, <1>8, OneRow

LEMMA InsertsOK ==
  ASSUME LibraryInv, MoneyInv, NEW i \in TxId, NEW u \in Users,
         Deposit(i, u) \/ Withdraw(i, u) \/ BuyByBank(i, u) \/ UpgradeByBank(i, u) \/ UpgradeByWallet(i, u)
  PROVE  MoneyInv'
<1>1. Price \in Nat /\ 2 * Price \in Nat /\ Tenth \in Nat /\ 0 \in Nat
  BY PricesAre
<1>2. {"SEPAY", "WALLET"} = PaymentMethod
  BY DEF PaymentMethod
<1>3. CASE Deposit(i, u)
  BY <1>1, <1>2, <1>3, InsertOK DEF Deposit
<1>4. CASE Withdraw(i, u)
  BY <1>1, <1>2, <1>4, InsertOK DEF Withdraw
<1>5. CASE BuyByBank(i, u)
  BY <1>1, <1>2, <1>5, InsertOK DEF BuyByBank, Tenth
<1>6. \A d \in {0, UpgradePrice \div 2} : d \in Nat /\ UpgradePrice - d \in Nat
  BY PricesAre
<1>7. CASE UpgradeByBank(i, u)
  BY <1>1, <1>2, <1>6, <1>7, InsertOK DEF UpgradeByBank
<1>8. CASE UpgradeByWallet(i, u)
  BY <1>1, <1>2, <1>6, <1>8, InsertOK DEF UpgradeByWallet
<1> QED
  BY <1>3, <1>4, <1>5, <1>7, <1>8

LEMMA SellRowIs ==
  ASSUME LibraryInv, NEW u \in Users, NEW y, y = SellRow(u)
  PROVE  y \in Row /\ Shape(y) /\ y # NoRow /\ y.at = now /\ y.credit = 0 /\ y.type = "IMAGE_SELL"
<1>1. y = New(u, "IMAGE_SELL", "WALLET", Price, Tenth, "SUCCESS")
  BY DEF SellRow, Tenth
<1>2. "IMAGE_SELL" \in TransactionType /\ "WALLET" \in PaymentMethod
  BY DEF TransactionType, PaymentMethod
<1>3. Price \in Nat /\ Tenth \in Nat
  BY PricesAre
<1>4. /\ y \in Row /\ y.user = u /\ y.type = "IMAGE_SELL" /\ y.method = "WALLET" /\ y.amount = Price /\ y.fee = Tenth
      /\ y.status = "SUCCESS" /\ y.at = now /\ y.credit = 0 /\ y # NoRow
  BY <1>1, <1>2, <1>3, NewIs
<1> QED
  BY <1>4 DEF Shape

LEMMA BuyByWalletOK ==
  ASSUME LibraryInv, MoneyInv, NEW i \in TxId, NEW u \in Users, BuyByWallet(i, u)
  PROVE  MoneyInv'
<1>1. PICK k \in TxId : k = i + 1
  BY DEF BuyByWallet
<1>2. PICK w : w = New(u, "IMAGE_BUY", "WALLET", Price, Tenth, "SUCCESS")
  OBVIOUS
<1>3. "IMAGE_BUY" \in TransactionType /\ "WALLET" \in PaymentMethod
  BY DEF TransactionType, PaymentMethod
<1>x. Price \in Nat /\ Tenth \in Nat
  BY PricesAre
<1>4. /\ w \in Row /\ w.user = u /\ w.type = "IMAGE_BUY" /\ w.method = "WALLET" /\ w.amount = Price /\ w.fee = Tenth
      /\ w.status = "SUCCESS" /\ w.at = now
  BY <1>2, <1>3, <1>x, NewIs
<1>5. PICK x : x = [w EXCEPT !.credit = k]
  OBVIOUS
<1>6. /\ x \in Row /\ x.type = "IMAGE_BUY" /\ x.amount = Price /\ x.fee = Tenth /\ x.status = "SUCCESS"
      /\ x.at = now /\ x.credit = k
  <2>1. w \in Row /\ k \in TxId
    BY <1>4
  <2>2. x \in Row /\ x.credit = k
    BY <1>5, <2>1 DEF Row
  <2>3. x.type = w.type /\ x.amount = w.amount /\ x.fee = w.fee /\ x.status = w.status /\ x.at = w.at
    BY <1>5, <2>1 DEF Row
  <2> QED
    BY <1>4, <2>2, <2>3
<1>7. k # 0 /\ i # k
  BY <1>1 DEF TxId
<1>8. Shape(x) /\ x # NoRow
  BY <1>6, <1>7, NoRowIs DEF Shape
<1>9. PICK seller \in Users : tx' = [tx EXCEPT ![i] = x, ![k] = SellRow(seller)]
  BY <1>1, <1>2, <1>5 DEF BuyByWallet, Tenth
<1>y. PICK y : y = SellRow(seller)
  OBVIOUS
<1>z. tx' = [tx EXCEPT ![i] = x, ![k] = y]
  BY <1>9, <1>y
<1>10. y \in Row /\ Shape(y) /\ y # NoRow /\ y.at = now /\ y.credit = 0 /\ y.type = "IMAGE_SELL"
  BY <1>y, SellRowIs
<1>11. NewId(i) /\ UNCHANGED <<libraryVars, others, report>>
  BY DEF BuyByWallet
<1>12. tx[i] = NoRow /\ \A j \in 1..(i - 1) : tx[j] # NoRow
  BY <1>11, NewIdIs
<1>13. tx[k] = NoRow
  BY <1>1, <1>12 DEF MoneyInv, TxId
<1>14. \A j \in 1..(k - 1) : j = i \/ tx[j] # NoRow
  BY <1>1, <1>12 DEF TxId
<1>15. tx[i].credit = 0 /\ tx[i].type # "IMAGE_SELL"
  BY <1>12, NoRowIs
<1>16. First <= now /\ now <= now /\ now' = now /\ others' = others
  BY <1>11, NumbersAre DEF LibraryInv, libraryVars
<1> QED
  BY <1>6, <1>7, <1>8, <1>z, <1>10, <1>12, <1>13, <1>14, <1>15, <1>16, TwoRows

LEMMA SettleOK ==
  ASSUME LibraryInv, MoneyInv, NEW i \in TxId, Settle(i)
  PROVE  MoneyInv'
<1>1. PICK r \in Row : r = tx[i] /\ r.status = "PENDING"
  BY DEF MoneyInv, Settle
<1>2. Shape(r) /\ r # NoRow /\ First <= r.at /\ r.at <= now
  BY <1>1, NoRowIs DEF MoneyInv, Unused
<1>3. UNCHANGED <<libraryVars, others, report>> /\ now' = now /\ tx \in [TxId -> Row]
  BY DEF Settle, libraryVars, MoneyInv
<1>4. CASE r.type = "IMAGE_BUY"
  <2>1. PICK k \in TxId, seller \in Users : /\ NewId(k)
                                            /\ tx' = [tx EXCEPT ![i].status = "SUCCESS", ![i].credit = k, ![k] = SellRow(seller)]
    BY <1>1, <1>4 DEF Settle
  <2>2. PICK x : x = [r EXCEPT !.status = "SUCCESS", !.credit = k]
    OBVIOUS
  <2>3. k # 0
    BY DEF TxId
  <2>4. r.amount = Price /\ r.fee = Tenth /\ r.credit = 0
    BY <1>1, <1>2, <1>4, NoRowIs DEF Shape
  <2>5. /\ x \in Row /\ x.status = "SUCCESS" /\ x.credit = k /\ x.type = "IMAGE_BUY" /\ x.amount = Price /\ x.fee = Tenth
        /\ x.at = r.at
    BY <1>4, <2>2, <2>4 DEF Row
  <2>6. Shape(x) /\ x # NoRow
    BY <2>3, <2>5, NoRowIs DEF Shape
  <2>7. PICK y : y = SellRow(seller)
    OBVIOUS
  <2>8. y \in Row /\ Shape(y) /\ y # NoRow /\ y.at = now /\ y.credit = 0 /\ y.type = "IMAGE_SELL"
    BY <2>7, SellRowIs
  <2>9. tx[k] = NoRow /\ \A j \in 1..(k - 1) : tx[j] # NoRow
    BY <2>1, NewIdIs
  <2>10. i # k
    BY <1>1, <1>2, <2>9
  <2>11. tx' = [tx EXCEPT ![i] = x, ![k] = y]
    BY <1>1, <1>3, <2>1, <2>2, <2>7, <2>10
  <2>12. First <= now /\ now <= now
    BY NumbersAre DEF LibraryInv
  <2>13. tx[i].credit = 0 /\ tx[i].type # "IMAGE_SELL" /\ tx[i] # NoRow
    BY <1>1, <1>2, <1>4, <2>4
  <2> QED
    BY <1>2, <1>3, <2>5, <2>6, <2>8, <2>9, <2>10, <2>11, <2>12, <2>13, TwoRows
<1>5. CASE r.type # "IMAGE_BUY"
  <2>1. PICK x : x = [r EXCEPT !.status = "SUCCESS"]
    OBVIOUS
  <2>2. r.credit = 0 /\ r.type # "IMAGE_SELL"
    BY <1>1, <1>2, <1>5 DEF Shape
  <2>3. x \in Row /\ x.status = "SUCCESS" /\ x.credit = 0 /\ x.type = r.type /\ x.method = r.method /\ x.at = r.at
    BY <2>1, <2>2 DEF Row
  <2>4. Shape(x) /\ x # NoRow
    BY <1>1, <1>2, <1>5, <2>2, <2>3, NoRowIs DEF Shape, Unused
  <2>5. tx' = [tx EXCEPT ![i] = x]
    BY <1>1, <1>3, <1>5, <2>1 DEF Settle
  <2> QED
    BY <1>1, <1>2, <1>3, <2>2, <2>3, <2>4, <2>5, OneRow
<1> QED
  BY <1>4, <1>5

\* Time passes, and what is only counted changes.
LEMMA MoneyLater ==
  ASSUME LibraryInv, MoneyInv, tx' = tx, others' \in [Others -> SUBSET Time], now <= now', now' \in Time
  PROVE  MoneyInv'
<1>1. now \in Nat /\ now' \in Nat
  BY NumbersAre DEF LibraryInv
<1>2. \A i \in TxId : tx[i].at \in Nat
  <2>1. \A i \in TxId : tx[i].at \in {0} \cup Time
    BY DEF MoneyInv, Row
  <2>2. {0} \cup Time \subseteq Nat
    BY NumbersAre
  <2> QED
    BY <2>1, <2>2
<1>3. \A i \in TxId : Shape(tx[i]) /\ (tx[i] # NoRow => First <= tx[i].at /\ tx[i].at <= now')
  BY <1>1, <1>2 DEF MoneyInv
<1>4. Bought' = Bought /\ Sold' = Sold
  BY DEF Bought, Sold
<1> QED
  BY <1>3, <1>4 DEF MoneyInv

LEMMA MoneyStill ==
  ASSUME LibraryInv, MoneyInv, UNCHANGED <<now, tx, others>>
  PROVE  MoneyInv'
<1>1. now' \in Time /\ now <= now' /\ others' \in [Others -> SUBSET Time]
  BY NumbersAre DEF LibraryInv, MoneyInv
<1> QED
  BY <1>1, MoneyLater

LEMMA MoneyStepOK ==
  ASSUME LibraryInv, MoneyInv, MoneyStep
  PROVE  MoneyInv' /\ UNCHANGED <<libraryVars, report>>
<1>1. ASSUME NEW i \in TxId, NEW u \in Users,
             \/ Deposit(i, u) \/ Withdraw(i, u) \/ BuyByBank(i, u) \/ UpgradeByBank(i, u) \/ UpgradeByWallet(i, u)
             \/ BuyByWallet(i, u)
      PROVE  MoneyInv' /\ UNCHANGED <<libraryVars, report>>
  <2>1. UNCHANGED <<libraryVars, report>>
    BY <1>1 DEF Deposit, Withdraw, BuyByBank, UpgradeByBank, UpgradeByWallet, BuyByWallet, Insert
  <2> QED
    BY <1>1, <2>1, InsertsOK, BuyByWalletOK
<1>2. ASSUME NEW i \in TxId, Settle(i) PROVE MoneyInv' /\ UNCHANGED <<libraryVars, report>>
  BY <1>2, SettleOK DEF Settle
<1>3. ASSUME tx' = tx, UNCHANGED <<libraryVars, report>>, others' \in [Others -> SUBSET Time]
      PROVE  MoneyInv' /\ UNCHANGED <<libraryVars, report>>
  <2>1. now' \in Time /\ now <= now'
    BY <1>3, NumbersAre DEF LibraryInv, libraryVars
  <2> QED
    BY <1>3, <2>1, MoneyLater
<1>4. others \in [Others -> SUBSET Time] /\ now \in Time
  BY DEF MoneyInv, LibraryInv
<1>5. ASSUME NEW k \in Others, Add(k) PROVE MoneyInv' /\ UNCHANGED <<libraryVars, report>>
  BY <1>3, <1>4, <1>5 DEF Add
<1>6. CASE DropPackage
  BY <1>3, <1>4, <1>6 DEF DropPackage, Others
<1> QED
  BY <1>1, <1>2, <1>5, <1>6 DEF MoneyStep

LEMMA MoneyBegins == DashboardInit => MoneyInv
<1> SUFFICES ASSUME DashboardInit PROVE MoneyInv
  OBVIOUS
<1>1. tx \in [TxId -> Row] /\ \A i \in TxId : tx[i] = NoRow
  BY NoRowIs DEF DashboardInit
<1>2. others \in [Others -> SUBSET Time]
  BY DEF DashboardInit
<1>3. Bought = {} /\ Sold = {}
  BY <1>1, NoRowIs DEF Bought, Sold
<1> QED
  BY <1>1, <1>2, <1>3, NoRowIs DEF MoneyInv

-----------------------------------------------------------------------------
(* Reports *)

ReportKinds == {"none", "data", "balance", "sellers"}
Told(x) == x \in DOMAIN report.value

\* A report in progress has a value for each query it has made.
ReportInv ==
  /\ report.kind \in ReportKinds /\ report.next \in Nat
  /\ report.from \in {0} \cup Time /\ report.to \in {0} \cup Time
  /\ report = [kind |-> report.kind, next |-> report.next, from |-> report.from, to |-> report.to,
               value |-> report.value]
  /\ DOMAIN report.value = {Queries(report.kind)[k] : k \in 1..(report.next - 1)}

\* The queries whose place among the others matters.
LEMMA DataAre ==
  /\ DOMAIN DataQueries = 1..14 /\ Len(DataQueries) = 14
  /\ DataQueries[3] = "photoRevenue" /\ DataQueries[4] = "upgradeRevenue"
  /\ DataQueries[13] = "withdrawal" /\ DataQueries[14] = "balance"
  /\ \A k \in 1..14 : /\ DataQueries[k] = "selling" <=> k = 7
                      /\ DataQueries[k] = "raw" <=> k = 8
                      /\ DataQueries[k] = "booking" <=> k = 9
                      /\ DataQueries[k] = "photo" <=> k = 10
  BY DEF DataQueries

LEMMA NotUsers ==
  {"customer", "photographer", "photoRevenue", "upgradeRevenue", "package", "camera", "selling", "raw", "booking",
   "photo", "bookingSize", "photoSize", "withdrawal", "balance"} \cap Users = {}
<1>1. \A k \in 1..14 : DataQueries[k] \notin Users
  BY DataAre, DashboardAssumption
<1>2. /\ DataQueries[1] \notin Users /\ DataQueries[2] \notin Users /\ DataQueries[3] \notin Users
      /\ DataQueries[4] \notin Users /\ DataQueries[5] \notin Users /\ DataQueries[6] \notin Users
      /\ DataQueries[7] \notin Users /\ DataQueries[8] \notin Users /\ DataQueries[9] \notin Users
      /\ DataQueries[10] \notin Users /\ DataQueries[11] \notin Users /\ DataQueries[12] \notin Users
      /\ DataQueries[13] \notin Users /\ DataQueries[14] \notin Users
  BY <1>1
<1> QED
  BY <1>2 DEF DataQueries

\* Every photographer is asked about.
LEMMA UsersAsked ==
  /\ SetToSeq(Users) \in [1..Cardinality(Users) -> Users]
  /\ Cardinality(Users) \in Nat
  /\ \A u \in Users : \E k \in 1..Cardinality(Users) : SetToSeq(Users)[k] = u
<1>1. IsFiniteSet(Users) /\ Cardinality(Users) \in Nat /\ ExistsBijection(1..Cardinality(Users), Users)
  BY LibraryAssumption, FS_CardinalityType
<1>2. \E f \in [1..Cardinality(Users) -> Users] : IsInjective(f)
  BY <1>1 DEF ExistsBijection, Bijection, Injection
<1>3. PICK f : f = SetToSeq(Users)
  OBVIOUS
<1>4. f \in [1..Cardinality(Users) -> Users] /\ IsInjective(f)
  BY <1>2, <1>3 DEF SetToSeq
<1>5. f \in Injection(1..Cardinality(Users), Users)
  BY <1>4 DEF Injection
<1>6. Cardinality(1..Cardinality(Users)) = Cardinality(Users)
  BY <1>1, FS_Interval
<1>7. f \in Surjection(1..Cardinality(Users), Users)
  BY <1>1, <1>5, <1>6, FS_Injection
<1>8. \A u \in Users : \E k \in 1..Cardinality(Users) : f[k] = u
  BY <1>7 DEF Surjection
<1> QED
  BY <1>1, <1>3, <1>4, <1>8

LEMMA QueriesAre ==
  /\ Queries("none") = <<>> /\ Queries("data") = DataQueries /\ Queries("balance") = <<"balance", "withdrawal">>
  /\ Queries("sellers") = SetToSeq(Users)
  BY DEF Queries

\* A report that was made has every value.
LEMMA AllTold ==
  ASSUME ReportInv
  PROVE  /\ Reported("data") => \A k \in 1..14 : Told(DataQueries[k])
         /\ Reported("sellers") => \A u \in Users : Told(u)
<1>1. \A k \in 1..(report.next - 1) : Told(Queries(report.kind)[k])
  BY DEF ReportInv, Told
<1>2. report.next \in Nat
  BY DEF ReportInv
<1>3. ASSUME Reported("data"), NEW k \in 1..14 PROVE Told(DataQueries[k])
  <2>1. report.kind = "data" /\ report.next > Len(Queries("data"))
    BY <1>3 DEF Reported
  <2>2. report.next > 14
    BY <2>1, QueriesAre, DataAre
  <2>3. k \in 1..(report.next - 1)
    BY <1>2, <2>2
  <2> QED
    BY <1>1, <2>1, <2>3, QueriesAre
<1>4. ASSUME Reported("sellers"), NEW u \in Users PROVE Told(u)
  <2>1. Len(SetToSeq(Users)) = Cardinality(Users)
    <3>1. PICK n : n = Cardinality(Users)
      OBVIOUS
    <3>2. n \in Nat /\ SetToSeq(Users) \in [1..n -> Users]
      BY <3>1, UsersAsked
    <3>3. SetToSeq(Users) \in Seq(Users)
      BY <3>2
    <3> QED
      BY <3>1, <3>2, <3>3, LenProperties
  <2>2. PICK k \in 1..Cardinality(Users) : SetToSeq(Users)[k] = u
    BY UsersAsked
  <2>3. k \in 1..(report.next - 1) /\ report.kind = "sellers"
    BY <1>2, <1>4, <2>1, QueriesAre, UsersAsked DEF Reported
  <2> QED
    BY <1>1, <2>2, <2>3, QueriesAre
<1> QED
  BY <1>3, <1>4

LEMMA AskOK ==
  ASSUME LibraryInv, NEW kind \in {"data", "balance", "sellers"}, NEW from \in {First, now, now + 1},
         NEW to \in {First, now, now + 1}, Ask(kind, from, to)
  PROVE  ReportInv' /\ UNCHANGED <<libraryVars, tx, others>> /\ DOMAIN report'.value = {}
<1>1. report' = [kind |-> kind, next |-> 1, from |-> from, to |-> to, value |-> <<>>]
  BY DEF Ask, NoReport
<1>2. UNCHANGED <<libraryVars, tx, others>>
  BY DEF Ask
<1>3. First \in Time /\ now \in Time /\ now + 1 \in Time
  <2>1. PICK d \in Int : d = setting.days
    BY LibraryAssumption DEF LibraryInv
  <2>2. d <= MaxDays /\ 0 <= d
    BY <2>1, NumbersAre, LibraryAssumption DEF LibraryInv
  <2>3. DayLength * d <= DayLength * MaxDays /\ DayLength * d \in Int
    BY <2>2, NumbersAre, TimesMore
  <2>4. now <= First + DayLength * d
    BY <2>1 DEF LibraryInv
  <2>5. DayLength * (MaxDays + 1) = DayLength * MaxDays + DayLength
    BY NumbersAre
  <2>6. PICK p \in Int : p = DayLength * MaxDays
    BY NumbersAre
  <2>7. PICK q \in Int : q = DayLength * d
    BY <2>3
  <2>8. now \in Time /\ now \in Nat
    BY NumbersAre DEF LibraryInv
  <2>9. Time = 1..(First + (p + DayLength))
    BY <2>5, <2>6 DEF Time
  <2>10. q <= p /\ now <= First + q
    BY <2>3, <2>4, <2>6, <2>7
  <2>11. now + 1 \in Time
    BY <2>8, <2>9, <2>10, NumbersAre
  <2> QED
    BY <2>8, <2>11, NumbersAre
<1>4. from \in Time /\ to \in Time
  BY <1>3
<1>5. /\ report'.kind = kind /\ report'.next = 1 /\ report'.from = from /\ report'.to = to
      /\ report'.value = <<>> /\ kind \in ReportKinds
  BY <1>1 DEF ReportKinds
<1>6. DOMAIN report'.value = {} /\ 1..(report'.next - 1) = {}
  BY <1>5
<1> QED
  BY <1>1, <1>2, <1>4, <1>5, <1>6 DEF ReportInv

\* What a query adds.
Answered(x, value) ==
  /\ report'.kind = report.kind /\ report'.from = report.from /\ report'.to = report.to
  /\ report'.next = report.next + 1
  /\ report.next \in DOMAIN Queries(report.kind) /\ x = Queries(report.kind)[report.next]
  /\ DOMAIN report'.value = {x} \cup DOMAIN report.value
  /\ report'.value[x] = value
  /\ \A y \in DOMAIN report.value : y # x => report'.value[y] = report.value[y]

LEMMA QueryOK ==
  ASSUME ReportInv, NEW cameras, Query(cameras)
  PROVE  /\ ReportInv' /\ UNCHANGED <<libraryVars, tx, others>>
         /\ \E x, value : value = Value(x, cameras) /\ Answered(x, value)
<1>1. PICK x : x = Queries(report.kind)[report.next]
  OBVIOUS
<1>2. PICK value : value = Value(x, cameras)
  OBVIOUS
<1>3. PICK values : values = [y \in {x} \cup DOMAIN report.value |-> IF y = x THEN value ELSE report.value[y]]
  OBVIOUS
<1>4. /\ report' = [report EXCEPT !.next = @ + 1, !.value = values]
      /\ UNCHANGED <<libraryVars, tx, others>> /\ Reporting
  BY <1>1, <1>2, <1>3 DEF Query
<1>5. report' = [kind |-> report.kind, next |-> report.next + 1, from |-> report.from, to |-> report.to, value |-> values]
  BY <1>4 DEF ReportInv
<1>6. /\ report'.kind = report.kind /\ report'.from = report.from /\ report'.to = report.to
      /\ report'.next = report.next + 1 /\ report'.value = values
  BY <1>5
<1>7. DOMAIN values = {x} \cup DOMAIN report.value /\ values[x] = value
  BY <1>3
<1>8. \A y \in DOMAIN report.value : y # x => values[y] = report.value[y]
  BY <1>3
<1>9. Answered(x, value)
  BY <1>1, <1>4, <1>6, <1>7, <1>8 DEF Answered, Reporting
<1>10. report.next # 0
  <2>1. report.next \in DOMAIN Queries(report.kind) /\ report.kind \in ReportKinds
    BY <1>4 DEF Reporting, ReportInv
  <2>2. 0 \notin DOMAIN Queries("data")
    BY QueriesAre, DataAre
  <2>3. 0 \notin DOMAIN Queries("balance") /\ 0 \notin DOMAIN Queries("none")
    BY QueriesAre
  <2>4. 0 \notin DOMAIN Queries("sellers")
    BY QueriesAre, UsersAsked
  <2> QED
    BY <2>1, <2>2, <2>3, <2>4 DEF ReportKinds
<1>11. PICK n : n = report.next + 1
  OBVIOUS
<1>o. 1..(n - 1) = {report.next} \cup 1..(report.next - 1) /\ n \in Nat
  BY <1>10, <1>11 DEF ReportInv
<1>12. DOMAIN values = {Queries(report.kind)[k] : k \in 1..(n - 1)}
  BY <1>1, <1>7, <1>o DEF ReportInv
<1>13. ReportInv'
  <2>1. report'.next = n /\ report'.kind = report.kind /\ report'.value = values
    BY <1>6, <1>11
  <2>2. DOMAIN report'.value = {Queries(report'.kind)[k] : k \in 1..(report'.next - 1)}
    BY <1>12, <2>1, Zenon
  <2> QED
    BY <1>o, <1>5, <1>6, <2>1, <2>2 DEF ReportInv
<1> QED
  BY <1>2, <1>4, <1>9, <1>13

-----------------------------------------------------------------------------
(* The photos in a window of time: the parts are disjoint, and make up all *)

Within(t, from, to) == from <= t /\ t <= to
InWindow(rows, from, to) ==
  {f \in PhotoId : rows[f] # NoPhoto /\ rows[f].deleted = 0 /\ Within(rows[f].created, from, to)}
SoldIn(rows, from, to) == {f \in InWindow(rows, from, to) : \E t \in rows[f].sales : Within(t, from, to)}
RawIn(rows, from, to) == {f \in InWindow(rows, from, to) : rows[f].type = "RAW"}
BookedIn(rows, from, to) == {f \in InWindow(rows, from, to) : rows[f].type = "BOOKING"}

\* Sales, raw photos and photos of bookings, as the queries count them.
Parts(rows, from, to) ==
  <<Cardinality(SoldIn(rows, from, to)),
    Cardinality(RawIn(rows, from, to) \ SoldIn(rows, from, to)),
    Cardinality(BookedIn(rows, from, to))>>
All(rows, from, to) == Cardinality(InWindow(rows, from, to))

LEMMA CountsAre ==
  /\ SellingPhotos = Parts(photo, report.from, report.to)[1]
  /\ RawPhotos = Parts(photo, report.from, report.to)[2]
  /\ BookingPhotos = Parts(photo, report.from, report.to)[3]
  /\ Counted(PhotoId) = All(photo, report.from, report.to)
<1>1. {f \in {f \in PhotoId : OnSale(f)} : Live(f) /\ In(photo[f].created)} = SoldIn(photo, report.from, report.to)
  BY DEF OnSale, Live, Has, In, SoldIn, InWindow, Within
<1>2. {f \in {f \in PhotoId : photo[f].type = "RAW" /\ ~OnSale(f)} : Live(f) /\ In(photo[f].created)}
        = RawIn(photo, report.from, report.to) \ SoldIn(photo, report.from, report.to)
  BY DEF OnSale, Live, Has, In, RawIn, SoldIn, InWindow, Within
<1>3. {f \in {f \in PhotoId : photo[f].type = "BOOKING"} : Live(f) /\ In(photo[f].created)}
        = BookedIn(photo, report.from, report.to)
  BY DEF Live, Has, In, BookedIn, InWindow, Within
<1>4. {f \in PhotoId : Live(f) /\ In(photo[f].created)} = InWindow(photo, report.from, report.to)
  BY DEF Live, Has, In, InWindow, Within
<1>5. SellingPhotos = Parts(photo, report.from, report.to)[1]
  BY <1>1 DEF SellingPhotos, Counted, Parts
<1>6. RawPhotos = Parts(photo, report.from, report.to)[2]
  BY <1>2 DEF RawPhotos, Counted, Parts
<1>7. BookingPhotos = Parts(photo, report.from, report.to)[3]
  BY <1>3 DEF BookingPhotos, Counted, Parts
<1>8. Counted(PhotoId) = All(photo, report.from, report.to)
  BY <1>4 DEF Counted, All
<1> QED
  BY <1>5, <1>6, <1>7, <1>8

\* Photos were put on sale as RAW.
SoldAsRaw(rows) ==
  rows \in [PhotoId -> PhotoRow] /\ \A f \in PhotoId : rows[f] # NoPhoto /\ rows[f].sales # {} => rows[f].type = "RAW"

LEMMA WindowIs ==
  ASSUME NEW rows, NEW from, NEW to
  PROVE  /\ IsFiniteSet(InWindow(rows, from, to))
         /\ SoldIn(rows, from, to) \in SUBSET InWindow(rows, from, to)
         /\ RawIn(rows, from, to) \in SUBSET InWindow(rows, from, to)
         /\ BookedIn(rows, from, to) \in SUBSET InWindow(rows, from, to)
<1>1. IsFiniteSet(PhotoId)
  BY NumbersAre, FS_Interval DEF PhotoId
<1>2. InWindow(rows, from, to) \in SUBSET PhotoId
  BY DEF InWindow
<1> QED
  BY <1>1, <1>2, FS_Subset DEF SoldIn, RawIn, BookedIn

LEMMA PartsAre ==
  ASSUME NEW rows, NEW from, NEW to
  PROVE  /\ Parts(rows, from, to)[1] \in Nat /\ Parts(rows, from, to)[2] \in Nat
         /\ Parts(rows, from, to)[3] \in Nat /\ All(rows, from, to) \in Nat
<1>1. PICK A : A = InWindow(rows, from, to)
  OBVIOUS
<1>2. PICK S : S = SoldIn(rows, from, to)
  OBVIOUS
<1>3. PICK R : R = RawIn(rows, from, to) \ SoldIn(rows, from, to)
  OBVIOUS
<1>4. PICK B : B = BookedIn(rows, from, to)
  OBVIOUS
<1>5. IsFiniteSet(A) /\ S \in SUBSET A /\ R \in SUBSET A /\ B \in SUBSET A
  BY <1>1, <1>2, <1>3, <1>4, WindowIs
<1>6. Cardinality(A) \in Nat /\ Cardinality(S) \in Nat /\ Cardinality(R) \in Nat /\ Cardinality(B) \in Nat
  BY <1>5, FS_Subset, FS_CardinalityType
<1> QED
  BY <1>1, <1>2, <1>3, <1>4, <1>6 DEF Parts, All

\* Photos on sale and raw ones are the RAW ones; with those of bookings they are all.
LEMMA PartsAddUp ==
  ASSUME NEW rows, SoldAsRaw(rows), NEW from, NEW to
  PROVE  /\ Parts(rows, from, to)[1] + Parts(rows, from, to)[2] = Cardinality(RawIn(rows, from, to))
         /\ Parts(rows, from, to)[1] + Parts(rows, from, to)[2] + Parts(rows, from, to)[3] = All(rows, from, to)
<1>1. PICK A : A = InWindow(rows, from, to)
  OBVIOUS
<1>2. PICK S : S = SoldIn(rows, from, to)
  OBVIOUS
<1>3. PICK R : R = RawIn(rows, from, to)
  OBVIOUS
<1>4. PICK B : B = BookedIn(rows, from, to)
  OBVIOUS
<1>5. IsFiniteSet(A) /\ S \in SUBSET A /\ R \in SUBSET A /\ B \in SUBSET A
  BY <1>1, <1>2, <1>3, <1>4, WindowIs
<1>6. S \subseteq R /\ R \cap B = {} /\ R \cup B = A
  <2>1. S \subseteq R
    BY <1>2, <1>3 DEF SoldIn, RawIn, SoldAsRaw, InWindow
  <2>2. R \cap B = {}
    BY <1>3, <1>4 DEF RawIn, BookedIn
  <2>3. \A f \in A : rows[f].type \in {"RAW", "BOOKING"}
    BY <1>1 DEF InWindow, SoldAsRaw, PhotoRow
  <2>4. R = {f \in A : rows[f].type = "RAW"} /\ B = {f \in A : rows[f].type = "BOOKING"}
    BY <1>1, <1>3, <1>4 DEF RawIn, BookedIn
  <2>5. R \cup B = A
    BY <2>3, <2>4
  <2> QED
    BY <2>1, <2>2, <2>5
<1>7. IsFiniteSet(S) /\ IsFiniteSet(R) /\ IsFiniteSet(B)
  BY <1>5, FS_Subset
<1>8. Cardinality(R \ S) = Cardinality(R) - Cardinality(S)
  <2>1. R \cap S = S
    BY <1>6
  <2> QED
    BY <1>7, <2>1, FS_Difference
<1>9. Cardinality(A) = Cardinality(R) + Cardinality(B)
  <2>1. Cardinality(R \cup B) = Cardinality(R) + Cardinality(B) - Cardinality(R \cap B)
    BY <1>7, FS_Union
  <2>2. Cardinality(R \cap B) = 0
    BY <1>6, FS_EmptySet
  <2>3. Cardinality(R) \in Nat /\ Cardinality(B) \in Nat
    BY <1>7, FS_CardinalityType
  <2>4. A = R \cup B
    BY <1>6
  <2>5. Cardinality(A) = Cardinality(R) + Cardinality(B) - 0
    BY <2>1, <2>2, <2>4, Zenon
  <2> QED
    BY <2>3, <2>5
<1>10. Cardinality(S) \in Nat /\ Cardinality(R) \in Nat /\ Cardinality(B) \in Nat
  BY <1>7, FS_CardinalityType
<1>11. /\ Parts(rows, from, to)[1] = Cardinality(S) /\ Parts(rows, from, to)[2] = Cardinality(R \ S)
       /\ Parts(rows, from, to)[3] = Cardinality(B) /\ All(rows, from, to) = Cardinality(A)
  BY <1>1, <1>2, <1>3, <1>4 DEF Parts, All
<1> QED
  BY <1>3, <1>8, <1>9, <1>10, <1>11

\* When no photo is deleted and none changes its type, each count only grows.
LEMMA PartsGrow ==
  ASSUME LibraryInv, PhotosKept, ~May("delete"), ~May("retype"), NEW from, NEW to
  PROVE  /\ Parts(photo, from, to)[1] <= Parts(photo', from, to)[1]
         /\ Cardinality(RawIn(photo, from, to)) <= Cardinality(RawIn(photo', from, to))
         /\ All(photo, from, to) <= All(photo', from, to)
<1>1. PICK new : new = photo'
  OBVIOUS
<1>2. \A f \in InWindow(photo, from, to) :
        /\ f \in InWindow(new, from, to) /\ new[f].type = photo[f].type /\ photo[f].sales \subseteq new[f].sales
  <2> SUFFICES ASSUME NEW f \in PhotoId, photo[f] # NoPhoto, photo[f].deleted = 0, Within(photo[f].created, from, to)
               PROVE  /\ f \in InWindow(new, from, to) /\ new[f].type = photo[f].type
                      /\ photo[f].sales \subseteq new[f].sales
    BY DEF InWindow
  <2>1. new[f] # NoPhoto /\ Keeps(photo[f], new[f])
    BY <1>1 DEF PhotosKept, Has
  <2>2. /\ new[f].deleted = 0 /\ new[f].created = photo[f].created /\ new[f].type = photo[f].type
        /\ photo[f].sales \subseteq new[f].sales
    BY <2>1 DEF Keeps
  <2> QED
    BY <2>1, <2>2 DEF InWindow
<1>3. InWindow(photo, from, to) \subseteq InWindow(new, from, to)
  BY <1>2
<1>4. RawIn(photo, from, to) \subseteq RawIn(new, from, to)
  BY <1>2 DEF RawIn
<1>5. SoldIn(photo, from, to) \subseteq SoldIn(new, from, to)
  BY <1>2 DEF SoldIn
<1>6. IsFiniteSet(SoldIn(new, from, to)) /\ IsFiniteSet(RawIn(new, from, to)) /\ IsFiniteSet(InWindow(new, from, to))
  BY WindowIs, FS_Subset
<1>7. /\ Cardinality(SoldIn(photo, from, to)) <= Cardinality(SoldIn(new, from, to))
      /\ Cardinality(RawIn(photo, from, to)) <= Cardinality(RawIn(new, from, to))
      /\ Cardinality(InWindow(photo, from, to)) <= Cardinality(InWindow(new, from, to))
  BY <1>3, <1>4, <1>5, <1>6, FS_Subset
<1> QED
  BY <1>1, <1>7 DEF Parts, All

-----------------------------------------------------------------------------
(* Values that nothing changes, once no step of another part is made *)

Lasting == {"photoRevenue", "upgradeRevenue", "selling", "raw", "booking", "photo", "withdrawal", "balance"} \cup Users

\* With ~setting.during nothing moves between the queries: each answer stays true.
Exact == ~setting.during => \A x \in Lasting : Told(x) => report.value[x] = Value(x, {})

LEMMA ValueIs ==
  /\ Value("photoRevenue", {}) = PhotoRevenue /\ Value("upgradeRevenue", {}) = UpgradeRevenue
  /\ Value("selling", {}) = SellingPhotos /\ Value("raw", {}) = RawPhotos /\ Value("booking", {}) = BookingPhotos
  /\ Value("photo", {}) = Counted(PhotoId) /\ Value("withdrawal", {}) = Withdrawn /\ Value("balance", {}) = Balance
  /\ \A u \in Users : Value(u, {}) = SalesOf(u)
<1>1. \A u \in Users : Value(u, {}) = SalesOf(u)
  BY NotUsers DEF Value
<1>2. Value("photoRevenue", {}) = PhotoRevenue
  BY NotUsers DEF Value
<1>3. Value("upgradeRevenue", {}) = UpgradeRevenue
  BY NotUsers DEF Value
<1>4. Value("selling", {}) = SellingPhotos
  BY NotUsers DEF Value
<1>5. Value("raw", {}) = RawPhotos
  BY NotUsers DEF Value
<1>6. Value("booking", {}) = BookingPhotos
  BY NotUsers DEF Value
<1>7. Value("photo", {}) = Counted(PhotoId)
  BY NotUsers DEF Value
<1>8. Value("withdrawal", {}) = Withdrawn
  BY NotUsers DEF Value
<1>9. Value("balance", {}) = Balance
  BY NotUsers DEF Value
<1> QED
  BY <1>1, <1>2, <1>3, <1>4, <1>5, <1>6, <1>7, <1>8, <1>9

LEMMA LastingValue == ASSUME NEW x \in Lasting, NEW cameras PROVE Value(x, cameras) = Value(x, {})
<1>1. CASE x \in Users
  BY <1>1, NotUsers DEF Value
<1>2. CASE x \notin Users
  BY <1>2 DEF Value, Lasting
<1> QED
  BY <1>1, <1>2

LEMMA PhotosStill ==
  ASSUME photo' = photo, report'.from = report.from, report'.to = report.to
  PROVE  /\ SellingPhotos' = SellingPhotos /\ RawPhotos' = RawPhotos /\ BookingPhotos' = BookingPhotos
         /\ Counted(PhotoId)' = Counted(PhotoId)
<1>1. {f \in {f \in PhotoId : OnSale(f)'} : Live(f)' /\ In(photo[f].created)'}
        = {f \in {f \in PhotoId : OnSale(f)} : Live(f) /\ In(photo[f].created)}
  BY DEF OnSale, Live, Has, In
<1>2. {f \in {f \in PhotoId : photo'[f].type = "RAW" /\ ~OnSale(f)'} : Live(f)' /\ In(photo[f].created)'}
        = {f \in {f \in PhotoId : photo[f].type = "RAW" /\ ~OnSale(f)} : Live(f) /\ In(photo[f].created)}
  BY DEF OnSale, Live, Has, In
<1>3. {f \in {f \in PhotoId : photo'[f].type = "BOOKING"} : Live(f)' /\ In(photo[f].created)'}
        = {f \in {f \in PhotoId : photo[f].type = "BOOKING"} : Live(f) /\ In(photo[f].created)}
  BY DEF Live, Has, In
<1>4. {f \in PhotoId : Live(f)' /\ In(photo[f].created)'} = {f \in PhotoId : Live(f) /\ In(photo[f].created)}
  BY DEF Live, Has, In
<1>5. SellingPhotos' = SellingPhotos
  BY <1>1 DEF SellingPhotos, Counted
<1>6. RawPhotos' = RawPhotos
  BY <1>2 DEF RawPhotos, Counted
<1>7. BookingPhotos' = BookingPhotos
  BY <1>3 DEF BookingPhotos, Counted
<1>8. Counted(PhotoId)' = Counted(PhotoId)
  BY <1>4 DEF Counted
<1> QED
  BY <1>5, <1>6, <1>7, <1>8

LEMMA RevenueStill ==
  ASSUME tx' = tx, report'.from = report.from, report'.to = report.to
  PROVE  /\ PhotoRevenue' = PhotoRevenue /\ UpgradeRevenue' = UpgradeRevenue
         /\ Withdrawn' = Withdrawn /\ Balance' = Balance /\ \A u \in Users : SalesOf(u)' = SalesOf(u)
<1>1. {i \in TxId : tx'[i].credit # 0 /\ In(tx[i].at)'} = {i \in TxId : tx[i].credit # 0 /\ In(tx[i].at)}
  BY DEF In
<1>2. \A type : Succeeded(type)' = Succeeded(type)
  BY DEF In, Succeeded
<1>3. {i \in TxId : tx'[i].status = "SUCCESS" /\ In(tx[i].at)'} = {i \in TxId : tx[i].status = "SUCCESS" /\ In(tx[i].at)}
  BY DEF In
<1>4. PhotoRevenue' = PhotoRevenue
  BY <1>1 DEF PhotoRevenue
<1>5. UpgradeRevenue' = UpgradeRevenue
  BY <1>2 DEF UpgradeRevenue, Sum
<1>6. Withdrawn' = Withdrawn
  BY <1>2 DEF Withdrawn, Sum
<1>7. Balance' = Balance
  BY <1>3 DEF Balance, Sum
<1>8. ASSUME NEW u \in Users PROVE SalesOf(u)' = SalesOf(u)
  BY <1>2 DEF SalesOf
<1> QED
  BY <1>4, <1>5, <1>6, <1>7, <1>8

LEMMA ValuesStill ==
  ASSUME UNCHANGED <<photo, tx>>, report'.from = report.from, report'.to = report.to
  PROVE  \A x \in Lasting : Value(x, {})' = Value(x, {})
<1>1. /\ SellingPhotos' = SellingPhotos /\ RawPhotos' = RawPhotos /\ BookingPhotos' = BookingPhotos
      /\ Counted(PhotoId)' = Counted(PhotoId)
  BY PhotosStill
<1>2. /\ PhotoRevenue' = PhotoRevenue /\ UpgradeRevenue' = UpgradeRevenue
      /\ Withdrawn' = Withdrawn /\ Balance' = Balance /\ \A u \in Users : SalesOf(u)' = SalesOf(u)
  BY RevenueStill
<1>3. \A u \in Users : Value(u, {})' = Value(u, {})
  BY <1>2, NotUsers DEF Value
<1>4. /\ Value("photoRevenue", {})' = Value("photoRevenue", {}) /\ Value("upgradeRevenue", {})' = Value("upgradeRevenue", {})
      /\ Value("selling", {})' = Value("selling", {}) /\ Value("raw", {})' = Value("raw", {})
      /\ Value("booking", {})' = Value("booking", {}) /\ Value("photo", {})' = Value("photo", {})
      /\ Value("withdrawal", {})' = Value("withdrawal", {}) /\ Value("balance", {})' = Value("balance", {})
  BY <1>1, <1>2 DEF Value
<1> QED
  BY <1>3, <1>4 DEF Lasting

\* Nothing the report reads changes; a query may be answered.
LEMMA ExactStill ==
  ASSUME Exact, UNCHANGED <<setting, photo, tx, report>>
  PROVE  Exact'
<1>1. \A x \in Lasting : Value(x, {})' = Value(x, {})
  BY ValuesStill
<1> QED
  BY <1>1 DEF Exact, Told

LEMMA ExactAnswer ==
  ASSUME Exact, UNCHANGED <<setting, photo, tx>>, NEW x, NEW cameras, NEW value, value = Value(x, cameras),
         Answered(x, value)
  PROVE  Exact'
<1> SUFFICES ASSUME ~setting.during, NEW y \in Lasting, y \in DOMAIN report'.value
             PROVE  report'.value[y] = Value(y, {})'
  BY DEF Exact, Told
<1>1. Value(y, {})' = Value(y, {})
  BY ValuesStill DEF Answered
<1>2. CASE y = x
  BY <1>1, <1>2, LastingValue DEF Answered
<1>3. CASE y # x
  <2>1. y \in DOMAIN report.value /\ report'.value[y] = report.value[y]
    BY <1>3 DEF Answered
  <2> QED
    BY <1>1, <2>1 DEF Exact, Told
<1> QED
  BY <1>2, <1>3

LEMMA ExactBegins == ASSUME DOMAIN report.value = {} PROVE Exact
  BY DEF Exact, Told

-----------------------------------------------------------------------------
(* Parts that are counted before the total *)

\* Each part was counted when there were no more photos than now, and the total last.
CountedSoFar(next, value, rows, from, to) ==
  /\ next > 7 => value["selling"] \in Nat /\ value["selling"] <= Parts(rows, from, to)[1]
  /\ next > 8 => value["raw"] \in Nat /\ value["selling"] + value["raw"] <= Cardinality(RawIn(rows, from, to))
  /\ next > 9 => /\ value["booking"] \in Nat
                 /\ value["selling"] + value["raw"] + value["booking"] <= All(rows, from, to)
  /\ next > 10 => value["selling"] + value["raw"] + value["booking"] <= value["photo"]
Growing ==
  ~May("delete") /\ ~May("retype") /\ report.kind = "data"
    => CountedSoFar(report.next, report.value, photo, report.from, report.to)

LEMMA RawInIs == ASSUME NEW rows, NEW from, NEW to PROVE Cardinality(RawIn(rows, from, to)) \in Nat
<1>1. IsFiniteSet(RawIn(rows, from, to))
  BY WindowIs, FS_Subset
<1> QED
  BY <1>1, FS_CardinalityType

LEMMA GrowingLater ==
  ASSUME LibraryInv, ReportInv, Growing, PhotosKept, UNCHANGED <<setting, report>>
  PROVE  Growing'
<1> SUFFICES ASSUME ~May("delete"), ~May("retype"), report.kind = "data"
             PROVE  CountedSoFar(report.next, report.value, photo', report.from, report.to)
  BY DEF Growing, May
<1>1. CountedSoFar(report.next, report.value, photo, report.from, report.to)
  BY DEF Growing
<1>2. /\ Parts(photo, report.from, report.to)[1] <= Parts(photo', report.from, report.to)[1]
      /\ Cardinality(RawIn(photo, report.from, report.to)) <= Cardinality(RawIn(photo', report.from, report.to))
      /\ All(photo, report.from, report.to) <= All(photo', report.from, report.to)
  BY PartsGrow
<1>3. /\ Parts(photo, report.from, report.to)[1] \in Nat /\ Parts(photo', report.from, report.to)[1] \in Nat
      /\ All(photo, report.from, report.to) \in Nat /\ All(photo', report.from, report.to) \in Nat
  BY PartsAre
<1>4. /\ Cardinality(RawIn(photo, report.from, report.to)) \in Nat
      /\ Cardinality(RawIn(photo', report.from, report.to)) \in Nat
  BY RawInIs
<1>5. report.next \in Nat
  BY DEF ReportInv
<1> QED
  BY <1>1, <1>2, <1>3, <1>4, <1>5 DEF CountedSoFar

LEMMA GrowingStill ==
  ASSUME Growing, UNCHANGED <<setting, photo, report>>
  PROVE  Growing'
BY DEF Growing, May

LEMMA RowsSoldAsRaw == ASSUME LibraryInv, ~May("retype") PROVE SoldAsRaw(photo)
  BY DEF LibraryInv, PhotosOK, PhotoOK, SoldAsRaw

LEMMA GrowingAnswer ==
  ASSUME LibraryInv, ReportInv, Growing, UNCHANGED <<setting, photo>>,
         NEW x, NEW cameras, NEW value, value = Value(x, cameras), Answered(x, value)
  PROVE  Growing'
<1> SUFFICES ASSUME ~May("delete"), ~May("retype"), report.kind = "data"
             PROVE  CountedSoFar(report'.next, report'.value, photo, report.from, report.to)
  BY DEF Growing, May, Answered
<1>1. PICK v : v = report.value
  OBVIOUS
<1>2. PICK w : w = report'.value
  OBVIOUS
<1>3. PICK n \in Nat : n = report.next
  BY DEF ReportInv
<1>4. PICK s : s = Parts(photo, report.from, report.to)[1]
  OBVIOUS
<1>5. PICK r : r = Parts(photo, report.from, report.to)[2]
  OBVIOUS
<1>6. PICK b : b = Parts(photo, report.from, report.to)[3]
  OBVIOUS
<1>7. PICK a : a = All(photo, report.from, report.to)
  OBVIOUS
<1>8. s \in Nat /\ r \in Nat /\ b \in Nat /\ a \in Nat
  BY <1>4, <1>5, <1>6, <1>7, PartsAre
<1>9. s + r = Cardinality(RawIn(photo, report.from, report.to)) /\ s + r + b = a
  BY <1>4, <1>5, <1>6, <1>7, RowsSoldAsRaw, PartsAddUp
<1>10. /\ n > 7 => v["selling"] \in Nat /\ v["selling"] <= s
       /\ n > 8 => v["raw"] \in Nat /\ v["selling"] + v["raw"] <= s + r
       /\ n > 9 => v["booking"] \in Nat /\ v["selling"] + v["raw"] + v["booking"] <= a
       /\ n > 10 => v["selling"] + v["raw"] + v["booking"] <= v["photo"]
  BY <1>1, <1>3, <1>4, <1>7, <1>9 DEF Growing, CountedSoFar
<1>11. n \in 1..14 /\ x = DataQueries[n] /\ report'.next = n + 1 /\ w[x] = value
  BY <1>2, <1>3, QueriesAre, DataAre DEF Answered
<1>12. \A k \in 1..(n - 1) : DataQueries[k] # x => w[DataQueries[k]] = v[DataQueries[k]]
  <2>1. \A k \in 1..(n - 1) : DataQueries[k] \in DOMAIN report.value
    BY <1>3, QueriesAre DEF ReportInv
  <2> QED
    BY <1>1, <1>2, <2>1 DEF Answered
<1>13. /\ n > 7 => w["selling"] = v["selling"]
       /\ n > 8 => w["raw"] = v["raw"]
       /\ n > 9 => w["booking"] = v["booking"]
       /\ n > 10 => w["photo"] = v["photo"]
  <2>1. DataQueries[7] = "selling" /\ DataQueries[8] = "raw" /\ DataQueries[9] = "booking" /\ DataQueries[10] = "photo"
    BY DataAre
  <2>2. /\ n # 7 => x # "selling"
        /\ n # 8 => x # "raw"
        /\ n # 9 => x # "booking"
        /\ n # 10 => x # "photo"
    BY <1>11, DataAre
  <2>3. n > 7 => w["selling"] = v["selling"]
    BY <1>12, <2>1, <2>2
  <2>4. n > 8 => w["raw"] = v["raw"]
    BY <1>12, <2>1, <2>2
  <2>5. n > 9 => w["booking"] = v["booking"]
    BY <1>12, <2>1, <2>2
  <2>6. n > 10 => w["photo"] = v["photo"]
    BY <1>12, <2>1, <2>2
  <2> QED
    BY <2>3, <2>4, <2>5, <2>6
<1>14. /\ n = 7 => w["selling"] = s
       /\ n = 8 => w["raw"] = r
       /\ n = 9 => w["booking"] = b
       /\ n = 10 => w["photo"] = a
  <2>1. /\ Value("selling", {}) = s /\ Value("raw", {}) = r /\ Value("booking", {}) = b /\ Value("photo", {}) = a
    BY <1>4, <1>5, <1>6, <1>7, ValueIs, CountsAre
  <2>2. x \in Lasting => w[x] = Value(x, {})
    BY <1>11, LastingValue
  <2>3. /\ n = 7 => x = "selling"
        /\ n = 8 => x = "raw"
        /\ n = 9 => x = "booking"
        /\ n = 10 => x = "photo"
    BY <1>11, DataAre
  <2> QED
    BY <2>1, <2>2, <2>3 DEF Lasting
<1>15. /\ n + 1 > 7 => w["selling"] \in Nat /\ w["selling"] <= s
       /\ n + 1 > 8 => w["raw"] \in Nat /\ w["selling"] + w["raw"] <= s + r
       /\ n + 1 > 9 => w["booking"] \in Nat /\ w["selling"] + w["raw"] + w["booking"] <= a
       /\ n + 1 > 10 => w["selling"] + w["raw"] + w["booking"] <= w["photo"]
  <2>1. n + 1 > 7 => w["selling"] \in Nat /\ w["selling"] <= s
    BY <1>8, <1>10, <1>13, <1>14
  <2>2. n + 1 > 8 => w["raw"] \in Nat /\ w["selling"] + w["raw"] <= s + r
    BY <1>8, <1>10, <1>13, <1>14, <2>1
  <2>3. n + 1 > 9 => w["booking"] \in Nat /\ w["selling"] + w["raw"] + w["booking"] <= a
    BY <1>8, <1>9, <1>10, <1>13, <1>14, <2>1, <2>2
  <2>4. n + 1 > 10 => w["selling"] + w["raw"] + w["booking"] <= w["photo"]
    BY <1>8, <1>10, <1>13, <1>14, <2>3
  <2> QED
    BY <2>1, <2>2, <2>3, <2>4
<1> QED
  BY <1>2, <1>4, <1>7, <1>9, <1>11, <1>15 DEF CountedSoFar

\* A report that has just been asked for has counted nothing.
LEMMA GrowingBegins == ASSUME report.next \in 0..1 PROVE Growing
  BY DEF Growing, CountedSoFar

\* A report counts each photo once at most, and exactly once when nothing happens in between.
LEMMA PartsAreOfTotal ==
  ASSUME LibraryInv, ReportInv, Exact, Growing
  PROVE  PartsOfTotal
<1> SUFFICES ASSUME Reported("data"), ~May("retype")
             PROVE  LET parts == report.value["selling"] + report.value["raw"] + report.value["booking"]
                    IN /\ ~(May("delete") /\ setting.during) => parts <= report.value["photo"]
                       /\ ~setting.during => parts = report.value["photo"]
  BY DEF PartsOfTotal
<1>1. ASSUME ~setting.during
      PROVE  /\ report.value["selling"] + report.value["raw"] + report.value["booking"] = report.value["photo"]
             /\ report.value["photo"] \in Nat
  <2>1. Told("selling") /\ Told("raw") /\ Told("booking") /\ Told("photo")
    BY AllTold, DataAre
  <2>2. /\ report.value["selling"] = SellingPhotos /\ report.value["raw"] = RawPhotos
        /\ report.value["booking"] = BookingPhotos /\ report.value["photo"] = Counted(PhotoId)
    BY <1>1, <2>1, ValueIs DEF Exact, Lasting
  <2>3. SoldAsRaw(photo)
    BY RowsSoldAsRaw
  <2> QED
    BY <2>2, <2>3, CountsAre, PartsAre, PartsAddUp
<1>2. ASSUME ~May("delete"), setting.during
      PROVE  report.value["selling"] + report.value["raw"] + report.value["booking"] <= report.value["photo"]
  <2>1. report.next > 10
    <3>1. report.next > Len(DataQueries)
      BY QueriesAre DEF Reported
    <3> QED
      BY <3>1, DataAre DEF ReportInv
  <2>2. CountedSoFar(report.next, report.value, photo, report.from, report.to)
    BY <1>2 DEF Growing, Reported
  <2> QED
    BY <2>1, <2>2 DEF CountedSoFar
<1> QED
  BY <1>1, <1>2

-----------------------------------------------------------------------------
(* The books *)

Paid(i) == tx[i].status = "SUCCESS"

\* What each row of the table is to the books.
InBank == [i \in TxId |-> IF Paid(i) /\ tx[i].method = "SEPAY" /\ tx[i].type # "WITHDRAWAL" THEN tx[i].amount ELSE 0]
OffPrice == [i \in TxId |-> IF Paid(i) /\ tx[i].type = "UPGRADE_TO_PHOTOGRAPHER" THEN tx[i].fee ELSE 0]
InWallets == [i \in TxId |-> IF Paid(i) THEN WalletEffect(tx[i]) ELSE 0]
PaidOut == [i \in TxId |-> IF Paid(i) /\ tx[i].type = "WITHDRAWAL" THEN tx[i].amount ELSE 0]
Fees == [i \in TxId |-> IF tx[i].credit # 0 THEN Tenth ELSE 0]
Upgrades == [i \in TxId |-> IF Paid(i) /\ tx[i].type = "UPGRADE_TO_PHOTOGRAPHER" THEN tx[i].amount + tx[i].fee ELSE 0]
\* What buyers paid to photographers, and photographers were paid.
Spent == [i \in TxId |-> IF tx[i].credit # 0 THEN Price - Tenth ELSE 0]
Earned == [i \in TxId |-> IF tx[i].type = "IMAGE_SELL" THEN Price - Tenth ELSE 0]

Total(f) == SumFunctionOnSet(f, TxId)

LEMMA TxIds == IsFiniteSet(TxId)
  BY PricesAre, FS_Interval DEF TxId

LEMMA RowTyped ==
  ASSUME MoneyInv, NEW i \in TxId
  PROVE  /\ tx[i].amount \in Nat /\ tx[i].fee \in Nat /\ tx[i].credit \in {0} \cup TxId
         /\ tx[i].type \in TransactionType /\ tx[i].method \in PaymentMethod /\ Shape(tx[i])
<1>1. tx[i] \in Row /\ Shape(tx[i])
  BY DEF MoneyInv
<1> QED
  BY <1>1 DEF Row

LEMMA PaidIs == ASSUME MoneyInv, NEW i \in TxId, Paid(i) PROVE tx[i] # NoRow
  BY NoRowIs DEF Paid, Unused

\* A purchase is credited exactly when it is paid.
LEMMA CreditedIs ==
  ASSUME MoneyInv, NEW i \in TxId
  PROVE  tx[i].credit # 0 <=> Paid(i) /\ tx[i].type = "IMAGE_BUY"
<1>1. Shape(tx[i])
  BY DEF MoneyInv
<1>2. CASE tx[i] = NoRow
  BY <1>2, NoRowIs DEF Paid, Unused
<1>3. CASE tx[i] # NoRow
  BY <1>1, <1>3 DEF Shape, Paid
<1> QED
  BY <1>2, <1>3

LEMMA CreditIsSale ==
  ASSUME MoneyInv, NEW i \in Bought
  PROVE  /\ i \in TxId /\ tx[i].credit \in TxId /\ tx[tx[i].credit].fee = Tenth /\ tx[tx[i].credit].user \in Users
<1>1. i \in TxId /\ tx[i].credit # 0
  BY DEF Bought
<1>2. PICK k \in TxId : k = tx[i].credit
  BY <1>1, RowTyped
<1>3. tx[k].type = "IMAGE_SELL" /\ Shape(tx[k])
  BY <1>2 DEF MoneyInv
<1>4. tx[k].fee = Tenth /\ tx[k].user \in Users
  BY <1>3, NoRowIs DEF Shape
<1> QED
  BY <1>1, <1>2, <1>4

\* Everything that happened is in the window of a report over all time.
LEMMA AllInWindow ==
  ASSUME LibraryInv, MoneyInv, ReportInv, AllTime, NEW i \in TxId, tx[i] # NoRow
  PROVE  In(tx[i].at)
<1>1. First <= tx[i].at /\ tx[i].at <= now /\ tx[i].at \in {0} \cup Time
  BY DEF MoneyInv, Row
<1>2. report.from = First /\ report.to >= now
  BY DEF AllTime
<1>3. {0} \cup Time \subseteq Nat
  BY NumbersAre
<1>4. tx[i].at \in Nat /\ now \in Nat /\ report.to \in Nat
  BY <1>1, <1>3 DEF LibraryInv, ReportInv
<1> QED
  BY <1>1, <1>2, <1>4 DEF In

LEMMA EffectIs ==
  ASSUME MoneyInv, NEW i \in TxId, Paid(i)
  PROVE  WalletEffect(tx[i]) =
           IF tx[i].type = "DEPOSIT" THEN tx[i].amount
           ELSE IF tx[i].type = "IMAGE_SELL" THEN Price - Tenth
           ELSE IF tx[i].type = "WITHDRAWAL" \/ tx[i].method = "WALLET" THEN -tx[i].amount ELSE 0
<1>1. Shape(tx[i]) /\ tx[i] # NoRow /\ tx[i].status = "SUCCESS"
  BY RowTyped, PaidIs DEF Paid
<1>2. CASE tx[i].type = "DEPOSIT"
  BY <1>1, <1>2 DEF WalletEffect
<1>3. CASE tx[i].type = "IMAGE_SELL"
  BY <1>1, <1>3 DEF WalletEffect, Shape
<1>4. CASE tx[i].type = "WITHDRAWAL"
  BY <1>1, <1>4 DEF WalletEffect
<1>5. CASE tx[i].type \in {"IMAGE_BUY", "UPGRADE_TO_PHOTOGRAPHER"}
  BY <1>1, <1>5 DEF WalletEffect
<1> QED
  BY <1>1, <1>2, <1>3, <1>4, <1>5 DEF Shape

\* The summands are integers.
LEMMA BooksTyped ==
  ASSUME MoneyInv
  PROVE  \A i \in TxId : /\ InBank[i] \in Int /\ OffPrice[i] \in Int /\ InWallets[i] \in Int /\ PaidOut[i] \in Int
                         /\ Fees[i] \in Int /\ Upgrades[i] \in Int /\ Spent[i] \in Int /\ Earned[i] \in Int
<1> SUFFICES ASSUME NEW i \in TxId
             PROVE  /\ InBank[i] \in Int /\ OffPrice[i] \in Int /\ InWallets[i] \in Int /\ PaidOut[i] \in Int
                    /\ Fees[i] \in Int /\ Upgrades[i] \in Int /\ Spent[i] \in Int /\ Earned[i] \in Int
  OBVIOUS
<1>1. tx[i].amount \in Nat /\ tx[i].fee \in Nat
  BY RowTyped
<1>2. Price \in Nat /\ Tenth \in Nat
  BY PricesAre
<1>3. Paid(i) => WalletEffect(tx[i]) \in Int
  BY <1>1, <1>2, EffectIs
<1>4. InWallets[i] \in Int
  BY <1>3 DEF InWallets
<1>5. InBank[i] \in Int /\ OffPrice[i] \in Int /\ PaidOut[i] \in Int /\ Upgrades[i] \in Int
  BY <1>1 DEF InBank, OffPrice, PaidOut, Upgrades
<1>6. Fees[i] \in Int /\ Spent[i] \in Int /\ Earned[i] \in Int
  BY <1>2 DEF Fees, Spent, Earned
<1> QED
  BY <1>4, <1>5, <1>6

\* Row by row the books balance but for what a purchase moves from the buyer to the photographer.
LEMMA RowBalances ==
  ASSUME MoneyInv, NEW i \in TxId
  PROVE  InWallets[i] + PaidOut[i] + Fees[i] + Upgrades[i] + Spent[i] = InBank[i] + OffPrice[i] + Earned[i]
<1>1. /\ tx[i].amount \in Nat /\ tx[i].fee \in Nat /\ tx[i].method \in PaymentMethod /\ Shape(tx[i])
      /\ tx[i].type \in TransactionType
  BY RowTyped
<1>2. Price \in Nat /\ Tenth \in Nat
  BY PricesAre
<1>3. tx[i].credit # 0 <=> Paid(i) /\ tx[i].type = "IMAGE_BUY"
  BY CreditedIs
<1>4. CASE ~Paid(i)
  <2>1. tx[i].type # "IMAGE_SELL"
    BY <1>1, <1>4, NoRowIs DEF Shape, Paid
  <2> QED
    BY <1>3, <1>4, <2>1 DEF InWallets, PaidOut, Fees, Upgrades, Spent, InBank, OffPrice, Earned
<1>5. CASE Paid(i)
  <2>1. tx[i] # NoRow
    BY <1>5, PaidIs
  <2>2. tx[i].type \in {"DEPOSIT", "WITHDRAWAL"} => tx[i].method = "SEPAY"
    BY <1>1, <2>1 DEF Shape
  <2>3. tx[i].type = "IMAGE_BUY" => tx[i].amount = Price
    BY <1>1, <2>1, NoRowIs DEF Shape
  <2>4. tx[i].type = "IMAGE_SELL" => tx[i].method = "WALLET"
    BY <1>1, <2>1, NoRowIs DEF Shape
  <2>5. tx[i].method \in {"SEPAY", "WALLET"}
    BY <1>1 DEF PaymentMethod
  <2>6. tx[i].type \in {"DEPOSIT", "WITHDRAWAL", "IMAGE_BUY", "IMAGE_SELL", "UPGRADE_TO_PHOTOGRAPHER"}
    BY <1>1, <2>1 DEF Shape
  <2>7. InWallets[i] = WalletEffect(tx[i])
    BY <1>5 DEF InWallets
  <2>8. CASE tx[i].type = "DEPOSIT"
    BY <1>1, <1>3, <1>5, <2>2, <2>7, <2>8, EffectIs DEF PaidOut, Fees, Upgrades, Spent, InBank, OffPrice, Earned
  <2>9. CASE tx[i].type = "WITHDRAWAL"
    BY <1>1, <1>3, <1>5, <2>2, <2>7, <2>9, EffectIs DEF PaidOut, Fees, Upgrades, Spent, InBank, OffPrice, Earned
  <2>10. CASE tx[i].type = "IMAGE_BUY"
    BY <1>1, <1>2, <1>3, <1>5, <2>3, <2>5, <2>7, <2>10, EffectIs DEF PaidOut, Fees, Upgrades, Spent, InBank, OffPrice, Earned
  <2>11. CASE tx[i].type = "IMAGE_SELL"
    BY <1>1, <1>2, <1>3, <1>5, <2>4, <2>7, <2>11, EffectIs DEF PaidOut, Fees, Upgrades, Spent, InBank, OffPrice, Earned
  <2>12. CASE tx[i].type = "UPGRADE_TO_PHOTOGRAPHER"
    BY <1>1, <1>3, <1>5, <2>5, <2>7, <2>12, EffectIs DEF PaidOut, Fees, Upgrades, Spent, InBank, OffPrice, Earned
  <2> QED
    BY <2>6, <2>8, <2>9, <2>10, <2>11, <2>12
<1> QED
  BY <1>4, <1>5

\* What the report's sums add up, over the whole table.
LEMMA BalanceIs ==
  ASSUME LibraryInv, MoneyInv, ReportInv, AllTime
  PROVE  Balance = Total(InWallets)
<1>1. PICK R : R = {i \in TxId : tx[i].status = "SUCCESS" /\ In(tx[i].at)}
  OBVIOUS
<1>2. PICK f : f = [i \in R |-> WalletEffect(tx[i])]
  OBVIOUS
<1>3. Balance = SumFunctionOnSet(f, R)
  BY <1>1, <1>2 DEF Balance, Sum
<1>4. \A i \in TxId : i \in R <=> Paid(i)
  BY <1>1, PaidIs, AllInWindow DEF Paid
<1>5. R \in SUBSET TxId
  BY <1>1
<1>6. \A i \in TxId : InWallets[i] = IF i \in R THEN f[i] ELSE 0
  BY <1>2, <1>4 DEF InWallets
<1>7. PartOf(R, TxId, f, InWallets)
  BY <1>5, <1>6, TxIds, BooksTyped DEF PartOf
<1> QED
  BY <1>3, <1>7, SumOverPart DEF Total

LEMMA WithdrawnIs ==
  ASSUME LibraryInv, MoneyInv, ReportInv, AllTime
  PROVE  Withdrawn = Total(PaidOut)
<1>1. PICK R : R = Succeeded("WITHDRAWAL")
  OBVIOUS
<1>2. PICK f : f = [i \in R |-> tx[i].amount]
  OBVIOUS
<1>3. Withdrawn = SumFunctionOnSet(f, R)
  BY <1>1, <1>2 DEF Withdrawn, Sum
<1>4. \A i \in TxId : i \in R <=> Paid(i) /\ tx[i].type = "WITHDRAWAL"
  BY <1>1, PaidIs, AllInWindow DEF Paid, Succeeded
<1>5. R \in SUBSET TxId
  BY <1>1 DEF Succeeded
<1>6. \A i \in TxId : PaidOut[i] = IF i \in R THEN f[i] ELSE 0
  BY <1>2, <1>4 DEF PaidOut
<1>7. PartOf(R, TxId, f, PaidOut)
  BY <1>5, <1>6, TxIds, BooksTyped DEF PartOf
<1> QED
  BY <1>3, <1>7, SumOverPart DEF Total

LEMMA UpgradeRevenueIs ==
  ASSUME LibraryInv, MoneyInv, ReportInv, AllTime
  PROVE  UpgradeRevenue = Total(Upgrades)
<1>1. PICK R : R = Succeeded("UPGRADE_TO_PHOTOGRAPHER")
  OBVIOUS
<1>2. PICK f : f = [i \in R |-> tx[i].amount + tx[i].fee]
  OBVIOUS
<1>3. UpgradeRevenue = SumFunctionOnSet(f, R)
  BY <1>1, <1>2 DEF UpgradeRevenue, Sum
<1>4. \A i \in TxId : i \in R <=> Paid(i) /\ tx[i].type = "UPGRADE_TO_PHOTOGRAPHER"
  BY <1>1, PaidIs, AllInWindow DEF Paid, Succeeded
<1>5. R \in SUBSET TxId
  BY <1>1 DEF Succeeded
<1>6. \A i \in TxId : Upgrades[i] = IF i \in R THEN f[i] ELSE 0
  BY <1>2, <1>4 DEF Upgrades
<1>7. PartOf(R, TxId, f, Upgrades)
  BY <1>5, <1>6, TxIds, BooksTyped DEF PartOf
<1> QED
  BY <1>3, <1>7, SumOverPart DEF Total

LEMMA PhotoRevenueIs ==
  ASSUME LibraryInv, MoneyInv, ReportInv, AllTime
  PROVE  PhotoRevenue = Total(Fees)
<1>1. PICK R : R = {i \in TxId : tx[i].credit # 0 /\ In(tx[i].at)}
  OBVIOUS
<1>2. PICK f : f = [i \in R |-> tx[tx[i].credit].fee]
  OBVIOUS
<1>3. PhotoRevenue = SumFunctionOnSet(f, R)
  BY <1>1, <1>2 DEF PhotoRevenue
<1>4. \A i \in TxId : i \in R <=> i \in Bought
  BY <1>1, CreditedIs, PaidIs, AllInWindow DEF Bought
<1>5. R \in SUBSET TxId
  BY <1>1
<1>6. \A i \in TxId : Fees[i] = IF i \in R THEN f[i] ELSE 0
  BY <1>2, <1>4, CreditIsSale DEF Fees, Bought
<1>7. PartOf(R, TxId, f, Fees)
  BY <1>5, <1>6, TxIds, BooksTyped DEF PartOf
<1> QED
  BY <1>3, <1>7, SumOverPart DEF Total

LEMMA PaidInIs == ASSUME MoneyInv PROVE PaidIn = Total(InBank)
<1>1. PICK R : R = {i \in TxId : tx[i].status = "SUCCESS" /\ tx[i].method = "SEPAY" /\ tx[i].type # "WITHDRAWAL"}
  OBVIOUS
<1>2. PICK f : f = [i \in R |-> tx[i].amount]
  OBVIOUS
<1>3. PaidIn = SumFunctionOnSet(f, R)
  BY <1>1, <1>2 DEF PaidIn, Sum
<1>4. R \in SUBSET TxId
  BY <1>1
<1>5. \A i \in TxId : InBank[i] = IF i \in R THEN f[i] ELSE 0
  BY <1>1, <1>2 DEF InBank, Paid
<1>6. PartOf(R, TxId, f, InBank)
  BY <1>4, <1>5, TxIds, BooksTyped DEF PartOf
<1> QED
  BY <1>3, <1>6, SumOverPart DEF Total

LEMMA TakenOffIs == ASSUME MoneyInv PROVE TakenOff = Total(OffPrice)
<1>1. PICK R : R = {i \in TxId : tx[i].status = "SUCCESS" /\ tx[i].type = "UPGRADE_TO_PHOTOGRAPHER"}
  OBVIOUS
<1>2. PICK f : f = [i \in R |-> tx[i].fee]
  OBVIOUS
<1>3. TakenOff = SumFunctionOnSet(f, R)
  BY <1>1, <1>2 DEF TakenOff, Sum
<1>4. R \in SUBSET TxId
  BY <1>1
<1>5. \A i \in TxId : OffPrice[i] = IF i \in R THEN f[i] ELSE 0
  BY <1>1, <1>2 DEF OffPrice, Paid
<1>6. PartOf(R, TxId, f, OffPrice)
  BY <1>4, <1>5, TxIds, BooksTyped DEF PartOf
<1> QED
  BY <1>3, <1>6, SumOverPart DEF Total

\* As much is spent on photos as is earned with them, fees left out.
LEMMA SpentIsEarned == ASSUME MoneyInv PROVE Total(Spent) = Total(Earned)
<1>1. PICK c \in Int : c = Price - Tenth
  BY PricesAre
<1>2. ASSUME NEW R \in SUBSET TxId, NEW g, \A i \in TxId : g[i] = IF i \in R THEN c ELSE 0
      PROVE  Total(g) = c * Cardinality(R)
  <2>1. PICK f : f = [i \in R |-> c]
    OBVIOUS
  <2>2. PartOf(R, TxId, f, g)
    BY <1>2, <2>1, TxIds DEF PartOf
  <2>3. IsFiniteSet(R) /\ \A i \in R : f[i] = c
    BY <2>1, TxIds, FS_Subset
  <2>4. SumFunctionOnSet(f, R) = c * Cardinality(R)
    BY <2>3, SumConst
  <2> QED
    BY <2>2, <2>4, SumOverPart DEF Total
<1>3. Total(Spent) = c * Cardinality(Bought)
  <2>1. Bought \in SUBSET TxId /\ \A i \in TxId : Spent[i] = IF i \in Bought THEN c ELSE 0
    BY <1>1 DEF Bought, Spent
  <2> QED
    BY <1>2, <2>1
<1>4. Total(Earned) = c * Cardinality(Sold)
  <2>1. Sold \in SUBSET TxId /\ \A i \in TxId : Earned[i] = IF i \in Sold THEN c ELSE 0
    BY <1>1 DEF Sold, Earned
  <2> QED
    BY <1>2, <2>1
<1>5. Cardinality(Bought) = Cardinality(Sold)
  BY DEF MoneyInv
<1> QED
  BY <1>3, <1>4, <1>5, Zenon

LEMMA CancelSame ==
  ASSUME NEW x \in Int, NEW y \in Int, NEW m \in Int, x + m = y + m
  PROVE  x = y
OBVIOUS

LEMMA TotalType == ASSUME NEW f, \A i \in TxId : f[i] \in Int PROVE Total(f) \in Int
  BY TxIds, SumType DEF Total

LEMMA TotalPlus ==
  ASSUME NEW f, NEW g, \A i \in TxId : f[i] \in Int /\ g[i] \in Int
  PROVE  \E h : Total(h) = Total(f) + Total(g) /\ \A i \in TxId : h[i] = f[i] + g[i]
<1>1. PICK h : h = [i \in TxId |-> f[i] + g[i]]
  OBVIOUS
<1>2. \A i \in TxId : h[i] = f[i] + g[i]
  BY <1>1
<1>3. AddsUp(TxId, f, g, h)
  BY <1>2, TxIds DEF AddsUp
<1> QED
  BY <1>2, <1>3, SumAdds DEF Total

LEMMA BooksAddUp ==
  ASSUME MoneyInv
  PROVE  Total(InWallets) + Total(PaidOut) + Total(Fees) + Total(Upgrades) = Total(InBank) + Total(OffPrice)
<1>0. \A i \in TxId : /\ InBank[i] \in Int /\ OffPrice[i] \in Int /\ InWallets[i] \in Int /\ PaidOut[i] \in Int
                      /\ Fees[i] \in Int /\ Upgrades[i] \in Int /\ Spent[i] \in Int /\ Earned[i] \in Int
  BY BooksTyped
<1>1. PICK a : Total(a) = Total(InWallets) + Total(PaidOut) /\ \A i \in TxId : a[i] = InWallets[i] + PaidOut[i]
  BY <1>0, TotalPlus
<1>2. \A i \in TxId : a[i] \in Int
  BY <1>0, <1>1
<1>3. PICK b : Total(b) = Total(a) + Total(Fees) /\ \A i \in TxId : b[i] = a[i] + Fees[i]
  BY <1>0, <1>2, TotalPlus
<1>4. \A i \in TxId : b[i] \in Int
  BY <1>0, <1>2, <1>3
<1>5. PICK c : Total(c) = Total(b) + Total(Upgrades) /\ \A i \in TxId : c[i] = b[i] + Upgrades[i]
  BY <1>0, <1>4, TotalPlus
<1>6. \A i \in TxId : c[i] \in Int
  BY <1>0, <1>4, <1>5
<1>7. PICK d : Total(d) = Total(c) + Total(Spent) /\ \A i \in TxId : d[i] = c[i] + Spent[i]
  BY <1>0, <1>6, TotalPlus
<1>8. PICK e : Total(e) = Total(InBank) + Total(OffPrice) /\ \A i \in TxId : e[i] = InBank[i] + OffPrice[i]
  BY <1>0, TotalPlus
<1>9. \A i \in TxId : e[i] \in Int
  BY <1>0, <1>8
<1>10. PICK f : Total(f) = Total(e) + Total(Earned) /\ \A i \in TxId : f[i] = e[i] + Earned[i]
  BY <1>0, <1>9, TotalPlus
<1>11. \A i \in TxId : f[i] \in Int /\ d[i] = f[i]
  <2> SUFFICES ASSUME NEW i \in TxId PROVE f[i] \in Int /\ d[i] = f[i]
    OBVIOUS
  <2>1. d[i] = InWallets[i] + PaidOut[i] + Fees[i] + Upgrades[i] + Spent[i]
    BY <1>1, <1>3, <1>5, <1>7
  <2>2. f[i] = InBank[i] + OffPrice[i] + Earned[i]
    BY <1>8, <1>10
  <2>3. f[i] \in Int
    BY <1>0, <1>9, <1>10
  <2> QED
    BY <2>1, <2>2, <2>3, RowBalances
<1>12. Total(d) = Total(f)
  <2>1. SumFunctionOnSet(d, TxId) = SumFunctionOnSet(f, TxId)
    BY <1>11, TxIds, SumSame
  <2> QED
    BY <2>1 DEF Total
<1>13. /\ Total(InWallets) \in Int /\ Total(PaidOut) \in Int /\ Total(Fees) \in Int /\ Total(Upgrades) \in Int
       /\ Total(InBank) \in Int /\ Total(OffPrice) \in Int /\ Total(Spent) \in Int /\ Total(Earned) \in Int
  BY <1>0, TotalType
<1>14. Total(Spent) = Total(Earned)
  BY SpentIsEarned
<1>15. Total(c) = Total(InWallets) + Total(PaidOut) + Total(Fees) + Total(Upgrades)
  BY <1>1, <1>3, <1>5
<1>16. Total(c) + Total(Spent) = Total(e) + Total(Earned)
  BY <1>7, <1>10, <1>12
<1>17. Total(c) \in Int /\ Total(e) \in Int
  BY <1>6, <1>9, TotalType
<1>18. Total(c) = Total(e)
  <2>1. Total(c) + Total(Spent) = Total(e) + Total(Spent)
    BY <1>14, <1>16, Zenon
  <2>2. Total(c) \in Int /\ Total(e) \in Int /\ Total(Spent) \in Int
    BY <1>13, <1>17, Zenon
  <2> QED
    BY <2>1, <2>2, CancelSame, Zenon
<1> QED
  BY <1>8, <1>15, <1>18, Zenon

\* Every credited purchase is the sale of one photographer.
LEMMA SalesAddUp ==
  ASSUME LibraryInv, MoneyInv, ReportInv, AllTime,
         NEW part, \A u \in Users : part[u] = SalesOf(u)
  PROVE  SumFunctionOnSet(part, Users) = Cardinality(Bought)
<1>1. PICK f : f = [i \in Bought |-> 1]
  OBVIOUS
<1>2. PICK owner : owner = [i \in Bought |-> tx[tx[i].credit].user]
  OBVIOUS
<1>3. PICK mine : mine = [u \in Users |-> [i \in Bought |-> IF owner[i] = u THEN 1 ELSE 0]]
  OBVIOUS
<1>4. IsFiniteSet(Bought) /\ IsFiniteSet(Users)
  <2>1. Bought \in SUBSET TxId
    BY DEF Bought
  <2> QED
    BY <2>1, TxIds, FS_Subset, LibraryAssumption
<1>5. \A i \in Bought : owner[i] \in Users /\ f[i] = 1
  BY <1>1, <1>2, CreditIsSale
<1>6. ASSUME NEW u \in Users PROVE part[u] = SumFunctionOnSet(mine[u], Bought)
  <2>1. PICK A : A = {i \in Succeeded("IMAGE_BUY") : tx[tx[i].credit].user = u}
    OBVIOUS
  <2>2. \A i \in TxId : i \in Succeeded("IMAGE_BUY") <=> i \in Bought
    BY CreditedIs, PaidIs, AllInWindow DEF Succeeded, Bought, Paid
  <2>3. Succeeded("IMAGE_BUY") = Bought
    BY <2>2 DEF Succeeded, Bought
  <2>4. A \in SUBSET Bought /\ \A i \in Bought : i \in A <=> owner[i] = u
    BY <1>2, <2>1, <2>3
  <2>5. PICK g : g = mine[u]
    OBVIOUS
  <2>6. \A i \in Bought : g[i] = IF i \in A THEN f[i] ELSE 0
    BY <1>3, <1>5, <2>4, <2>5
  <2>7. PartOf(A, Bought, f, g)
    BY <1>4, <1>5, <2>4, <2>6 DEF PartOf
  <2>8. SumFunctionOnSet(f, A) = SumFunctionOnSet(g, Bought)
    BY <2>7, SumOverPart
  <2>9. IsFiniteSet(A) /\ \A i \in A : f[i] = 1
    BY <1>4, <1>5, <2>4, FS_Subset
  <2>10. SumFunctionOnSet(f, A) = 1 * Cardinality(A) /\ Cardinality(A) \in Nat
    BY <2>9, SumConst, FS_CardinalityType
  <2>11. part[u] = Cardinality(A)
    BY <2>1 DEF SalesOf
  <2> QED
    BY <2>5, <2>8, <2>10, <2>11
<1>7. SharedOut(Bought, Users, f, owner, mine, part, f)
  <2>1. \A i \in Bought : f[i] \in Int /\ f[i] = IF owner[i] \in Users THEN f[i] ELSE 0
    BY <1>5
  <2>2. \A u \in Users : \A i \in Bought : mine[u][i] = IF owner[i] = u THEN f[i] ELSE 0
    BY <1>3, <1>5
  <2> QED
    BY <1>4, <1>6, <2>1, <2>2 DEF SharedOut
<1>8. SumFunctionOnSet(part, Users) = SumFunctionOnSet(f, Bought)
  BY <1>7, SumPerOwner
<1>9. SumFunctionOnSet(f, Bought) = 1 * Cardinality(Bought) /\ Cardinality(Bought) \in Nat
  BY <1>4, <1>5, SumConst, FS_CardinalityType
<1> QED
  BY <1>8, <1>9

LEMMA FeesAre == ASSUME MoneyInv PROVE Total(Fees) = Tenth * Cardinality(Bought)
<1>1. PICK c \in Int : c = Tenth
  BY PricesAre
<1>2. PICK f : f = [i \in Bought |-> c]
  OBVIOUS
<1>3. Bought \in SUBSET TxId /\ \A i \in TxId : Fees[i] = IF i \in Bought THEN f[i] ELSE 0
  BY <1>1, <1>2 DEF Fees, Bought
<1>4. PartOf(Bought, TxId, f, Fees)
  BY <1>3, TxIds, BooksTyped DEF PartOf
<1>5. IsFiniteSet(Bought) /\ \A i \in Bought : f[i] = c
  BY <1>2, <1>3, TxIds, FS_Subset
<1>6. SumFunctionOnSet(f, Bought) = c * Cardinality(Bought)
  BY <1>5, SumConst
<1> QED
  BY <1>1, <1>4, <1>6, SumOverPart DEF Total

LEMMA TimesCommute == ASSUME NEW m \in Int, NEW n \in Int PROVE m * n = n * m
  OBVIOUS

\* The report's numbers balance.
LEMMA BooksDoBalance ==
  ASSUME LibraryInv, MoneyInv, ReportInv, Exact
  PROVE  BooksBalance
<1>1. ASSUME Reported("data"), AllTime
      PROVE  report.value["balance"] + report.value["withdrawal"] + report.value["photoRevenue"]
               + report.value["upgradeRevenue"] = PaidIn + TakenOff
  <2>1. Told("balance") /\ Told("withdrawal") /\ Told("photoRevenue") /\ Told("upgradeRevenue")
    <3>1. \A k \in 1..14 : Told(DataQueries[k])
      BY <1>1, AllTold
    <3> QED
      BY <3>1, DataAre
  <2>2. \A x \in Lasting : Told(x) => report.value[x] = Value(x, {})
    BY <1>1 DEF Exact, AllTime
  <2>3. /\ report.value["balance"] = Balance /\ report.value["withdrawal"] = Withdrawn
        /\ report.value["photoRevenue"] = PhotoRevenue /\ report.value["upgradeRevenue"] = UpgradeRevenue
    BY <2>1, <2>2, ValueIs DEF Lasting
  <2>4. /\ Balance = Total(InWallets) /\ Withdrawn = Total(PaidOut) /\ PhotoRevenue = Total(Fees)
        /\ UpgradeRevenue = Total(Upgrades) /\ PaidIn = Total(InBank) /\ TakenOff = Total(OffPrice)
    BY <1>1, BalanceIs, WithdrawnIs, PhotoRevenueIs, UpgradeRevenueIs, PaidInIs, TakenOffIs
  <2> QED
    BY <2>3, <2>4, BooksAddUp
<1>2. ASSUME Reported("sellers"), AllTime
      PROVE  SumFunctionOnSet([u \in Users |-> report.value[u]], Users) * (Price \div 10) = PhotoRevenue
  <2>1. \A u \in Users : report.value[u] = SalesOf(u)
    <3>1. \A u \in Users : Told(u)
      BY <1>2, AllTold
    <3>2. \A x \in Lasting : Told(x) => report.value[x] = Value(x, {})
      BY <1>2 DEF Exact, AllTime
    <3> QED
      BY <3>1, <3>2, ValueIs DEF Lasting
  <2>2. PICK part : part = [u \in Users |-> report.value[u]]
    OBVIOUS
  <2>3. \A u \in Users : part[u] = SalesOf(u)
    BY <2>1, <2>2
  <2>4. SumFunctionOnSet(part, Users) = Cardinality(Bought)
    BY <1>2, <2>3, SalesAddUp
  <2>5. PhotoRevenue = Tenth * Cardinality(Bought)
    BY <1>2, PhotoRevenueIs, FeesAre
  <2>6. Cardinality(Bought) \in Int /\ Tenth \in Int
    <3>1. Bought \in SUBSET TxId
      BY DEF Bought
    <3>2. IsFiniteSet(Bought)
      BY <3>1, TxIds, FS_Subset
    <3> QED
      BY <3>2, FS_CardinalityType, PricesAre
  <2>7. Cardinality(Bought) * Tenth = Tenth * Cardinality(Bought)
    BY <2>6, TimesCommute
  <2>8. SumFunctionOnSet(part, Users) * Tenth = PhotoRevenue
    BY <2>4, <2>5, <2>7, Zenon
  <2> QED
    BY <2>2, <2>8 DEF Tenth
<1> QED
  BY <1>1, <1>2 DEF BooksBalance

-----------------------------------------------------------------------------
(* All together *)

CatalogueInv ==
  /\ LibraryInv /\ CamerasInv /\ ListingInv /\ PlanInv /\ ShelfInv
  /\ MoneyInv /\ ReportInv /\ Exact /\ Growing

LEMMA NoReportIs ==
  ASSUME report = NoReport
  PROVE  ReportInv /\ Exact /\ Growing
<1>1. /\ report.kind = "none" /\ report.next = 0 /\ report.from = 0 /\ report.to = 0 /\ report.value = <<>>
      /\ report = [kind |-> report.kind, next |-> report.next, from |-> report.from, to |-> report.to,
                   value |-> report.value]
  BY DEF NoReport
<1>2. DOMAIN report.value = {} /\ 1..(report.next - 1) = {}
  BY <1>1
<1>3. {Queries(report.kind)[k] : k \in 1..(report.next - 1)} = {}
  BY <1>2
<1>4. ReportInv
  BY <1>1, <1>2, <1>3 DEF ReportInv, ReportKinds
<1> QED
  BY <1>1, <1>2, <1>4, ExactBegins, GrowingBegins

LEMMA ReportStill == ASSUME ReportInv, UNCHANGED report PROVE ReportInv'
BY DEF ReportInv, Queries

\* What changes while a report is made in a setting without changes changes before its first query.
LEMMA ExactChanges ==
  ASSUME Changeable, UNCHANGED <<setting, report>>
  PROVE  Exact'
<1>1. CASE report = NoReport
  <2>1. DOMAIN report'.value = {}
    BY <1>1 DEF NoReport
  <2> QED
    BY <2>1 DEF Exact, Told
<1>2. CASE setting.during
  BY <1>2 DEF Exact
<1> QED
  BY <1>1, <1>2 DEF Changeable

LEMMA CatalogueBegins == Init => CatalogueInv
BY LibraryBegins, CamerasBegin, ListingBegins, PlansBegin, ShelfBegins, MoneyBegins, NoReportIs
   DEF Init, CatalogueInv, DashboardInit

\* What the steps of the other parts leave alone.
LEMMA PhotoStepLeaves == PhotoStep => setting' = setting
BY DEF PhotoStep, Upload, UploadBooking, Retype, Hide, SellPhoto, StopSellingPhoto, Judge, DeletePhoto, Change

LEMMA PlansStepLeaves == PlansStep => UNCHANGED libraryVars
BY DEF PlansStep, AskWrite, FindByName, WritePlan, DeletePlan, Buy, Wait

LEMMA ShelfStepLeaves == ShelfStep => UNCHANGED libraryVars
BY DEF ShelfStep, CreateOffer, PhotographerAsks, ExpireOwner, Strike, AskDeal, WriteTerms, DeleteOffer, ManagerAsks,
       FindAll, FindAllWithPhotographerId, ManagerFindsAll, Show, Disable, Enable, AskTerms, AskDelete,
       ManagerAsksTerms, ManagerAsksDelete

LEMMA ListingStepLeaves == ListingStep => UNCHANGED libraryVars
BY DEF ListingStep, FindIds, Count, FindMany, List, Begin

\* The parts that do not look at a listing, a package or an offer.
Rest == LibraryInv /\ CamerasInv /\ MoneyInv /\ ReportInv /\ Exact /\ Growing

LEMMA RestStill ==
  ASSUME Rest, UNCHANGED <<libraryVars, cameraVars, dashboardVars>>
  PROVE  Rest'
<1>1. UNCHANGED <<setting, now, photo, tx, others, report>>
  BY DEF libraryVars, dashboardVars
<1>2. LibraryInv' /\ CamerasInv'
  BY LibraryStill, CamerasStill DEF Rest
<1>3. MoneyInv' /\ ReportInv'
  BY <1>1, MoneyStill, ReportStill DEF Rest
<1>4. Exact' /\ Growing'
  BY <1>1, ExactStill, GrowingStill DEF Rest
<1> QED
  BY <1>2, <1>3, <1>4 DEF Rest

LEMMA RestWaits ==
  ASSUME Rest, Changeable, Tick \/ PhotoStep, UNCHANGED <<cameraVars, dashboardVars>>
  PROVE  Rest'
<1>1. /\ LibraryInv' /\ PhotosKept /\ now <= now' /\ setting' = setting
  <2>1. CASE Tick
    BY <2>1, TickOK DEF Rest, Tick
  <2>2. CASE PhotoStep
    <3>1. LibraryInv' /\ PhotosKept /\ now' = now
      BY <2>2, PhotoStepOK DEF Rest
    <3>2. now \in Nat
      BY NumbersAre DEF Rest, LibraryInv
    <3> QED
      BY <2>2, <3>1, <3>2, PhotoStepLeaves
  <2> QED
    BY <2>1, <2>2
<1>2. UNCHANGED <<tx, others, report>>
  BY DEF dashboardVars
<1>3. CamerasInv'
  BY CamerasWait DEF Rest
<1>4. MoneyInv'
  <2>1. now' \in Time
    BY <1>1 DEF LibraryInv
  <2>2. others' \in [Others -> SUBSET Time]
    BY <1>2 DEF Rest, MoneyInv
  <2> QED
    BY <1>1, <1>2, <2>1, <2>2, MoneyLater DEF Rest
<1>5. ReportInv' /\ Exact'
  BY <1>1, <1>2, ReportStill, ExactChanges DEF Rest
<1>6. Growing'
  BY <1>1, <1>2, GrowingLater DEF Rest
<1> QED
  BY <1>1, <1>3, <1>4, <1>5, <1>6 DEF Rest

LEMMA RestOfCameras ==
  ASSUME Rest, Changeable, CamerasStep, UNCHANGED dashboardVars
  PROVE  Rest'
<1>1. LibraryInv' /\ CamerasInv' /\ UNCHANGED <<setting, now, photo>>
  BY CamerasStepOK DEF Rest
<1>2. UNCHANGED <<tx, others, report>>
  BY DEF dashboardVars
<1>3. MoneyInv' /\ ReportInv'
  BY <1>1, <1>2, MoneyStill, ReportStill DEF Rest
<1>4. Exact' /\ Growing'
  BY <1>1, <1>2, ExactChanges, GrowingStill DEF Rest
<1> QED
  BY <1>1, <1>3, <1>4 DEF Rest

LEMMA RestOfMoney ==
  ASSUME Rest, Changeable, MoneyStep, UNCHANGED cameraVars
  PROVE  Rest'
<1>1. MoneyInv' /\ UNCHANGED <<libraryVars, report>>
  BY MoneyStepOK DEF Rest
<1>2. LibraryInv' /\ CamerasInv' /\ ReportInv'
  BY <1>1, LibraryStill, CamerasStill, ReportStill DEF Rest
<1>3. UNCHANGED <<setting, photo>>
  BY <1>1 DEF libraryVars
<1>4. Exact' /\ Growing'
  BY <1>1, <1>3, ExactChanges, GrowingStill DEF Rest
<1> QED
  BY <1>1, <1>2, <1>4 DEF Rest

LEMMA RestOfReports ==
  ASSUME Rest, NEW cameras, ReportStep(cameras), UNCHANGED cameraVars
  PROVE  Rest'
<1>1. ASSUME UNCHANGED <<libraryVars, tx, others>>
      PROVE  LibraryInv' /\ CamerasInv' /\ MoneyInv' /\ UNCHANGED <<setting, photo>>
  <2>1. UNCHANGED <<setting, now, photo>>
    BY <1>1 DEF libraryVars
  <2> QED
    BY <1>1, <2>1, LibraryStill, CamerasStill, MoneyStill DEF Rest
<1>2. ASSUME NEW kind \in {"data", "balance", "sellers"}, NEW from \in {First, now, now + 1},
             NEW to \in {First, now, now + 1}, Ask(kind, from, to)
      PROVE  Rest'
  <2>1. ReportInv' /\ UNCHANGED <<libraryVars, tx, others>> /\ DOMAIN report'.value = {}
    BY <1>2, AskOK DEF Rest
  <2>2. report'.next = 1
    BY <1>2 DEF Ask, NoReport
  <2>3. Exact'
    BY <2>1 DEF Exact, Told
  <2>4. Growing'
    BY <2>2 DEF Growing, CountedSoFar
  <2> QED
    BY <1>1, <2>1, <2>3, <2>4 DEF Rest
<1>3. CASE Query(cameras)
  <2>1. ReportInv' /\ UNCHANGED <<libraryVars, tx, others>>
    BY <1>3, QueryOK DEF Rest
  <2>2. PICK x, value : value = Value(x, cameras) /\ Answered(x, value)
    BY <1>3, QueryOK DEF Rest
  <2>3. UNCHANGED <<setting, photo>>
    BY <1>1, <2>1
  <2>4. Exact'
    BY <2>1, <2>2, <2>3, ExactAnswer DEF Rest
  <2>5. Growing'
    BY <2>2, <2>3, GrowingAnswer DEF Rest
  <2> QED
    BY <1>1, <2>1, <2>4, <2>5 DEF Rest
<1>4. CASE \E from, to \in {First, now, now + 1}, kind \in {"data"} \cup (IF May("money") THEN {"sellers"} ELSE {}) :
             Ask(kind, from, to)
  BY <1>2, <1>4
<1>5. CASE Ask("balance", First, now)
  BY <1>2, <1>5
<1> QED
  BY <1>3, <1>4, <1>5 DEF ReportStep

LEMMA CatalogueStepOK ==
  ASSUME CatalogueInv, [Next]_vars
  PROVE  CatalogueInv'
<1>0. Rest
  BY DEF CatalogueInv, Rest
<1>1. UNCHANGED listing => ListingInv'
  BY ListingStill DEF CatalogueInv
<1>2. UNCHANGED plansVars => PlanInv'
  BY PlansStill DEF CatalogueInv
<1>3. UNCHANGED shelfVars => ShelfInv'
  BY ShelfStill DEF CatalogueInv
<1>4. CASE Changeable /\ (Tick \/ PhotoStep) /\ UNCHANGED <<cameraVars, listing, plansVars, shelfVars, dashboardVars>>
  BY <1>0, <1>1, <1>2, <1>3, <1>4, RestWaits DEF CatalogueInv, Rest
<1>5. CASE Changeable /\ CamerasStep /\ UNCHANGED <<listing, plansVars, shelfVars, dashboardVars>>
  BY <1>0, <1>1, <1>2, <1>3, <1>5, RestOfCameras DEF CatalogueInv, Rest
<1>6. CASE Changeable /\ MoneyStep /\ UNCHANGED <<cameraVars, listing, plansVars, shelfVars>>
  BY <1>0, <1>1, <1>2, <1>3, <1>6, RestOfMoney DEF CatalogueInv, Rest
<1>7. CASE PlansStep /\ UNCHANGED <<cameraVars, listing, shelfVars, dashboardVars>>
  <2>1. Rest'
    BY <1>0, <1>7, PlansStepLeaves, RestStill
  <2> QED
    BY <1>1, <1>3, <1>7, <2>1, PlansStepOK DEF CatalogueInv, Rest
<1>8. CASE ShelfStep /\ UNCHANGED <<cameraVars, listing, plansVars, dashboardVars>>
  <2>1. Rest'
    BY <1>0, <1>8, ShelfStepLeaves, RestStill
  <2> QED
    BY <1>1, <1>2, <1>8, <2>1, ShelfStepOK DEF CatalogueInv, Rest
<1>9. CASE ListingStep /\ UNCHANGED <<cameraVars, plansVars, shelfVars, dashboardVars>>
  <2>1. Rest'
    BY <1>0, <1>9, ListingStepLeaves, RestStill
  <2> QED
    BY <1>2, <1>3, <1>9, <2>1, ListingStepOK DEF CatalogueInv, Rest
<1>10. CASE ReportStep({camera[c] : c \in CameraId}) /\ UNCHANGED <<cameraVars, listing, plansVars, shelfVars>>
  BY <1>0, <1>1, <1>2, <1>3, <1>10, RestOfReports DEF CatalogueInv, Rest
<1>11. CASE UNCHANGED vars
  <2>1. UNCHANGED <<libraryVars, cameraVars, listing, plansVars, shelfVars, dashboardVars>>
    BY <1>11 DEF vars
  <2> QED
    BY <1>0, <1>1, <1>2, <1>3, <2>1, RestStill DEF CatalogueInv, Rest
<1> QED
  BY <1>4, <1>5, <1>6, <1>7, <1>8, <1>9, <1>10, <1>11 DEF Next

\* Everything keeps its shape.
LEMMA CatalogueTyped == CatalogueInv => TypeOK
<1> SUFFICES ASSUME CatalogueInv PROVE TypeOK
  OBVIOUS
<1>1. LibraryTypeOK
  BY DEF CatalogueInv, LibraryInv, PhotosOK, JobsOK, LibraryTypeOK, PhotoRow, JobRow
<1>2. CamerasTypeOK
  <2>1. point \subseteq [camera : CameraId, timestamp : timeline, count : Nat]
    BY DEF CatalogueInv, CamerasInv, PointsOK, PointOK, PointRow
  <2>2. cron.pc \in {"idle", "timeline", "points"} /\ timeline \subseteq Time
    BY DEF CatalogueInv, CamerasInv, CronOK, CronRow
  <2>3. joined \in [CameraId -> [Users -> {0} \cup Time]]
    BY DEF CatalogueInv, CamerasInv, PointsOK
  <2> QED
    BY <2>1, <2>2, <2>3 DEF CatalogueInv, CamerasInv, CameraOK, CameraRow, CamerasTypeOK
<1>3. ListingsTypeOK
  <2>1. listing \in ListingRow
    BY DEF CatalogueInv, ListingInv
  <2>2. DOMAIN listing.filter = DOMAIN NoFilter
    BY <2>1 DEF ListingRow, FilterRow, NoFilter
  <2> QED
    BY <2>1, <2>2 DEF ListingRow, ListingsTypeOK
<1>4. PlansTypeOK
  <2>1. today.month \in Nat /\ today.day \in 1..31
    BY DEF CatalogueInv, PlanInv, Dates
  <2>2. order.plan \in {0} \cup PlanId /\ order.paid \in Nat
    BY DEF CatalogueInv, PlanInv, OrderOK, OrderRow
  <2>3. \A p \in Procs : ask[p].pc \in {"idle", "findByName", "write"} /\ ask[p].row \in PlanRow
    BY DEF CatalogueInv, PlanInv, AsksOK, AskRow
  <2> QED
    BY <2>1, <2>2, <2>3 DEF CatalogueInv, PlanInv, PlansTypeOK
<1>5. DashboardTypeOK
  BY DEF CatalogueInv, MoneyInv, ReportInv, DashboardTypeOK
<1> QED
  BY <1>1, <1>2, <1>3, <1>4, <1>5 DEF CatalogueInv, ShelfInv, TypeOK

\* The tables, requests and reports keep their shape, and a data point of the camera statistics
\* never goes stale (CameraService, PopularCameraCronService), for any number of users, cameras and days.
THEOREM PointsLast == Spec => []PointsAreLasting
<1>1. CatalogueInv => PointsAreLasting
  <2> SUFFICES ASSUME CatalogueInv PROVE PointsAreLasting
    OBVIOUS
  <2>1. TypeOK
    BY CatalogueTyped
  <2>2. \A q \in point : PointOK(q)
    BY DEF CatalogueInv, CamerasInv, PointsOK
  <2> QED
    BY <2>1, <2>2 DEF PointsAreLasting, PointOK, Before, Won
<1> QED
  BY <1>1, CatalogueBegins, CatalogueStepOK, PTL DEF Spec

\* The dashboard counts no photo twice over its queries, although photos are uploaded and put on
\* sale between them (GenerateDashboardReportService), for any number of photos and days.
THEOREM PartsAreCountedOnce == Spec => []PartsOfTotal
<1>1. CatalogueInv => PartsOfTotal
  BY PartsAreOfTotal DEF CatalogueInv
<1> QED
  BY <1>1, CatalogueBegins, CatalogueStepOK, PTL DEF Spec

\* What came in is in the wallets, was paid out or is revenue, and the sales are the revenue's
\* (TransactionRepository, GenerateDashboardReportService), for any rows, prices and users.
THEOREM BooksAreBalanced == Spec => []BooksBalance
<1>1. CatalogueInv => BooksBalance
  BY BooksDoBalance DEF CatalogueInv
<1> QED
  BY <1>1, CatalogueBegins, CatalogueStepOK, PTL DEF Spec

\* A customer is booked, and a visitor is shown, a package only under terms it had while it was on
\* the shelf (PhotoshootPackageService, BookingService), for any number of requests in flight.
THEOREM PackagesBookedAsOffered == Spec => []BookedAsOffered
<1>1. CatalogueInv => BookedAsOffered
  BY DEF CatalogueInv, ShelfInv, BookedAsOffered, DealsOK
<1> QED
  BY <1>1, CatalogueBegins, CatalogueStepOK, PTL DEF Spec

\* A single manager never gives two packages that are offered one name (UpgradePackageService).
THEOREM NamesAreUnique == Spec => []OneName
<1>1. CatalogueInv => OneName
  BY DEF CatalogueInv, PlanInv, NamesOK, Sole, OneName
<1> QED
  BY <1>1, CatalogueBegins, CatalogueStepOK, PTL DEF Spec

\* A listing shows only photos its user may open, although photos are hidden, banned and deleted
\* between its queries (PhotoService.findPublicPhotos, findNextPublicPhotos, getPhotosOfMe).
THEOREM ListingsAreAllowed == Spec => ListedMayOpen
<1>1. ASSUME CatalogueInv, [Next]_vars
      PROVE  [listing.pc = "find" /\ listing.by # "manager" => \A f \in listing'.page : MayOpen(listing.user, f)]_vars
  <2>1. CASE ListingStep
    BY <1>1, <2>1, ListedStepOK DEF CatalogueInv
  <2>2. CASE UNCHANGED listing
    <3>1. listing.pc = "find" => listing'.page = {}
      BY <1>1, <2>2 DEF CatalogueInv, ListingInv
    <3> QED
      BY <3>1
  <2>3. ListingStep \/ UNCHANGED listing
    BY <1>1 DEF Next, vars
  <2> QED
    BY <2>1, <2>2, <2>3
<1> QED
  BY <1>1, CatalogueBegins, CatalogueStepOK, PTL DEF Spec, ListedMayOpen

\* Waiting never pays: no package gets cheaper while the days of an order pass, none costs more
\* than its price or is credited more than was paid, and who orders later has no less time
\* (UpgradeOrderService.calculateTransferFee, addCalendarMonths), for any prices and months.
THEOREM WaitingDoesNotPay == Spec => WaitingNeverPays
<1>1. ASSUME CatalogueInv, [Next]_vars
      PROVE  [today' # today =>
                /\ \A i \in PlanId, n \in Months : MayQuote(i, n) =>
                     /\ Net(i, n) <= Net(i, n)'
                     /\ Net(i, n)' <= plan[i].price * n
                     /\ plan[i].price * n - order.paid <= Net(i, n)
                /\ \A n \in Months : NotAfter(AddCalendarMonths(today, n), AddCalendarMonths(today, n)')]_vars
  <2>1. CASE PlansStep
    <3>1. CASE today' = today
      BY <3>1
    <3>2. CASE today' # today
      <4>1. PlanInv /\ Wait
        BY <1>1, <2>1, <3>2, PlansStepWaits DEF CatalogueInv
      <4> QED
        BY <4>1, WaitingOK
    <3> QED
      BY <3>1, <3>2
  <2>2. CASE UNCHANGED today
    BY <2>2
  <2>3. PlansStep \/ UNCHANGED today
    BY <1>1 DEF Next, vars, plansVars
  <2> QED
    BY <2>1, <2>2, <2>3
<1> QED
  BY <1>1, CatalogueBegins, CatalogueStepOK, PTL DEF Spec, WaitingNeverPays
=============================================================================
