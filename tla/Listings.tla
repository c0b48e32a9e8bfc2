------------------------------ MODULE Listings ------------------------------
(***************************************************************************)
(* Listings of photos: what visitors, photographers and managers ask for   *)
(* is made into one filter; when photos near a place are asked for, their  *)
(* ids are looked up before.  Ids come from raw SQL, which also finds      *)
(* photos that were deleted or are private.                                *)
(***************************************************************************)
EXTENDS Library

CONSTANT Located  \* the photos whose exif says where they were taken

ASSUME ListingsAssumption == None # "PUBLIC" /\ None # {"PENDING", "PARSED"}

VARIABLE listing  \* the listing in progress, or the last one

\* A filter: None where nothing is asked for. near are the photos near a place that is given
\* (gps with latitude, longitude and distance), ids the photos that are asked for by id.
NoFilter == [type |-> None, visibility |-> None, statuses |-> None, selling |-> None,
             owner |-> None, gps |-> FALSE, near |-> None, ids |-> None]
NoListing == [pc |-> "idle", by |-> "none", user |-> None, filter |-> NoFilter, count |-> 0, page |-> {}]

ListingsTypeOK ==
  /\ listing.pc \in {"idle", "ids", "count", "find"}
  /\ listing.by \in {"none", "visitor", "next", "me", "manager"}
  /\ listing.user \in Users \cup {None}
  /\ DOMAIN listing.filter = DOMAIN NoFilter
  /\ listing.count \in 0..MaxPhotos
  /\ listing.page \subseteq PhotoId

ListingsInit == listing = NoListing

-----------------------------------------------------------------------------
Asked(x) == x # None

\* FindAllPhotoFilterDto.toWhere: names, tags, cameras, votes and who is followed are left out.
Where(filter, f) ==
  /\ Asked(filter.ids) => f \in filter.ids
  /\ filter.gps => f \in Located
  /\ Asked(filter.type) => photo[f].type = filter.type
  /\ Asked(filter.visibility) => photo[f].visibility = filter.visibility
  /\ Asked(filter.statuses) => photo[f].status \in filter.statuses
  /\ Asked(filter.selling) => photo[f].active = filter.selling
  /\ Asked(filter.owner) => photo[f].owner = filter.owner

Found(filter) == {f \in PhotoId : Live(f) /\ Where(filter, f)}

\* findById opens a photo for this user, None being a visitor.
MayOpen(user, f) ==
  /\ Live(f)
  /\ photo[f].visibility = "PRIVATE" => photo[f].owner = user
  /\ photo[f].status = "BAN" => photo[f].owner = user

\* Mutant: the filter a visitor sends wins.
PublicMutant(filter) ==
  [filter EXCEPT !.type = "RAW",
                 !.visibility = IF Asked(@) THEN @ ELSE "PUBLIC",
                 !.statuses = IF Asked(@) THEN @ ELSE {"PENDING", "PARSED"}]
\* findPublicPhotos overrides what a visitor asks for, ...
Public(filter) == [filter EXCEPT !.type = "RAW", !.visibility = "PUBLIC", !.statuses = {"PENDING", "PARSED"}]
\* ... findNextPublicPhotos asks for nothing else, ...
NextPublic ==
  [NoFilter EXCEPT !.type = "RAW", !.visibility = "PUBLIC", !.selling = FALSE, !.statuses = {"PENDING", "PARSED"}]
\* ... and getPhotosOfMe for the photos of the user.
Mine(filter, user) == [filter EXCEPT !.type = "RAW", !.owner = user]

Begin(by, user, filter) ==
  /\ May("list") /\ listing.pc = "idle"
  /\ listing' = [NoListing EXCEPT !.pc = IF Asked(filter.near) THEN "ids" ELSE "count",
                                  !.by = by, !.user = user, !.filter = filter]
  /\ UNCHANGED libraryVars

\* Who is signed in may list and page through the public photos as well.
List(filter) ==
  \/ \E u \in Users \cup {None} : Begin("visitor", u, Public(filter)) \/ Begin("next", u, NextPublic)
  \/ \E u \in Users : Begin("me", u, Mine(filter, u))
  \/ Begin("manager", None, [filter EXCEPT !.near = None])

\* When no photo is near, all photos that say where they were taken are listed.
FindIds ==
  /\ listing.pc = "ids"
  /\ LET near == {f \in listing.filter.near : Has(f)}
     IN listing' = [listing EXCEPT !.pc = "count", !.filter.ids = IF near # {} THEN near ELSE @]
  /\ UNCHANGED libraryVars

Count ==
  /\ listing.pc = "count"
  /\ listing' = [listing EXCEPT !.pc = "find", !.count = Cardinality(Found(listing.filter))]
  /\ UNCHANGED libraryVars

\* A page shows photos of the filter, all of them when they are few; the next public photo is one.
FindMany ==
  /\ listing.pc = "find"
  /\ LET found == Found(listing.filter)
     IN \E page \in IF listing.by = "next" THEN {{}} \cup {{f} : f \in found} ELSE {found} :
          listing' = [NoListing EXCEPT !.user = listing.user, !.page = page]
  /\ UNCHANGED libraryVars

\* What is asked for: anything of one kind.
Filters ==
  {NoFilter}
  \cup {[NoFilter EXCEPT !.type = "BOOKING"], [NoFilter EXCEPT !.visibility = "PRIVATE"]}
  \cup {[NoFilter EXCEPT !.statuses = {s}] : s \in {"BAN", "DUPLICATED"}}
  \cup {[NoFilter EXCEPT !.selling = b] : b \in BOOLEAN}
  \cup {[NoFilter EXCEPT !.gps = TRUE, !.near = near] : near \in {None} \cup SUBSET Located}

ListingStep == FindIds \/ Count \/ FindMany \/ \E filter \in Filters : List(filter)
=============================================================================
