------------------------------ MODULE MCPhotos ------------------------------
(* Small instances of Photos for TLC. *)
EXTENDS Photos, TLC
CONSTANTS a, b

S(procs, kinds, photos, quota, fails) ==
  [procs |-> procs, kinds |-> kinds, photos |-> photos, quota |-> quota, failures |-> fails]

\* Uploads race each other and their jobs; uploads, deletions and jobs that fail half-way;
\* everything that happens to one photo, one request at a time; two photos of which one may be
\* a duplicate on sale; sales and deletions race.
MCSettings ==
  {S({1, 2}, {"upload"}, 3, 2, 0), S({1}, {"upload", "delete"}, 2, 3, 1),
   S({1}, {"upload", "ban", "sell", "update", "delete"}, 1, 3, 0),
   S({1}, {"upload", "sell"}, 2, 3, 0),
   S({1, 2}, {"upload", "sell", "delete"}, 1, 3, 0)}
=============================================================================
