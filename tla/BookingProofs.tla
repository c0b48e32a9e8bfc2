--------------------------- MODULE BookingProofs ---------------------------
(***************************************************************************)
(* Photos stay watermarked until a payment, a deletion gives its size back *)
(* once, and one request at a time the bookings are agreements, for any    *)
(* number of bookings, photos, requests and managers.                      *)
(***************************************************************************)
EXTENDS Booking, TLAPS

BookingRow == [status : BookingStatus, package : Packages, customer : Users, span : Spans,
               paidAt : BOOLEAN, recent : BOOLEAN]
PhotoRow == [status : {"UNUSED", "PENDING", "PARSED"}, booking : BookingId \cup {0},
             watermark : BOOLEAN, late : BOOLEAN, deleted : BOOLEAN, refunds : Nat]

\* Where a request works on a booking, on a photo, on dates, and on the quota.
OfBooking == {"update", "accept", "deny", "paid", "addItem", "dropItem", "review", "quota",
              "createPhoto", "raiseUsage", "attach", "createLocal"}
OfPhoto == {"raiseUsage", "attach", "queueUpload", "deletePhoto", "readUsage", "lowerUsage"}
OfDates == {"checkOverlap", "create"}
Refund == {"readUsage", "lowerUsage"}

-----------------------------------------------------------------------------
(* The invariant *)

Types ==
  /\ mode \in Modes
  /\ booking \in [BookingId -> {FreeBooking} \cup BookingRow]
  /\ been \in [BookingId -> SUBSET Ended]
  /\ items \subseteq BookingId \X (1..MaxItems)
  /\ reviewed \subseteq BookingId
  /\ photo \in [PhotoId -> PhotoRow]
  /\ usage \in Int
  /\ jobs \subseteq PhotoId
  /\ req \in [Procs -> Request]

\* What a request has read still names rows, and a booking it read as paid was paid.
RequestOK(r) ==
  /\ r.id # 0 => Used(r.id)
  /\ r.pc \in OfBooking => r.id # 0
  /\ r.pc = "create" => r.id = 0
  /\ r.pc \in OfDates => r.span \in Spans
  /\ r.pc \in OfDates /\ r.id = 0 => r.user \in Users /\ r.package \in Packages
  /\ r.pc \in OfPhoto => r.photo # 0
  /\ r.status = "SUCCESSED" => r.id # 0 /\ "SUCCESSED" \in been[r.id]
RequestsOK == \A p \in Procs : RequestOK(req[p])

\* A request that gives back the size of a photo is the only one, and the first.
Refunding(p) == req[p].pc \in Refund
RefundOK ==
  /\ \A f \in PhotoId :
       /\ photo[f].refunds <= 1
       /\ ~photo[f].deleted => photo[f].refunds = 0
       /\ photo[f].deleted => photo[f].status # "UNUSED"
  /\ \A p \in Procs : Refunding(p) => photo[req[p].photo].deleted /\ photo[req[p].photo].refunds = 0
  /\ \A p, q \in Procs : p # q /\ Refunding(p) /\ Refunding(q) => req[p].photo # req[q].photo

\* What the ends of bookings leave behind.
MarkOK ==
  /\ \A b \in BookingId : booking[b].status \in Ended => booking[b].status \in been[b]
  /\ \A f \in PhotoId : photo[f].booking # 0 =>
       /\ Used(photo[f].booking)
       /\ ~photo[f].watermark => "SUCCESSED" \in been[photo[f].booking]

\* With one request at a time what it has read is still so.
Alone == mode # "races" => \A p, q \in Procs : ~At(p, "idle") /\ ~At(q, "idle") => p = q
Current == mode = "serial" => \A p \in Procs : req[p].id # 0 => booking[req[p].id].status = req[p].status
PaidShown ==
  mode = "serial" => \A f \in PhotoId :
    Live(f) /\ photo[f].booking # 0 /\ booking[photo[f].booking].status = "SUCCESSED" /\ ~photo[f].late
      => ~photo[f].watermark

\* Nothing is left in a request that is idle.
IdleIsIdle == \A p \in Procs : At(p, "idle") => req[p].id = 0

IInv == Types /\ RequestsOK /\ RefundOK /\ MarkOK /\ Alone /\ Current /\ PaidShown /\ IdleIsIdle

-----------------------------------------------------------------------------
(* Rows and requests *)

LEMMA TypesIsTypeOK == Types <=> TypeOK
  BY DEF Types, TypeOK, BookingRow, PhotoRow

LEMMA IdleOK ==
  /\ Idle \in Request /\ Idle.pc = "idle" /\ Idle.id = 0 /\ Idle.status = "UNUSED" /\ RequestOK(Idle)
  BY DEF Idle, Request, RequestOK, OfBooking, OfPhoto, OfDates

LEMMA UsedIsRow ==
  ASSUME Types, NEW b \in BookingId, Used(b) PROVE booking[b] \in BookingRow
  BY DEF Types, Used, FreeBooking

LEMMA FreeIsPhotoRow == FreePhoto \in PhotoRow
  BY DEF FreePhoto, PhotoRow

LEMMA InitIInv == Init => IInv
<1> SUFFICES ASSUME Init PROVE IInv
  OBVIOUS
<1>1. Types
  BY IdleOK, FreeIsPhotoRow DEF Init, Types
<1>2. RequestsOK /\ Alone /\ IdleIsIdle /\ Current
  BY IdleOK DEF Init, RequestsOK, Alone, IdleIsIdle, Current, At
<1>3. RefundOK
  BY IdleOK DEF Init, RefundOK, Refunding, Refund, FreePhoto
<1>4. MarkOK /\ PaidShown
  BY DEF Init, MarkOK, PaidShown, FreePhoto, FreeBooking, Ended
<1> QED
  BY <1>1, <1>2, <1>3, <1>4 DEF IInv

\* A step of a request that leaves bookings and photos alone.
LEMMA RequestStep ==
  ASSUME IInv, NEW p \in Procs, NEW r \in Request,
         req' = [req EXCEPT ![p] = r], UNCHANGED <<mode, booking, been, photo>>,
         items' \subseteq BookingId \X (1..MaxItems), reviewed' \subseteq BookingId,
         usage' \in Int, jobs' \subseteq PhotoId,
         RequestOK(r), r.pc = "idle" => r.id = 0,
         r.pc # "idle" /\ mode # "races" => \A q \in Procs \ {p} : At(q, "idle"),
         r.id # 0 /\ mode = "serial" => booking[r.id].status = r.status,
         r.pc \in Refund =>
           /\ photo[r.photo].deleted /\ photo[r.photo].refunds = 0
           /\ \A q \in Procs \ {p} : Refunding(q) => req[q].photo # r.photo
  PROVE  IInv'
<1>0. req \in [Procs -> Request] /\ req'[p] = r /\ \A q \in Procs \ {p} : req'[q] = req[q]
  BY DEF IInv, Types
<1>1. Types'
  BY DEF IInv, Types
<1>2. RequestsOK'
  BY <1>0 DEF IInv, RequestsOK, RequestOK, Used
<1>3. RefundOK'
  BY <1>0 DEF IInv, RefundOK, Refunding
<1>4. MarkOK' /\ PaidShown'
  BY DEF IInv, MarkOK, PaidShown, Used, Live
<1>5. Alone'
  BY <1>0 DEF IInv, Alone, At
<1>6. Current' /\ IdleIsIdle'
  BY <1>0 DEF IInv, Current, IdleIsIdle, At
<1> QED
  BY <1>1, <1>2, <1>3, <1>4, <1>5, <1>6 DEF IInv

\* A request that ends.
LEMMA DoneStep ==
  ASSUME IInv, NEW p \in Procs, Done(p), UNCHANGED <<mode, booking, been, photo>>,
         items' \subseteq BookingId \X (1..MaxItems), reviewed' \subseteq BookingId,
         usage' \in Int, jobs' \subseteq PhotoId
  PROVE  IInv'
  BY IdleOK, RequestStep DEF Done, Refund

\* A request that asks about a booking.
LEMMA AskStep ==
  ASSUME IInv, NEW p \in Procs, NEW b \in BookingId, NEW S, NEW r \in Request, Ask(p, b, S, r),
         r.pc \notin Refund \cup {"idle", "create"},
         r.pc = "checkOverlap" => r.span \in Spans,
         r.pc \in OfPhoto => r.photo # 0,
         UNCHANGED <<mode, rowVars, photoVars>>
  PROVE  IInv'
<1> DEFINE s == [r EXCEPT !.id = b, !.status = booking[b].status]
<1>1. Used(b) /\ booking[b].status \in BookingStatus
  BY UsedIsRow DEF Ask, IInv, BookingRow
<1>2. /\ s \in Request /\ s.pc = r.pc /\ s.id = b /\ s.status = booking[b].status
      /\ s.span = r.span /\ s.photo = r.photo
  BY <1>1 DEF Request
<1>3. req' = [req EXCEPT ![p] = s] /\ (mode # "races" => \A q \in Procs : At(q, "idle"))
  BY DEF Ask, Begin
<1> HIDE DEF s
<1>4. b # 0
  BY BookingAssumption DEF BookingId
<1>5. RequestOK(s)
  BY <1>1, <1>2, <1>4 DEF RequestOK, OfDates, IInv, MarkOK, Ended
<1> QED
  BY <1>1, <1>2, <1>3, <1>5, RequestStep DEF IInv, Types, rowVars, photoVars

\* A booking is written: by a request that ends, or by a manager, who has none.
LEMMA WriteStep ==
  ASSUME IInv, NEW b \in BookingId, NEW row \in BookingRow, Write(b, row),
         UNCHANGED <<mode, usage, jobs>>,
         items' \subseteq BookingId \X (1..MaxItems), reviewed' \subseteq BookingId,
         photo' \in [PhotoId -> PhotoRow],
         \/ mode = "managed" /\ req' = req
         \/ \E p \in Procs : Done(p) /\ ~At(p, "idle"),
         \A f \in PhotoId :
           /\ photo'[f].refunds = photo[f].refunds /\ photo'[f].deleted = photo[f].deleted
           /\ photo'[f].status = photo[f].status /\ photo'[f].booking = photo[f].booking
           /\ photo'[f].late = photo[f].late
           /\ photo'[f].watermark # photo[f].watermark =>
                ~photo'[f].watermark /\ photo[f].booking = b /\ row.status = "SUCCESSED",
         row.status = "SUCCESSED" /\ mode = "serial" =>
           \/ Used(b) /\ booking[b].status = "SUCCESSED"
           \/ \A f \in PhotoId : Live(f) /\ photo[f].booking = b => ~photo'[f].watermark
  PROVE  IInv'
<1> DEFINE new == IF row.paidAt THEN row ELSE [row EXCEPT !.recent = TRUE]
<1>1. new \in BookingRow /\ new.status = row.status
  BY DEF BookingRow
<1>2. booking' = [booking EXCEPT ![b] = new] /\ been' = [been EXCEPT ![b] = @ \cup ({row.status} \cap Ended)]
  BY DEF Write
<1> HIDE DEF new
<1>3. Types /\ row.status \in BookingStatus
  BY DEF IInv, BookingRow
<1>4. /\ booking'[b].status = row.status /\ \A c \in BookingId \ {b} : booking'[c] = booking[c]
      /\ row.status \in Ended => row.status \in been'[b]
      /\ \A c \in BookingId : been[c] \subseteq been'[c]
  BY <1>1, <1>2, <1>3 DEF Types
<1>5. \A c \in BookingId : Used(c) => Used(c)'
  BY <1>3, <1>4 DEF Used, BookingStatus
<1>6. \A p \in Procs : req'[p] = req[p] \/ req'[p] = Idle
  BY <1>3 DEF Types, Done
<1>7. Types'
  <2>1. booking' \in [BookingId -> {FreeBooking} \cup BookingRow]
    BY <1>1, <1>2, <1>3 DEF Types
  <2>2. been' \in [BookingId -> SUBSET Ended]
    BY <1>2, <1>3 DEF Types
  <2>3. req' \in [Procs -> Request]
    BY <1>3, IdleOK DEF Types, Done
  <2> QED
    BY <1>3, <2>1, <2>2, <2>3 DEF Types
<1>8. RequestsOK'
  <2> SUFFICES ASSUME NEW p \in Procs PROVE RequestOK(req[p])'
    BY DEF RequestsOK
  <2>1. CASE req'[p] = Idle
    BY <2>1, IdleOK DEF RequestOK
  <2>2. CASE req'[p] = req[p]
    <3>1. req[p].id \in BookingId \cup {0}
      BY <1>3 DEF Types, Request
    <3> QED
      BY <1>4, <1>5, <2>2, <3>1 DEF IInv, RequestsOK, RequestOK
  <2> QED
    BY <1>6, <2>1, <2>2
<1>9. RefundOK'
  <2>1. \A p \in Procs : Refunding(p)' => Refunding(p) /\ req'[p] = req[p]
    BY <1>6, IdleOK DEF Refunding, Refund
  <2>2. \A p \in Procs : Refunding(p) => req[p].photo \in PhotoId
    BY <1>3 DEF Refunding, Refund, Types, Request, IInv, RequestsOK, RequestOK, OfPhoto
  <2> QED
    BY <2>1, <2>2 DEF IInv, RefundOK
<1>10. MarkOK'
  <2>1. \A f \in PhotoId : photo[f].booking \in BookingId \cup {0}
    BY <1>3 DEF Types, PhotoRow
  <2>2. \A c \in BookingId : booking'[c].status \in Ended => booking'[c].status \in been'[c]
    BY <1>4 DEF IInv, MarkOK
  <2>3. \A f \in PhotoId : photo'[f].booking # 0 =>
          /\ Used(photo[f].booking)'
          /\ ~photo'[f].watermark => "SUCCESSED" \in been'[photo'[f].booking]
    BY <1>3, <1>4, <1>5, <2>1 DEF IInv, MarkOK, Types, PhotoRow, Ended
  <2> QED
    BY <2>2, <2>3 DEF MarkOK
<1>11. Alone' /\ IdleIsIdle'
  BY <1>6, IdleOK DEF IInv, Alone, IdleIsIdle, At
<1>12. Current'
  <2> SUFFICES ASSUME mode = "serial", NEW p \in Procs, req'[p].id # 0
               PROVE  booking'[req'[p].id].status = req'[p].status
    BY DEF Current
  <2>1. req'[p] = req[p] /\ ~At(p, "idle")
    BY <1>6, IdleOK DEF IInv, IdleIsIdle
  <2>2. PICK q \in Procs : Done(q) /\ ~At(q, "idle")
    OBVIOUS
  <2>3. p = q
    BY <2>1, <2>2 DEF IInv, Alone
  <2> QED
    BY <1>3, <2>2, <2>3, IdleOK DEF Done, Types
<1>13. PaidShown'
  <2> SUFFICES ASSUME mode = "serial", NEW f \in PhotoId, Live(f), photo[f].booking # 0, ~photo[f].late,
                      booking'[photo[f].booking].status = "SUCCESSED"
               PROVE  ~photo'[f].watermark
    BY DEF PaidShown, Live
  <2>1. photo[f].booking \in BookingId
    BY <1>3 DEF Types, PhotoRow
  <2>2. CASE photo[f].booking # b
    BY <1>4, <2>1, <2>2 DEF IInv, PaidShown
  <2>3. CASE photo[f].booking = b
    BY <1>4, <2>3 DEF IInv, PaidShown
  <2> QED
    BY <2>2, <2>3
<1> QED
  BY <1>7, <1>8, <1>9, <1>10, <1>11, <1>12, <1>13 DEF IInv

\* A request writes a photo and goes on or ends.
LEMMA PhotoStep ==
  ASSUME IInv, NEW p \in Procs, NEW r \in Request, NEW f \in PhotoId, NEW row \in PhotoRow,
         photo' = [photo EXCEPT ![f] = row], req' = [req EXCEPT ![p] = r],
         UNCHANGED <<mode, rowVars>>, usage' \in Int, jobs' \subseteq PhotoId,
         ~At(p, "idle"), RequestOK(r), r.pc = "idle" => r.id = 0,
         r.id # 0 => r.id = req[p].id /\ r.status = req[p].status,
         row.refunds <= 1, ~row.deleted => row.refunds = 0, row.deleted => row.status # "UNUSED",
         row.booking # 0 => Used(row.booking) /\ (~row.watermark => "SUCCESSED" \in been[row.booking]),
         mode = "serial" /\ row.booking # 0 /\ row.status # "UNUSED" /\ ~row.deleted /\ ~row.late
           /\ booking[row.booking].status = "SUCCESSED" => ~row.watermark,
         \A q \in Procs \ {p} : Refunding(q) => req[q].photo # f,
         r.pc \in Refund => r.photo = f /\ row.deleted /\ row.refunds = 0
  PROVE  IInv'
<1>0. /\ Types
      /\ req'[p] = r /\ \A q \in Procs \ {p} : req'[q] = req[q]
      /\ photo'[f] = row /\ \A g \in PhotoId \ {f} : photo'[g] = photo[g]
  BY DEF IInv, Types
<1>1. Types'
  BY <1>0 DEF Types, rowVars
<1>2. RequestsOK'
  BY <1>0 DEF IInv, RequestsOK, RequestOK, Used, rowVars
<1>3. RefundOK'
  <2>1. \A g \in PhotoId :
          /\ photo'[g].refunds <= 1
          /\ ~photo'[g].deleted => photo'[g].refunds = 0
          /\ photo'[g].deleted => photo'[g].status # "UNUSED"
    BY <1>0 DEF IInv, RefundOK
  <2>2. \A q \in Procs : Refunding(q) => req[q].photo \in PhotoId
    BY <1>0 DEF Refunding, Refund, Types, Request, IInv, RequestsOK, RequestOK, OfPhoto
  <2>3. \A q \in Procs : Refunding(q)' =>
          photo'[req'[q].photo].deleted /\ photo'[req'[q].photo].refunds = 0
    BY <1>0, <2>2 DEF IInv, RefundOK, Refunding
  <2>4. \A q, s \in Procs : q # s /\ Refunding(q)' /\ Refunding(s)' => req'[q].photo # req'[s].photo
    BY <1>0 DEF IInv, RefundOK, Refunding
  <2> QED
    BY <2>1, <2>3, <2>4 DEF RefundOK
<1>4. MarkOK'
  BY <1>0 DEF IInv, MarkOK, Used, rowVars
<1>5. PaidShown'
  BY <1>0 DEF IInv, PaidShown, Live, rowVars
<1>6. Alone' /\ IdleIsIdle'
  BY <1>0 DEF IInv, Alone, IdleIsIdle, At
<1>7. Current'
  BY <1>0 DEF IInv, Current, rowVars
<1> QED
  BY <1>1, <1>2, <1>3, <1>4, <1>5, <1>6, <1>7 DEF IInv

\* The upload job of a photo, which may end the server.
LEMMA JobStep == ASSUME IInv, NEW f \in PhotoId, RunUploadJob(f) PROVE IInv'
<1>0. Types /\ UNCHANGED <<mode, rowVars, usage>> /\ jobs' \subseteq PhotoId
  BY DEF IInv, Types, RunUploadJob
<1>1. CASE Live(f)
  <2> DEFINE row == [photo[f] EXCEPT !.status = "PARSED"]
  <2>1. photo' = [photo EXCEPT ![f] = row] /\ req' = req
    BY <1>0, <1>1 DEF RunUploadJob
  <2>2. /\ row \in PhotoRow /\ row.status = "PARSED" /\ row.booking = photo[f].booking
        /\ row.watermark = photo[f].watermark /\ row.late = photo[f].late
        /\ row.deleted = photo[f].deleted /\ row.refunds = photo[f].refunds
    BY <1>0 DEF Types, PhotoRow
  <2> HIDE DEF row
  <2>3. photo'[f] = row /\ \A g \in PhotoId \ {f} : photo'[g] = photo[g]
    BY <1>0, <2>1 DEF Types
  <2>4. Types'
    BY <1>0, <2>1, <2>2 DEF Types, rowVars
  <2>5. RequestsOK' /\ Alone' /\ Current' /\ IdleIsIdle'
    BY <1>0, <2>1 DEF IInv, RequestsOK, RequestOK, Used, Alone, Current, IdleIsIdle, At, rowVars
  <2>6. RefundOK'
    <3>1. \A q \in Procs : Refunding(q) => req[q].photo \in PhotoId
      BY <1>0 DEF Refunding, Refund, Types, Request, IInv, RequestsOK, RequestOK, OfPhoto
    <3> QED
      BY <2>1, <2>2, <2>3, <3>1 DEF IInv, RefundOK, Refunding
  <2>7. MarkOK' /\ PaidShown'
    BY <1>0, <1>1, <2>2, <2>3 DEF IInv, MarkOK, PaidShown, Live, Used, rowVars
  <2> QED
    BY <2>4, <2>5, <2>6, <2>7 DEF IInv
<1>2. CASE ~Live(f)
  <2>1. req' = [p \in Procs |-> Idle] /\ photo' = photo
    BY <1>2 DEF RunUploadJob
  <2>2. Types'
    BY <1>0, <2>1, IdleOK DEF Types, rowVars
  <2>3. RequestsOK' /\ Alone' /\ Current' /\ IdleIsIdle'
    BY <2>1, IdleOK DEF RequestsOK, RequestOK, Alone, Current, IdleIsIdle, At
  <2>4. RefundOK'
    BY <2>1, IdleOK DEF IInv, RefundOK, Refunding, Refund
  <2>5. MarkOK' /\ PaidShown'
    BY <1>0, <2>1 DEF IInv, MarkOK, PaidShown, Live, Used, rowVars
  <2> QED
    BY <2>2, <2>3, <2>4, <2>5 DEF IInv
<1> QED
  BY <1>1, <1>2

LEMMA RequestGoesOn ==
  ASSUME NEW r \in Request, NEW pc \in {"raiseUsage", "queueUpload"}, NEW f \in PhotoId
  PROVE  [r EXCEPT !.pc = pc, !.photo = f] \in Request
<1>1. CASE pc = "raiseUsage"
  BY <1>1 DEF Request
<1>2. CASE pc = "queueUpload"
  BY <1>2 DEF Request
<1> QED
  BY <1>1, <1>2

\* A request that takes the first free photo.
LEMMA CreateStep ==
  ASSUME IInv, NEW p \in Procs, NEW row \in PhotoRow, NEW next, CreatePhoto(p, row, next),
         ~At(p, "idle"), next \in {"raiseUsage", "queueUpload"},
         next \in OfBooking => req[p].id # 0,
         row.status # "UNUSED", row.refunds = 0, ~row.deleted,
         row.booking # 0 => row.booking = req[p].id /\ row.watermark,
         row.booking # 0 /\ req[p].status = "SUCCESSED" => row.late,
         UNCHANGED <<mode, rowVars, usage, jobs>>
  PROVE  IInv'
<1>0. Types /\ req[p] \in Request
  BY DEF IInv, Types
<1>1. PICK f \in PhotoId :
        /\ photo[f].status = "UNUSED"
        /\ photo' = [photo EXCEPT ![f] = row]
        /\ req' = [req EXCEPT ![p] = [@ EXCEPT !.pc = next, !.photo = f]]
  BY DEF CreatePhoto
<1> DEFINE r == [req[p] EXCEPT !.pc = next, !.photo = f]
<1>2. /\ r \in Request /\ r.pc = next /\ r.photo = f /\ r.id = req[p].id /\ r.status = req[p].status
  <2>1. r \in Request
    BY <1>0, RequestGoesOn
  <2>2. r.pc = next /\ r.photo = f /\ r.id = req[p].id /\ r.status = req[p].status
    BY <1>0 DEF Request
  <2> QED
    BY <2>1, <2>2
<1>3. req' = [req EXCEPT ![p] = r]
  BY <1>0, <1>1 DEF Types
<1> HIDE DEF r
<1>4. f # 0
  BY BookingAssumption DEF PhotoId
<1>5. RequestOK(r)
  BY <1>2, <1>4 DEF IInv, RequestsOK, RequestOK, OfDates, OfBooking
<1>6. \A q \in Procs \ {p} : Refunding(q) => req[q].photo # f
  BY <1>1 DEF IInv, RefundOK
<1>7. row.booking # 0 => Used(row.booking)
  BY <1>2 DEF IInv, RequestsOK, RequestOK
<1>8. mode = "serial" /\ row.booking # 0 => booking[row.booking].status = req[p].status
  BY DEF IInv, Current
<1>9. r.pc \notin Refund \cup {"idle"}
  BY <1>2 DEF Refund
<1>10. usage' \in Int /\ jobs' \subseteq PhotoId
  BY <1>0 DEF Types
<1>11. row.refunds <= 1
  OBVIOUS
<1>12. UNCHANGED <<mode, rowVars>>
  OBVIOUS
<1> QED
  BY <1>1, <1>2, <1>3, <1>5, <1>6, <1>7, <1>8, <1>9, <1>10, <1>11, <1>12, PhotoStep

-----------------------------------------------------------------------------
(* Requests begin *)

LEMMA RequestBookingStep ==
  ASSUME IInv, NEW p \in Procs, NEW u \in Users, NEW k \in Packages, NEW s \in Spans,
         RequestBooking(p, u, k, s)
  PROVE  IInv'
<1> DEFINE r == [Idle EXCEPT !.pc = "checkOverlap", !.user = u, !.package = k, !.span = s]
<1>1. r \in Request
  BY IdleOK DEF Request
<1>2. /\ r.pc = "checkOverlap" /\ r.id = 0 /\ r.status = "UNUSED" /\ r.user = u /\ r.package = k
      /\ r.span = s
  BY DEF Idle
<1>3. req' = [req EXCEPT ![p] = r] /\ (mode # "races" => \A q \in Procs : At(q, "idle"))
  BY DEF RequestBooking, Begin
<1> HIDE DEF r
<1>4. RequestOK(r)
  BY <1>2 DEF RequestOK, OfBooking, OfPhoto
<1>5. r.pc \notin Refund
  BY <1>2 DEF Refund
<1>6. UNCHANGED <<mode, rowVars, photoVars>>
  BY DEF RequestBooking
<1> QED
  BY <1>1, <1>2, <1>3, <1>4, <1>5, <1>6, RequestStep DEF IInv, Types, rowVars, photoVars

LEMMA DeleteByIdStep ==
  ASSUME IInv, NEW p \in Procs, NEW f \in PhotoId, DeleteById(p, f) PROVE IInv'
<1> DEFINE r == [Idle EXCEPT !.pc = "deletePhoto", !.photo = f]
<1>1. r \in Request
  BY IdleOK DEF Request
<1>2. r.pc = "deletePhoto" /\ r.id = 0 /\ r.status = "UNUSED" /\ r.photo = f /\ f # 0
  BY BookingAssumption DEF Idle, PhotoId
<1>3. req' = [req EXCEPT ![p] = r] /\ (mode # "races" => \A q \in Procs : At(q, "idle"))
  BY DEF DeleteById, Begin
<1> HIDE DEF r
<1>4. RequestOK(r)
  BY <1>2 DEF RequestOK, OfBooking, OfDates
<1>5. r.pc \notin Refund
  BY <1>2 DEF Refund
<1>6. UNCHANGED <<mode, rowVars, photoVars>>
  BY DEF DeleteById
<1> QED
  BY <1>1, <1>2, <1>3, <1>4, <1>5, <1>6, RequestStep DEF IInv, Types, rowVars, photoVars

LEMMA MoveStep ==
  ASSUME IInv, NEW p \in Procs, NEW b \in BookingId, NEW S, NEW pc \in {"update", "checkOverlap"},
         NEW u \in Users, NEW s \in Spans \cup {None}, pc = "checkOverlap" => s \in Spans,
         Ask(p, b, S, [Idle EXCEPT !.pc = pc, !.user = u, !.span = s]),
         UNCHANGED <<mode, rowVars, photoVars>>
  PROVE  IInv'
<1> DEFINE r == [Idle EXCEPT !.pc = pc, !.user = u, !.span = s]
<1>1. r \in Request
  BY IdleOK DEF Request
<1>2. r.pc = pc /\ r.span = s
  BY DEF Idle
<1>3. Ask(p, b, S, r)
  OBVIOUS
<1> HIDE DEF r
<1> QED
  BY <1>1, <1>2, <1>3, AskStep DEF Refund, OfPhoto

LEMMA UpdateByIdStep ==
  ASSUME IInv, NEW p \in Procs, NEW b \in BookingId, NEW s \in Spans \cup {None}, UpdateById(p, b, s)
  PROVE  IInv'
<1>1. UNCHANGED <<mode, rowVars, photoVars>>
  BY DEF UpdateById
<1>2. PICK u \in Users : u = booking[b].customer
  BY UsedIsRow DEF IInv, UpdateById, Ask, BookingRow
<1>3. CASE s = None
  <2>1. Ask(p, b, {"REQUESTED", "ACCEPTED"}, [Idle EXCEPT !.pc = "update", !.user = u, !.span = s])
    BY <1>2, <1>3 DEF UpdateById
  <2> QED
    BY <1>1, <2>1, MoveStep
<1>4. CASE s # None
  <2>1. Ask(p, b, {"REQUESTED", "ACCEPTED"}, [Idle EXCEPT !.pc = "checkOverlap", !.user = u, !.span = s])
    BY <1>2, <1>4 DEF UpdateById
  <2> QED
    BY <1>1, <1>4, <2>1, MoveStep
<1> QED
  BY <1>3, <1>4

\* The requests on a booking that ask for nothing but its status.
LEMMA PlainAskStep ==
  ASSUME IInv, NEW p \in Procs, NEW b \in BookingId, NEW S,
         NEW pc \in {"accept", "deny", "paid", "addItem", "dropItem", "review", "quota", "createLocal"},
         Ask(p, b, S, [Idle EXCEPT !.pc = pc]), UNCHANGED <<mode, rowVars, photoVars>>
  PROVE  IInv'
<1> DEFINE r == [Idle EXCEPT !.pc = pc]
<1>1. r \in Request
  BY IdleOK DEF Request
<1>2. r.pc = pc
  BY DEF Idle
<1>3. Ask(p, b, S, r)
  OBVIOUS
<1> HIDE DEF r
<1> QED
  BY <1>1, <1>2, <1>3, AskStep DEF Refund, OfPhoto

LEMMA DeletePhotoStep ==
  ASSUME IInv, NEW p \in Procs, NEW b \in BookingId, NEW f \in PhotoId, DeletePhoto(p, b, f) PROVE IInv'
<1> DEFINE r == [Idle EXCEPT !.pc = "deletePhoto", !.photo = f]
<1>1. r \in Request
  BY IdleOK DEF Request
<1>2. r.pc = "deletePhoto" /\ r.photo = f /\ f # 0
  BY BookingAssumption DEF Idle, PhotoId
<1>3. Ask(p, b, BookingStatus, r) /\ UNCHANGED <<mode, rowVars, photoVars>>
  BY DEF DeletePhoto
<1> HIDE DEF r
<1> QED
  BY <1>1, <1>2, <1>3, AskStep DEF Refund

-----------------------------------------------------------------------------
(* Requests go on *)

\* What is known of a request in flight.
LEMMA Known ==
  ASSUME IInv, NEW p \in Procs
  PROVE  /\ Types /\ req[p] \in Request /\ RequestOK(req[p])
         /\ req[p].pc # "idle" /\ mode # "races" => \A q \in Procs \ {p} : At(q, "idle")
         /\ req[p].id # 0 /\ mode = "serial" => booking[req[p].id].status = req[p].status
  BY DEF IInv, Types, RequestsOK, Alone, Current, At

\* A request moves on to another pc, and nothing else happens that matters.
LEMMA GotoStep ==
  ASSUME IInv, NEW p \in Procs, NEW pc, Goto(p, pc), ~At(p, "idle"),
         pc \in {"create", "update", "createPhoto", "attach"},
         pc = "create" => req[p].id = 0 /\ req[p].pc = "checkOverlap",
         pc # "create" => req[p].id # 0,
         pc = "attach" => req[p].photo # 0,
         UNCHANGED <<mode, booking, been, photo, items, reviewed, jobs>>, usage' \in Int
  PROVE  IInv'
<1> DEFINE r == [req[p] EXCEPT !.pc = pc]
<1>1. r \in Request
  <2>1. req[p] \in Request
    BY Known
  <2> QED
    BY <2>1 DEF Request
<1>2. /\ r.pc = pc /\ r.id = req[p].id /\ r.status = req[p].status /\ r.span = req[p].span
      /\ r.user = req[p].user /\ r.package = req[p].package /\ r.photo = req[p].photo
  BY Known DEF Request
<1>3. req' = [req EXCEPT ![p] = r]
  BY Known DEF Goto, Types
<1> HIDE DEF r
<1>4. RequestOK(r)
  BY <1>2, Known DEF RequestOK, OfBooking, OfPhoto, OfDates
<1>5. r.pc \notin Refund \cup {"idle"}
  BY <1>2 DEF Refund
<1>6. Types /\ (mode # "races" => \A q \in Procs \ {p} : At(q, "idle"))
      /\ (req[p].id # 0 /\ mode = "serial" => booking[req[p].id].status = req[p].status)
  BY Known DEF At
<1>7. items' \subseteq BookingId \X (1..MaxItems) /\ reviewed' \subseteq BookingId /\ jobs' \subseteq PhotoId
  BY <1>6 DEF Types
<1> QED
  BY <1>1, <1>2, <1>3, <1>4, <1>5, <1>6, <1>7, RequestStep

LEMMA CheckOverlapStep == ASSUME IInv, NEW p \in Procs, CheckOverlap(p) PROVE IInv'
<1>1. UNCHANGED <<mode, booking, been, photo, items, reviewed, jobs, usage>> /\ At(p, "checkOverlap")
  BY DEF CheckOverlap, rowVars, photoVars
<1>2. Types
  BY DEF IInv
<1>3. CASE Overlapping(req[p].user, req[p].span)
  BY <1>1, <1>2, <1>3, DoneStep DEF CheckOverlap, Types
<1>4. CASE ~Overlapping(req[p].user, req[p].span) /\ req[p].id = 0
  BY <1>1, <1>2, <1>4, GotoStep DEF CheckOverlap, Types, At
<1>5. CASE ~Overlapping(req[p].user, req[p].span) /\ req[p].id # 0
  BY <1>1, <1>2, <1>5, GotoStep DEF CheckOverlap, Types, At
<1> QED
  BY <1>3, <1>4, <1>5

LEMMA CreateBookingStep == ASSUME IInv, NEW p \in Procs, CreateBooking(p) PROVE IInv'
<1>1. At(p, "create") /\ Done(p) /\ UNCHANGED <<mode, reviewed, photo, usage, jobs>>
  BY DEF CreateBooking, photoVars
<1> DEFINE row == [FreeBooking EXCEPT !.status = "REQUESTED", !.package = req[p].package,
                                      !.customer = req[p].user, !.span = req[p].span]
<1>2. PICK b \in BookingId : Write(b, row) /\ items' = items \cup {<<b, 1>>}
  BY DEF CreateBooking
<1>3. req[p].span \in Spans /\ req[p].user \in Users /\ req[p].package \in Packages
  BY <1>1, Known DEF RequestOK, OfDates, At
<1>4. row.status = "REQUESTED"
  BY DEF FreeBooking
<1>5. row \in BookingRow
  BY <1>3 DEF FreeBooking, BookingRow, BookingStatus
<1> HIDE DEF row
<1>6. items' \subseteq BookingId \X (1..MaxItems) /\ reviewed' \subseteq BookingId
      /\ photo' \in [PhotoId -> PhotoRow]
  BY <1>1, <1>2, BookingAssumption DEF IInv, Types
<1>7. ~At(p, "idle")
  BY <1>1 DEF At
<1> QED
  BY <1>1, <1>2, <1>4, <1>5, <1>6, <1>7, WriteStep

LEMMA WriteUpdateStep == ASSUME IInv, NEW p \in Procs, WriteUpdate(p) PROVE IInv'
<1> DEFINE b == req[p].id
           row == IF req[p].span = None THEN booking[b] ELSE [booking[b] EXCEPT !.span = req[p].span]
<1>1. /\ At(p, "update") /\ Write(b, row) /\ Done(p)
      /\ UNCHANGED <<mode, items, reviewed, photo, usage, jobs>>
  BY DEF WriteUpdate, photoVars
<1>2. b \in BookingId /\ Used(b)
  BY <1>1, Known DEF RequestOK, OfBooking, At, Request
<1>3. booking[b] \in BookingRow /\ req[p].span \in Spans \cup {None}
  BY <1>2, UsedIsRow, Known DEF Request
<1>4. row \in BookingRow /\ row.status = booking[b].status
  BY <1>3 DEF BookingRow
<1> HIDE DEF row, b
<1>5. items' \subseteq BookingId \X (1..MaxItems) /\ reviewed' \subseteq BookingId
      /\ photo' \in [PhotoId -> PhotoRow]
  BY <1>1 DEF IInv, Types
<1>6. ~At(p, "idle")
  BY <1>1 DEF At
<1> QED
  BY <1>1, <1>2, <1>4, <1>5, <1>6, WriteStep

LEMMA DecideStep == ASSUME IInv, NEW p \in Procs, Decide(p) PROVE IInv'
<1> DEFINE b == req[p].id
           st == IF At(p, "accept") THEN "ACCEPTED" ELSE "DENIED"
           row == [booking[b] EXCEPT !.status = st]
<1>1. /\ At(p, "accept") \/ At(p, "deny")
      /\ Write(b, row) /\ Done(p)
      /\ UNCHANGED <<mode, items, reviewed, photo, usage, jobs>>
  BY DEF Decide, photoVars
<1>2. b \in BookingId /\ Used(b)
  BY <1>1, Known DEF RequestOK, OfBooking, At, Request
<1>3. booking[b] \in BookingRow
  BY <1>2, UsedIsRow, Known
<1>4. st \in BookingStatus /\ st # "SUCCESSED"
  BY DEF BookingStatus
<1> HIDE DEF st, b
<1>5. row \in BookingRow /\ row.status = st
  BY <1>3, <1>4 DEF BookingRow
<1> HIDE DEF row
<1>6. items' \subseteq BookingId \X (1..MaxItems) /\ reviewed' \subseteq BookingId
      /\ photo' \in [PhotoId -> PhotoRow]
  BY <1>1 DEF IInv, Types
<1>7. ~At(p, "idle")
  BY <1>1 DEF At
<1> QED
  BY <1>1, <1>2, <1>4, <1>5, <1>6, <1>7, WriteStep

LEMMA PaidStep == ASSUME IInv, NEW p \in Procs, Paid(p) PROVE IInv'
<1> DEFINE b == req[p].id
           row == [booking[b] EXCEPT !.status = "SUCCESSED", !.paidAt = TRUE, !.recent = TRUE]
<1>1. /\ At(p, "paid") /\ Write(b, row) /\ Done(p) /\ UNCHANGED <<mode, items, reviewed, usage, jobs>>
      /\ photo' = [f \in PhotoId |-> IF Live(f) /\ photo[f].booking = b
                                     THEN [photo[f] EXCEPT !.watermark = FALSE] ELSE photo[f]]
  BY DEF Paid
<1>2. b \in BookingId /\ Used(b)
  BY <1>1, Known DEF RequestOK, OfBooking, At, Request
<1>3. booking[b] \in BookingRow
  BY <1>2, UsedIsRow, Known
<1> HIDE DEF b
<1>4. row \in BookingRow /\ row.status = "SUCCESSED"
  BY <1>3 DEF BookingRow, BookingStatus
<1> HIDE DEF row
<1>5. items' \subseteq BookingId \X (1..MaxItems) /\ reviewed' \subseteq BookingId
  BY <1>1 DEF IInv, Types
<1>6. \A f \in PhotoId :
        LET g == [photo[f] EXCEPT !.watermark = FALSE] IN
        /\ g \in PhotoRow /\ photo[f] \in PhotoRow
        /\ g.refunds = photo[f].refunds /\ g.deleted = photo[f].deleted /\ g.status = photo[f].status
        /\ g.booking = photo[f].booking /\ g.late = photo[f].late /\ g.watermark = FALSE
  BY Known DEF Types, PhotoRow
<1>7. photo' \in [PhotoId -> PhotoRow]
  BY <1>1, <1>6
<1>8. \A f \in PhotoId :
        /\ photo'[f].refunds = photo[f].refunds /\ photo'[f].deleted = photo[f].deleted
        /\ photo'[f].status = photo[f].status /\ photo'[f].booking = photo[f].booking
        /\ photo'[f].late = photo[f].late
        /\ photo'[f].watermark # photo[f].watermark => ~photo'[f].watermark /\ photo[f].booking = b
        /\ Live(f) /\ photo[f].booking = b => ~photo'[f].watermark
  BY <1>1, <1>6
<1>9. \A f \in PhotoId :
        /\ photo'[f].refunds = photo[f].refunds /\ photo'[f].deleted = photo[f].deleted
        /\ photo'[f].status = photo[f].status /\ photo'[f].booking = photo[f].booking
        /\ photo'[f].late = photo[f].late
        /\ photo'[f].watermark # photo[f].watermark =>
             ~photo'[f].watermark /\ photo[f].booking = b /\ row.status = "SUCCESSED"
  BY <1>4, <1>8
<1>10. \A f \in PhotoId : Live(f) /\ photo[f].booking = b => ~photo'[f].watermark
  BY <1>8
<1>11. Done(p) /\ ~At(p, "idle")
  BY <1>1 DEF At
<1>12. Write(b, row) /\ UNCHANGED <<mode, usage, jobs>>
  BY <1>1
<1> QED
  BY <1>2, <1>4, <1>5, <1>7, <1>9, <1>10, <1>11, <1>12, WriteStep

LEMMA UpdateStatusStep ==
  ASSUME IInv, NEW b \in BookingId, NEW st \in BookingStatus, UpdateStatus(b, st) PROVE IInv'
<1> DEFINE row == [booking[b] EXCEPT !.status = st]
<1>1. /\ mode = "managed" /\ Used(b) /\ Write(b, row)
      /\ UNCHANGED <<mode, items, reviewed, photo, usage, jobs, req>>
  BY DEF UpdateStatus, photoVars
<1>2. booking[b] \in BookingRow
  BY <1>1, UsedIsRow DEF IInv
<1>3. row \in BookingRow /\ row.status = st
  BY <1>2 DEF BookingRow
<1> HIDE DEF row
<1>4. items' \subseteq BookingId \X (1..MaxItems) /\ reviewed' \subseteq BookingId
      /\ photo' \in [PhotoId -> PhotoRow]
  BY <1>1 DEF IInv, Types
<1> QED
  BY <1>1, <1>3, <1>4, WriteStep

LEMMA BillStep ==
  ASSUME IInv, NEW p \in Procs, AddItem(p) \/ DropItem(p) \/ UpsertReview(p) PROVE IInv'
<1>1. Types /\ req[p].id \in BookingId \cup {0} /\ RequestOK(req[p])
  BY Known DEF Request
<1>2. Done(p) /\ UNCHANGED <<mode, booking, been, photo, usage, jobs>>
  BY DEF AddItem, DropItem, UpsertReview, photoVars
<1>3. usage' \in Int /\ jobs' \subseteq PhotoId
  BY <1>1, <1>2 DEF Types
<1>4. CASE AddItem(p)
  <2>1. PICK n \in 1..Rows[mode].items : items' = items \cup {<<req[p].id, n>>}
    BY <1>4 DEF AddItem
  <2>2. n \in 1..MaxItems
    <3>1. Rows[mode].items \in 0..MaxItems
      BY <1>1, BookingAssumption DEF Types
    <3> QED
      BY <3>1, BookingAssumption
  <2>3. req[p].id \in BookingId
    BY <1>1, <1>4 DEF AddItem, At, RequestOK, OfBooking
  <2>4. items' \subseteq BookingId \X (1..MaxItems)
    BY <1>1, <2>1, <2>2, <2>3 DEF Types
  <2> QED
    BY <1>1, <1>2, <1>3, <1>4, <2>4, DoneStep DEF AddItem, Types
<1>5. CASE DropItem(p)
  BY <1>1, <1>2, <1>3, <1>5, DoneStep DEF DropItem, Types
<1>6. CASE UpsertReview(p)
  <2>1. req[p].id \in BookingId
    BY <1>1, <1>6 DEF UpsertReview, At, RequestOK, OfBooking
  <2> QED
    BY <1>1, <1>2, <1>3, <1>6, <2>1, DoneStep DEF UpsertReview, Types
<1> QED
  BY <1>4, <1>5, <1>6

-----------------------------------------------------------------------------
(* Photos *)

LEMMA ReadQuotaStep == ASSUME IInv, NEW p \in Procs, ReadQuota(p) PROVE IInv'
<1>1. UNCHANGED <<mode, booking, been, photo, items, reviewed, jobs, usage>> /\ At(p, "quota")
  BY DEF ReadQuota, rowVars, photoVars
<1>2. Types /\ req[p].id # 0
  BY <1>1, Known DEF RequestOK, OfBooking, At
<1>3. CASE usage + 1 >= MaxQuota
  BY <1>1, <1>2, <1>3, DoneStep DEF ReadQuota, Types
<1>4. CASE ~(usage + 1 >= MaxQuota)
  BY <1>1, <1>2, <1>4, GotoStep DEF ReadQuota, Types, At
<1> QED
  BY <1>3, <1>4

LEMMA RaiseUsageStep == ASSUME IInv, NEW p \in Procs, RaiseUsage(p) PROVE IInv'
<1>1. /\ UNCHANGED <<mode, booking, been, photo, items, reviewed, jobs>>
      /\ At(p, "raiseUsage") /\ Goto(p, "attach") /\ usage' = usage + 1
  BY DEF RaiseUsage, rowVars
<1>2. usage' \in Int /\ req[p].id # 0 /\ req[p].photo # 0
  BY <1>1, Known DEF RequestOK, OfBooking, OfPhoto, At, Types
<1> QED
  BY <1>1, <1>2, GotoStep DEF At

LEMMA CreateParsedStep == ASSUME IInv, NEW p \in Procs, CreateParsed(p) PROVE IInv'
<1> DEFINE row == [FreePhoto EXCEPT !.status = "PARSED"]
<1>1. /\ CreatePhoto(p, row, "raiseUsage") /\ At(p, "createPhoto")
      /\ UNCHANGED <<mode, rowVars, usage, jobs>>
  BY DEF CreateParsed
<1>2. /\ row \in PhotoRow /\ row.status = "PARSED" /\ row.refunds = 0 /\ ~row.deleted
      /\ row.booking = 0
  BY DEF FreePhoto, PhotoRow
<1> HIDE DEF row
<1>3. req[p].id # 0
  BY <1>1, Known DEF RequestOK, OfBooking, At
<1> QED
  BY <1>1, <1>2, <1>3, CreateStep DEF At

LEMMA CreateLocalStep == ASSUME IInv, NEW p \in Procs, CreateLocal(p) PROVE IInv'
<1> DEFINE row == [FreePhoto EXCEPT !.status = "PENDING", !.booking = req[p].id, !.watermark = TRUE,
                                    !.late = req[p].status = "SUCCESSED"]
<1>1. /\ CreatePhoto(p, row, "queueUpload") /\ At(p, "createLocal")
      /\ UNCHANGED <<mode, rowVars, usage, jobs>>
  BY DEF CreateLocal
<1>2. req[p].id \in BookingId \cup {0}
  BY Known DEF Request
<1>3. /\ row.status = "PENDING" /\ row.refunds = 0 /\ ~row.deleted /\ row.booking = req[p].id
      /\ row.watermark /\ row.late = (req[p].status = "SUCCESSED")
  BY DEF FreePhoto
<1>4. row \in PhotoRow
  BY <1>2 DEF FreePhoto, PhotoRow
<1> HIDE DEF row
<1> QED
  BY <1>1, <1>3, <1>4, CreateStep DEF At, OfBooking

LEMMA QueueUploadStep == ASSUME IInv, NEW p \in Procs, QueueUpload(p) PROVE IInv'
<1>1. req[p].photo \in PhotoId
  BY Known DEF QueueUpload, At, RequestOK, OfPhoto, Request
<1> QED
  <2>1. Types /\ Done(p) /\ UNCHANGED <<mode, booking, been, photo, items, reviewed, usage>>
    BY Known DEF QueueUpload, rowVars
  <2>2. jobs' \subseteq PhotoId
    BY <1>1, <2>1 DEF QueueUpload, Types
  <2> QED
    BY <2>1, <2>2, DoneStep DEF Types

LEMMA AttachStep == ASSUME IInv, NEW p \in Procs, Attach(p) PROVE IInv'
<1> DEFINE f == req[p].photo
           row == [photo[f] EXCEPT !.booking = req[p].id, !.watermark = req[p].status # "SUCCESSED"]
<1>1. /\ At(p, "attach") /\ Done(p) /\ UNCHANGED <<mode, rowVars, usage, jobs>>
      /\ photo' = [photo EXCEPT ![f] = IF Live(f) THEN row ELSE photo[f]]
  BY Known DEF Attach, Types
<1>2. /\ Types /\ RequestOK(req[p]) /\ f \in PhotoId /\ req[p].id \in BookingId
      /\ req[p].id # 0 /\ (mode = "serial" => booking[req[p].id].status = req[p].status)
  BY <1>1, Known DEF RequestOK, OfBooking, OfPhoto, At, Request
<1>3. CASE ~Live(f)
  <2>1. photo' = photo
    BY <1>1, <1>2, <1>3 DEF Types
  <2> QED
    BY <1>1, <1>2, <2>1, DoneStep DEF Types, rowVars
<1>4. CASE Live(f)
  <2>1. photo[f] \in PhotoRow
    BY <1>2 DEF Types
  <2> HIDE DEF f
  <2>2. /\ row.status = photo[f].status /\ row.booking = req[p].id /\ row.deleted = photo[f].deleted
        /\ row.refunds = photo[f].refunds /\ row.late = photo[f].late
        /\ row.watermark = (req[p].status # "SUCCESSED")
    BY <2>1 DEF PhotoRow
  <2>3. row \in PhotoRow
    BY <1>2, <2>1 DEF PhotoRow
  <2> HIDE DEF row
  <2>4. photo' = [photo EXCEPT ![f] = row] /\ req' = [req EXCEPT ![p] = Idle]
    BY <1>1, <1>4 DEF Done
  <2>5. /\ row.refunds <= 1 /\ ~row.deleted /\ row.refunds = 0
        /\ \A q \in Procs \ {p} : Refunding(q) => req[q].photo # f
    BY <1>2, <1>4, <2>2 DEF IInv, RefundOK, Live
  <2>6. Used(row.booking) /\ (~row.watermark => "SUCCESSED" \in been[row.booking])
    BY <1>2, <2>2 DEF RequestOK
  <2>7. mode = "serial" /\ booking[row.booking].status = "SUCCESSED" => ~row.watermark
    BY <1>2, <2>2
  <2>8. ~At(p, "idle") /\ usage' \in Int /\ jobs' \subseteq PhotoId /\ UNCHANGED <<mode, rowVars>>
    BY <1>1, <1>2 DEF At, Types
  <2> QED
    BY <1>2, <2>3, <2>4, <2>5, <2>6, <2>7, <2>8, IdleOK, PhotoStep DEF Refund
<1> QED
  BY <1>3, <1>4

LEMMA DeleteRowStep == ASSUME IInv, NEW p \in Procs, DeleteRow(p) PROVE IInv'
<1> DEFINE f == req[p].photo
           row == [photo[f] EXCEPT !.deleted = TRUE]
           r == [req[p] EXCEPT !.pc = "readUsage"]
<1>1. At(p, "deletePhoto") /\ UNCHANGED <<mode, rowVars, usage, jobs>>
  BY DEF DeleteRow
<1>2. Types /\ RequestOK(req[p]) /\ f \in PhotoId /\ f # 0 /\ req[p] \in Request
  BY <1>1, Known, BookingAssumption DEF RequestOK, OfPhoto, At, Request, PhotoId
<1>3. CASE ~Live(f)
  BY <1>1, <1>2, <1>3, DoneStep DEF DeleteRow, Types, rowVars
<1>4. CASE Live(f)
  <2>1. photo[f] \in PhotoRow
    BY <1>2 DEF Types
  <2>2. /\ photo' = [photo EXCEPT ![f] = row] /\ req' = [req EXCEPT ![p] = r]
    BY <1>2, <1>4 DEF DeleteRow, Goto, Types
  <2>3. r \in Request
    BY <1>2 DEF Request
  <2>4. r.pc = "readUsage" /\ r.photo = f /\ r.id = req[p].id /\ r.status = req[p].status
    BY <1>2 DEF Request
  <2> HIDE DEF r, f
  <2>5. /\ row.status = photo[f].status /\ row.booking = photo[f].booking /\ row.deleted
        /\ row.refunds = photo[f].refunds /\ row.late = photo[f].late
        /\ row.watermark = photo[f].watermark
    BY <2>1 DEF PhotoRow
  <2>6. row \in PhotoRow
    BY <2>1 DEF PhotoRow
  <2> HIDE DEF row
  <2>7. RequestOK(r)
    BY <1>2, <2>4 DEF RequestOK, OfBooking, OfDates
  <2>8. /\ row.refunds = 0 /\ row.status # "UNUSED"
        /\ \A q \in Procs \ {p} : Refunding(q) => req[q].photo # f
    BY <1>2, <1>4, <2>5 DEF IInv, RefundOK, Live
  <2>9. row.booking # 0 => Used(row.booking) /\ (~row.watermark => "SUCCESSED" \in been[row.booking])
    BY <1>2, <2>5 DEF IInv, MarkOK
  <2>10. ~At(p, "idle") /\ usage' \in Int /\ jobs' \subseteq PhotoId /\ UNCHANGED <<mode, rowVars>>
    BY <1>1, <1>2 DEF At, Types
  <2>11. row.refunds <= 1 /\ r.pc # "idle"
    BY <2>4, <2>8
  <2>12. f \in PhotoId
    BY <1>2 DEF f
  <2> QED
    BY <2>2, <2>3, <2>4, <2>5, <2>6, <2>7, <2>8, <2>9, <2>10, <2>11, <2>12, PhotoStep
<1> QED
  BY <1>3, <1>4

LEMMA ReadUsageStep == ASSUME IInv, NEW p \in Procs, ReadUsage(p) PROVE IInv'
<1> DEFINE r == [req[p] EXCEPT !.pc = "lowerUsage", !.usage = usage]
<1>1. At(p, "readUsage") /\ UNCHANGED <<mode, rowVars, photoVars>>
  BY DEF ReadUsage
<1>2. /\ Types /\ RequestOK(req[p]) /\ req[p] \in Request
      /\ (mode # "races" => \A q \in Procs \ {p} : At(q, "idle"))
      /\ (req[p].id # 0 /\ mode = "serial" => booking[req[p].id].status = req[p].status)
  BY <1>1, Known DEF At
<1>3. r \in Request
  BY <1>2 DEF Request, Types
<1>4. r.pc = "lowerUsage" /\ r.photo = req[p].photo /\ r.id = req[p].id /\ r.status = req[p].status
  BY <1>2 DEF Request
<1>5. req' = [req EXCEPT ![p] = r]
  BY <1>2 DEF ReadUsage, Types
<1> HIDE DEF r
<1>6. RequestOK(r)
  BY <1>1, <1>2, <1>4 DEF RequestOK, OfBooking, OfDates, OfPhoto, At
<1>7. /\ photo[r.photo].deleted /\ photo[r.photo].refunds = 0
      /\ \A q \in Procs \ {p} : Refunding(q) => req[q].photo # r.photo
  BY <1>1, <1>4 DEF IInv, RefundOK, Refunding, Refund, At
<1> QED
  BY <1>1, <1>2, <1>3, <1>4, <1>5, <1>6, <1>7, RequestStep DEF Types, rowVars, photoVars

LEMMA LowerUsageStep == ASSUME IInv, NEW p \in Procs, LowerUsage(p) PROVE IInv'
<1> DEFINE f == req[p].photo
           row == [photo[f] EXCEPT !.refunds = photo[f].refunds + 1]
<1>1. /\ At(p, "lowerUsage") /\ Done(p) /\ UNCHANGED <<mode, rowVars, jobs>>
      /\ usage' = IF req[p].usage - 1 > 0 THEN usage - 1 ELSE 0
  BY DEF LowerUsage
<1>2. Types /\ f \in PhotoId
  BY <1>1, Known DEF RequestOK, OfPhoto, At, Request
<1>3. /\ photo[f].deleted /\ photo[f].refunds = 0 /\ photo[f].status # "UNUSED"
      /\ \A q \in Procs \ {p} : Refunding(q) => req[q].photo # f
  BY <1>1, <1>2 DEF IInv, RefundOK, Refunding, Refund, At
<1>4. photo' = [photo EXCEPT ![f] = row]
  BY <1>2 DEF LowerUsage, Types
<1>5. photo[f] \in PhotoRow
  BY <1>2 DEF Types
<1> HIDE DEF f
<1>6. /\ row.status = photo[f].status /\ row.booking = photo[f].booking /\ row.deleted = photo[f].deleted
      /\ row.refunds = photo[f].refunds + 1 /\ row.late = photo[f].late
      /\ row.watermark = photo[f].watermark
  BY <1>5 DEF PhotoRow
<1>7. row \in PhotoRow
  BY <1>5 DEF PhotoRow
<1> HIDE DEF row
<1>10. row.refunds = 1 /\ row.refunds <= 1
  BY <1>3, <1>6
<1>8. row.booking # 0 => Used(row.booking) /\ (~row.watermark => "SUCCESSED" \in been[row.booking])
  BY <1>2, <1>6 DEF IInv, MarkOK
<1>9. ~At(p, "idle") /\ usage' \in Int /\ jobs' \subseteq PhotoId /\ req' = [req EXCEPT ![p] = Idle]
  BY <1>1, <1>2 DEF At, Types, Done
<1>11. Idle.pc \notin Refund /\ f \in PhotoId
  BY <1>2, IdleOK DEF Refund, f
<1> QED
  BY <1>1, <1>2, <1>3, <1>4, <1>6, <1>7, <1>8, <1>9, <1>10, <1>11, IdleOK, PhotoStep

\* Thirty days pass.
LEMMA AgeStep == ASSUME IInv, NEW b \in BookingId, Age(b) PROVE IInv'
<1> DEFINE row == [booking[b] EXCEPT !.recent = FALSE]
<1>1. /\ Used(b) /\ UNCHANGED <<mode, been, items, reviewed, photo, usage, jobs, req>>
      /\ booking' = [booking EXCEPT ![b] = row]
  BY DEF Age, Used, photoVars, IInv, Types
<1>2. Types /\ booking[b] \in BookingRow
  BY <1>1, UsedIsRow DEF IInv
<1>3. row \in BookingRow /\ row.status = booking[b].status
  BY <1>2 DEF BookingRow
<1> HIDE DEF row
<1>4. Types'
  BY <1>1, <1>2, <1>3 DEF Types
<1>5. \A c \in BookingId : booking'[c].status = booking[c].status
  BY <1>1, <1>2, <1>3 DEF Types
<1>6. \A p \in Procs : req[p].id \in BookingId \cup {0}
  BY <1>2 DEF Types, Request
<1>7. \A f \in PhotoId : photo[f].booking \in BookingId \cup {0}
  BY <1>2 DEF Types, PhotoRow
<1>8. RequestsOK' /\ Alone' /\ Current' /\ IdleIsIdle'
  BY <1>1, <1>5, <1>6 DEF IInv, RequestsOK, RequestOK, Used, Alone, Current, IdleIsIdle, At
<1>9. RefundOK'
  BY <1>1 DEF IInv, RefundOK, Refunding
<1>10. MarkOK' /\ PaidShown'
  BY <1>1, <1>5, <1>7 DEF IInv, MarkOK, PaidShown, Used, Live
<1> QED
  BY <1>4, <1>8, <1>9, <1>10 DEF IInv

-----------------------------------------------------------------------------
(* All steps *)

LEMMA NextIInv == IInv /\ [Next]_vars => IInv'
<1> SUFFICES ASSUME IInv, [Next]_vars PROVE IInv'
  OBVIOUS
<1>1. ASSUME NEW p \in Procs, CustomerAsks(p) PROVE IInv'
  <2>1. ASSUME NEW b \in BookingId, CreateReview(p, b) PROVE IInv'
    BY <2>1, PlainAskStep DEF CreateReview
  <2> QED
    BY <1>1, <2>1, RequestBookingStep DEF CustomerAsks
<1>2. ASSUME NEW p \in Procs, PhotographerAsks(p) PROVE IInv'
  <2>1. ASSUME NEW b \in BookingId, UploadPhoto(p, b) PROVE IInv'
    BY <2>1, PlainAskStep DEF UploadPhoto
  <2>2. ASSUME NEW b \in BookingId, FilesystemUploadPhoto(p, b) PROVE IInv'
    BY <2>2, PlainAskStep DEF FilesystemUploadPhoto
  <2>3. ASSUME NEW b \in BookingId, Accept(p, b) PROVE IInv'
    BY <2>3, PlainAskStep DEF Accept
  <2>4. ASSUME NEW b \in BookingId, Deny(p, b) PROVE IInv'
    BY <2>4, PlainAskStep DEF Deny
  <2>5. ASSUME NEW b \in BookingId, UpdateBookingToPaid(p, b) PROVE IInv'
    BY <2>5, PlainAskStep DEF UpdateBookingToPaid
  <2> QED
    BY <1>2, <2>1, <2>2, <2>3, <2>4, <2>5, DeletePhotoStep, UpdateByIdStep, DeleteByIdStep
       DEF PhotographerAsks
<1>3. ASSUME NEW p \in Procs, PhotographerBills(p) PROVE IInv'
  <2>1. PICK b \in BookingId : AskBill(p, b, "addItem") \/ AskBill(p, b, "dropItem")
    BY <1>3 DEF PhotographerBills
  <2>2. CASE AskBill(p, b, "addItem")
    BY <2>2, PlainAskStep DEF AskBill
  <2>3. CASE AskBill(p, b, "dropItem")
    BY <2>3, PlainAskStep DEF AskBill
  <2> QED
    BY <2>1, <2>2, <2>3
<1>4. ASSUME NEW p \in Procs, Step(p) PROVE IInv'
  BY <1>4, CheckOverlapStep, CreateBookingStep, WriteUpdateStep, DecideStep, PaidStep, BillStep,
     ReadQuotaStep, CreateParsedStep, RaiseUsageStep, AttachStep, CreateLocalStep, QueueUploadStep,
     DeleteRowStep, ReadUsageStep, LowerUsageStep
  DEF Step
<1>5. ASSUME ManagerSets PROVE IInv'
  BY <1>5, UpdateStatusStep DEF ManagerSets
<1>6. CASE UNCHANGED vars
  BY <1>6 DEF vars, rowVars, photoVars, IInv, Types, RequestsOK, RequestOK, RefundOK, Refunding, MarkOK,
     Alone, Current, PaidShown, IdleIsIdle, Used, Live, At
<1> QED
  BY <1>1, <1>2, <1>3, <1>4, <1>5, <1>6, JobStep, AgeStep DEF Next

-----------------------------------------------------------------------------
(* What follows *)

LEMMA Always == Spec => []IInv
  BY InitIInv, NextIInv, PTL DEF Spec

\* Only a booking that was SUCCESSED at some time shows a photo without watermark, whatever
\* requests run together and whatever managers set; and with one request at a time a paid
\* booking shows the photos that were not delivered late.
THEOREM WatermarksFollowPayment == Spec => []WatermarkFollowsPayment
<1>1. IInv => WatermarkFollowsPayment
  BY TypesIsTypeOK DEF IInv, MarkOK, PaidShown, WatermarkFollowsPayment
<1> QED
  BY <1>1, Always, PTL

\* The size of a photo is given back at most once, however many deletions of it run together
\* and whenever the server is ended by a job.
THEOREM SizesRefundedOnce == Spec => []RefundedOnce
<1>1. IInv => RefundedOnce
  BY DEF IInv, RefundOK, RefundedOnce
<1> QED
  BY <1>1, Always, PTL

-----------------------------------------------------------------------------
(* Bookings are agreements *)

\* A request still acts on the status it was asked for; ...
Asked(r) ==
  /\ r.pc \in {"accept", "deny"} => r.status = "REQUESTED"
  /\ r.pc = "paid" => r.status = "ACCEPTED"
  /\ r.pc \in {"addItem", "dropItem"} => r.status \in {"REQUESTED", "ACCEPTED"}
  /\ r.pc \in {"checkOverlap", "update"} /\ r.id # 0 => r.status \in {"REQUESTED", "ACCEPTED"}
\* ... the dates it writes are free for the customer; ...
DatesOK(r) ==
  /\ r.pc \in {"checkOverlap", "update"} /\ r.id # 0 /\ r.span # None => r.user = booking[r.id].customer
  /\ r.pc = "create" \/ (r.pc = "update" /\ r.span # None) => ~Overlapping(r.user, r.span)
\* ... and only a booking has a bill.
Billed == \A i \in items : Used(i[1])

AgreeInv ==
  mode = "serial" => (\A p \in Procs : Asked(req[p]) /\ DatesOK(req[p])) /\ Billed

LEMMA IdleAsks ==
  ASSUME NEW r, r.pc = "idle" PROVE Asked(r) /\ DatesOK(r)'
  BY DEF Asked, DatesOK

LEMMA InitAgree == Init => AgreeInv
<1> SUFFICES ASSUME Init PROVE AgreeInv
  OBVIOUS
<1>1. \A p \in Procs : req[p].pc = "idle"
  BY IdleOK DEF Init
<1>2. \A p \in Procs : Asked(req[p]) /\ DatesOK(req[p])
  BY <1>1 DEF Asked, DatesOK
<1> QED
  BY <1>2 DEF Init, AgreeInv, Billed

\* A step of a request, while all others are idle.
LEMMA AgreePut ==
  ASSUME IInv, AgreeInv, NEW p \in Procs, UNCHANGED mode,
         \A q \in Procs \ {p} : At(q, "idle"), NEW r, req' = [req EXCEPT ![p] = r],
         mode = "serial" => Asked(r) /\ DatesOK(r)' /\ Billed'
  PROVE  AgreeInv'
<1> SUFFICES ASSUME mode = "serial" PROVE (\A q \in Procs : Asked(req[q]) /\ DatesOK(req[q]))' /\ Billed'
  BY DEF AgreeInv
<1>1. req \in [Procs -> Request]
  BY DEF IInv, Types
<1>2. req'[p] = r /\ \A q \in Procs \ {p} : req'[q] = req[q] /\ req'[q].pc = "idle"
  BY <1>1 DEF At
<1>3. \A q \in Procs : Asked(req'[q]) /\ DatesOK(req[q])'
  BY <1>2, IdleAsks
<1> QED
  BY <1>3

LEMMA AgreeDone ==
  ASSUME IInv, AgreeInv, NEW p \in Procs, UNCHANGED mode,
         mode = "serial" => \A q \in Procs \ {p} : At(q, "idle"), Done(p),
         mode = "serial" => Billed'
  PROVE  AgreeInv'
<1>1. CASE mode # "serial"
  BY <1>1 DEF AgreeInv
<1>2. CASE mode = "serial"
  <2>1. Asked(Idle) /\ DatesOK(Idle)'
    BY IdleOK, IdleAsks
  <2> QED
    BY <1>2, <2>1, AgreePut DEF Done
<1> QED
  BY <1>1, <1>2

\* A request is asked for while all others are idle, of a booking with one of these statuses.
LEMMA AgreeAsk ==
  ASSUME IInv, AgreeInv, NEW p \in Procs, NEW b \in BookingId, NEW S, NEW r \in Request,
         Ask(p, b, S, r), UNCHANGED <<mode, rowVars>>,
         r.pc \notin {"create", "checkOverlap", "update"},
         r.pc \in {"accept", "deny"} => S = {"REQUESTED"},
         r.pc = "paid" => S = {"ACCEPTED"},
         r.pc \in {"addItem", "dropItem"} => S = {"REQUESTED", "ACCEPTED"}
  PROVE  AgreeInv'
<1>1. CASE mode # "serial"
  BY <1>1 DEF AgreeInv
<1>2. CASE mode = "serial"
  <2>0. PICK s : s = [r EXCEPT !.id = b, !.status = booking[b].status]
    OBVIOUS
  <2>1. s.pc = r.pc /\ s.status = booking[b].status
    BY <2>0 DEF Request
  <2>2. req' = [req EXCEPT ![p] = s] /\ booking[b].status \in S
    BY <2>0 DEF Ask, Begin
  <2>3. \A q \in Procs \ {p} : At(q, "idle")
    BY <1>2 DEF Ask, Begin
  <2>4. Asked(s) /\ DatesOK(s)'
    BY <2>1, <2>2 DEF Asked, DatesOK
  <2>5. Billed'
    BY <1>2 DEF rowVars, AgreeInv, Billed, Used
  <2> QED
    BY <2>2, <2>3, <2>4, <2>5, AgreePut
<1> QED
  BY <1>1, <1>2

LEMMA AgreeMove ==
  ASSUME IInv, AgreeInv, NEW p \in Procs, NEW b \in BookingId, NEW s \in Spans \cup {None},
         UpdateById(p, b, s)
  PROVE  AgreeInv'
<1>1. CASE mode # "serial"
  BY <1>1 DEF AgreeInv, UpdateById
<1>2. CASE mode = "serial"
  <2>1. PICK u \in Users : u = booking[b].customer
    BY UsedIsRow DEF IInv, UpdateById, Ask, BookingRow
  <2>2. PICK pc \in {"update", "checkOverlap"} : pc = IF s = None THEN "update" ELSE "checkOverlap"
    OBVIOUS
  <2>3. PICK r : r = [Idle EXCEPT !.pc = pc, !.user = u, !.span = s]
    OBVIOUS
  <2>4. r \in Request /\ r.pc = pc /\ r.user = u /\ r.span = s
    <3>1. r.pc = pc /\ r.user = u /\ r.span = s
      BY <2>3 DEF Idle
    <3>2. r \in Request
      BY <2>2, <2>3, IdleOK DEF Request
    <3> QED
      BY <3>1, <3>2
  <2>5. PICK t : t = [r EXCEPT !.id = b, !.status = booking[b].status]
    OBVIOUS
  <2>6. t.pc = pc /\ t.user = u /\ t.span = s /\ t.id = b /\ t.status = booking[b].status
    BY <2>4, <2>5 DEF Request
  <2>7. Ask(p, b, {"REQUESTED", "ACCEPTED"}, r) /\ UNCHANGED <<mode, rowVars>>
    BY <2>1, <2>2, <2>3 DEF UpdateById
  <2>8. /\ req' = [req EXCEPT ![p] = t] /\ booking[b].status \in {"REQUESTED", "ACCEPTED"}
        /\ \A q \in Procs \ {p} : At(q, "idle")
    BY <1>2, <2>5, <2>7 DEF Ask, Begin
  <2>9. Asked(t)
    BY <2>2, <2>6, <2>8 DEF Asked
  <2>10. DatesOK(t)'
    BY <2>1, <2>2, <2>6, <2>7 DEF DatesOK, rowVars
  <2>11. Billed'
    BY <1>2, <2>7 DEF rowVars, AgreeInv, Billed, Used
  <2> QED
    BY <2>7, <2>8, <2>9, <2>10, <2>11, AgreePut
<1> QED
  BY <1>1, <1>2

Quietly == {"idle", "review", "quota", "createPhoto", "raiseUsage", "attach", "createLocal",
            "queueUpload", "deletePhoto", "readUsage", "lowerUsage"}

\* A request goes on with photos or a review.
LEMMA AgreeOn ==
  ASSUME IInv, AgreeInv, NEW p \in Procs, UNCHANGED <<mode, rowVars>>,
         mode = "serial" => \A q \in Procs \ {p} : At(q, "idle"),
         NEW r, req' = [req EXCEPT ![p] = r], r.pc \in Quietly
  PROVE  AgreeInv'
<1>1. CASE mode # "serial"
  BY <1>1 DEF AgreeInv
<1>2. CASE mode = "serial"
  <2>1. Asked(r) /\ DatesOK(r)'
    BY DEF Quietly, Asked, DatesOK
  <2>2. Billed'
    BY <1>2 DEF rowVars, AgreeInv, Billed, Used
  <2> QED
    BY <1>2, <2>1, <2>2, AgreePut
<1> QED
  BY <1>1, <1>2

\* No booking and no bill changes that an agreement knows.
Quiet ==
  /\ mode' = mode /\ items' = items
  /\ \A b \in BookingId : /\ booking'[b].status = booking[b].status
                          /\ booking'[b].customer = booking[b].customer
                          /\ booking'[b].span = booking[b].span

LEMMA RowsQuiet == UNCHANGED <<mode, rowVars>> => Quiet
  BY DEF rowVars, Quiet

LEMMA AgreeRequest ==
  ASSUME IInv, AgreeInv, NEW p \in Procs, CustomerAsks(p) \/ PhotographerAsks(p) \/ PhotographerBills(p)
  PROVE  AgreeInv' /\ Quiet
<1>1. UNCHANGED <<mode, rowVars>>
  BY DEF CustomerAsks, PhotographerAsks, PhotographerBills, RequestBooking, CreateReview, UploadPhoto,
     FilesystemUploadPhoto, DeletePhoto, Accept, Deny, UpdateBookingToPaid, UpdateById, DeleteById, AskBill
<1>2. ASSUME NEW u \in Users, NEW k \in Packages, NEW s \in Spans, RequestBooking(p, u, k, s)
      PROVE  AgreeInv'
  <2>1. CASE mode # "serial"
    BY <1>1, <2>1 DEF AgreeInv
  <2>2. CASE mode = "serial"
    <3>1. PICK r : r = [Idle EXCEPT !.pc = "checkOverlap", !.user = u, !.package = k, !.span = s]
      OBVIOUS
    <3>2. r.pc = "checkOverlap" /\ r.id = 0
      BY <3>1 DEF Idle
    <3>3. req' = [req EXCEPT ![p] = r] /\ \A q \in Procs \ {p} : At(q, "idle")
      BY <1>2, <2>2, <3>1 DEF RequestBooking, Begin
    <3>4. Asked(r) /\ DatesOK(r)'
      BY <3>2 DEF Asked, DatesOK
    <3>5. Billed'
      BY <1>1, <2>2 DEF rowVars, AgreeInv, Billed, Used
    <3> QED
      BY <1>1, <3>3, <3>4, <3>5, AgreePut
  <2> QED
    BY <2>1, <2>2
<1>3. ASSUME NEW b \in BookingId, NEW S, NEW pc \in {"accept", "deny", "paid", "addItem", "dropItem",
                "review", "quota", "createLocal"},
             Ask(p, b, S, [Idle EXCEPT !.pc = pc]),
             pc \in {"accept", "deny"} => S = {"REQUESTED"},
             pc = "paid" => S = {"ACCEPTED"},
             pc \in {"addItem", "dropItem"} => S = {"REQUESTED", "ACCEPTED"}
      PROVE  AgreeInv'
  <2>1. PICK r : r = [Idle EXCEPT !.pc = pc]
    OBVIOUS
  <2>2. r \in Request
    BY <2>1, IdleOK DEF Request
  <2>3. r.pc = pc
    BY <2>1 DEF Idle
  <2> QED
    BY <1>1, <1>3, <2>1, <2>2, <2>3, AgreeAsk
<1>4. ASSUME NEW b \in BookingId PROVE CreateReview(p, b) => AgreeInv'
  BY <1>3 DEF CreateReview
<1>5. ASSUME NEW b \in BookingId
      PROVE  UploadPhoto(p, b) \/ FilesystemUploadPhoto(p, b) => AgreeInv'
  BY <1>3 DEF UploadPhoto, FilesystemUploadPhoto
<1>6. ASSUME NEW b \in BookingId
      PROVE  Accept(p, b) \/ Deny(p, b) \/ UpdateBookingToPaid(p, b) => AgreeInv'
  BY <1>3 DEF Accept, Deny, UpdateBookingToPaid
<1>7. ASSUME NEW b \in BookingId
      PROVE  AskBill(p, b, "addItem") \/ AskBill(p, b, "dropItem") => AgreeInv'
  BY <1>3 DEF AskBill
<1>8. ASSUME NEW b \in BookingId, NEW f \in PhotoId, DeletePhoto(p, b, f) PROVE AgreeInv'
  <2>1. PICK r : r = [Idle EXCEPT !.pc = "deletePhoto", !.photo = f]
    OBVIOUS
  <2>2. r \in Request
    BY <2>1, IdleOK DEF Request
  <2>3. r.pc = "deletePhoto"
    BY <2>1 DEF Idle
  <2>4. Ask(p, b, BookingStatus, r)
    BY <1>8, <2>1 DEF DeletePhoto
  <2> QED
    BY <1>1, <2>2, <2>3, <2>4, AgreeAsk
<1>9. ASSUME NEW f \in PhotoId, DeleteById(p, f) PROVE AgreeInv'
  <2>1. PICK r : r = [Idle EXCEPT !.pc = "deletePhoto", !.photo = f]
    OBVIOUS
  <2>2. r.pc \in Quietly
    BY <2>1 DEF Idle, Quietly
  <2>3. /\ req' = [req EXCEPT ![p] = r]
        /\ mode = "serial" => \A q \in Procs \ {p} : At(q, "idle")
    BY <1>9, <2>1 DEF DeleteById, Begin
  <2> QED
    BY <1>1, <2>2, <2>3, AgreeOn
<1>10. AgreeInv'
  <2>1. CASE CustomerAsks(p)
    BY <2>1, <1>2, <1>4 DEF CustomerAsks
  <2>2. CASE PhotographerAsks(p)
    BY <2>2, <1>5, <1>6, <1>8, <1>9, AgreeMove DEF PhotographerAsks
  <2>3. CASE PhotographerBills(p)
    BY <2>3, <1>7 DEF PhotographerBills
  <2> QED
    BY <2>1, <2>2, <2>3
<1> QED
  BY <1>1, <1>10, RowsQuiet

\* The steps of requests that deliver and delete photos, and of jobs and time.
LEMMA AgreePhotos ==
  ASSUME IInv, AgreeInv, NEW p \in Procs,
         \/ UpsertReview(p) \/ ReadQuota(p) \/ CreateParsed(p) \/ RaiseUsage(p) \/ Attach(p)
         \/ CreateLocal(p) \/ QueueUpload(p) \/ DeleteRow(p) \/ ReadUsage(p) \/ LowerUsage(p)
  PROVE  AgreeInv' /\ Quiet
<1>1. UNCHANGED <<mode, booking, been, items>> /\ Quiet
  BY DEF UpsertReview, ReadQuota, CreateParsed, RaiseUsage, Attach, CreateLocal, QueueUpload, DeleteRow,
     ReadUsage, LowerUsage, rowVars, Quiet
<1>2. ~At(p, "idle")
  BY DEF UpsertReview, ReadQuota, CreateParsed, RaiseUsage, Attach, CreateLocal, QueueUpload, DeleteRow,
     ReadUsage, LowerUsage, At
<1>3. mode = "serial" => \A q \in Procs \ {p} : At(q, "idle")
  BY <1>2, Known DEF At
<1>4. PICK o : o = req[p] /\ o \in Request
  BY Known
<1>5. PICK r : req' = [req EXCEPT ![p] = r] /\ r.pc \in Quietly
  <2>1. Idle.pc \in Quietly
    BY IdleOK DEF Quietly
  <2>2. CASE Done(p)
    BY <2>1, <2>2 DEF Done
  <2>3. ASSUME NEW pc \in Quietly, Goto(p, pc)
        PROVE  \E r : req' = [req EXCEPT ![p] = r] /\ r.pc \in Quietly
    <3>1. PICK r : r = [o EXCEPT !.pc = pc]
      OBVIOUS
    <3>2. r.pc = pc
      BY <1>4, <3>1 DEF Request
    <3> QED
      BY <1>4, <2>3, <3>1, <3>2 DEF Goto
  <2>4. ASSUME NEW row, NEW pc \in Quietly, CreatePhoto(p, row, pc)
        PROVE  \E r : req' = [req EXCEPT ![p] = r] /\ r.pc \in Quietly
    <3>1. PICK f \in PhotoId : req' = [req EXCEPT ![p] = [@ EXCEPT !.pc = pc, !.photo = f]]
      BY <2>4 DEF CreatePhoto
    <3>2. PICK r : r = [o EXCEPT !.pc = pc, !.photo = f]
      OBVIOUS
    <3>3. r.pc = pc
      BY <1>4, <3>2 DEF Request
    <3> QED
      BY <1>4, <3>1, <3>2, <3>3
  <2>5. CASE ReadUsage(p)
    <3>1. PICK r : r = [o EXCEPT !.pc = "lowerUsage", !.usage = usage]
      OBVIOUS
    <3>2. r.pc \in Quietly
      BY <1>4, <3>1 DEF Request, Quietly
    <3> QED
      BY <1>4, <2>5, <3>1, <3>2 DEF ReadUsage
  <2>6. {"createPhoto", "raiseUsage", "attach", "queueUpload", "readUsage"} \subseteq Quietly
    BY DEF Quietly
  <2>7. CASE UpsertReview(p) \/ Attach(p) \/ QueueUpload(p) \/ LowerUsage(p)
    BY <2>2, <2>7 DEF UpsertReview, Attach, QueueUpload, LowerUsage
  <2>8. CASE ReadQuota(p) \/ RaiseUsage(p) \/ DeleteRow(p)
    BY <2>2, <2>3, <2>6, <2>8 DEF ReadQuota, RaiseUsage, DeleteRow
  <2>9. CASE CreateParsed(p) \/ CreateLocal(p)
    BY <2>4, <2>6, <2>9 DEF CreateParsed, CreateLocal
  <2> QED
    BY <2>5, <2>7, <2>8, <2>9
<1>6. CASE mode # "serial"
  BY <1>1, <1>6 DEF AgreeInv
<1>7. CASE mode = "serial"
  <2>1. Asked(r) /\ DatesOK(r)'
    BY <1>5 DEF Quietly, Asked, DatesOK
  <2>2. Billed'
    BY <1>1, <1>7 DEF AgreeInv, Billed, Used
  <2> QED
    BY <1>1, <1>3, <1>5, <1>7, <2>1, <2>2, AgreePut
<1> QED
  BY <1>1, <1>6, <1>7

\* What is written of a booking, and of the others.
LEMMA Written ==
  ASSUME Types, NEW b \in BookingId, NEW row \in BookingRow, Write(b, row)
  PROVE  /\ booking'[b].status = row.status /\ booking'[b].customer = row.customer
         /\ booking'[b].span = row.span
         /\ \A c \in BookingId \ {b} : booking'[c] = booking[c]
<1>1. PICK s : s = IF row.paidAt THEN row ELSE [row EXCEPT !.recent = TRUE]
  OBVIOUS
<1>2. s.status = row.status /\ s.customer = row.customer /\ s.span = row.span
  <2>1. CASE row.paidAt
    BY <1>1, <2>1
  <2>2. CASE ~row.paidAt
    BY <1>1, <2>2 DEF BookingRow
  <2> QED
    BY <2>1, <2>2
<1>3. booking' = [booking EXCEPT ![b] = s]
  BY <1>1 DEF Write
<1>4. booking'[b] = s /\ \A c \in BookingId \ {b} : booking'[c] = booking[c]
  BY <1>3 DEF Types
<1> QED
  BY <1>2, <1>4

\* The bookings, as agreements.
Phase == [b \in BookingId |-> Serial(booking[b].status, "UNUSED")]
Holder == [b \in BookingId |-> Serial(booking[b].customer, None)]
Dates == [b \in BookingId |-> Serial(booking[b].span, None)]
BillOf(b) == {i[2] : i \in {j \in items : j[1] = b}}
Bills == [b \in BookingId |-> Serial(BillOf(b), {})]

LEMMA QuietAgrees ==
  ASSUME Quiet
  PROVE  Phase' = Phase /\ Holder' = Holder /\ Dates' = Dates /\ Bills' = Bills
<1>1. mode' = mode /\ items' = items
  BY DEF Quiet
<1>2. \A b \in BookingId : /\ booking'[b].status = booking[b].status
                           /\ booking'[b].customer = booking[b].customer
                           /\ booking'[b].span = booking[b].span
  BY DEF Quiet
<1>3. Phase' = Phase
  BY <1>1, <1>2 DEF Phase, Serial
<1>4. Holder' = Holder
  BY <1>1, <1>2 DEF Holder, Serial
<1>5. Dates' = Dates
  BY <1>1, <1>2 DEF Dates, Serial
<1>6. Bills' = Bills
  BY <1>1 DEF Bills, BillOf, Serial
<1> QED
  BY <1>3, <1>4, <1>5, <1>6

\* What managers set and requests do together is outside the agreements.
LEMMA LooseAgrees ==
  ASSUME mode # "serial", mode' = mode
  PROVE  Phase' = Phase /\ Holder' = Holder /\ Dates' = Dates /\ Bills' = Bills
BY DEF Phase, Holder, Dates, Bills, Serial

\* In the mode the agreements are about, they are the rows.
LEMMA SerialAgrees ==
  ASSUME mode = "serial"
  PROVE  /\ Phase = [b \in BookingId |-> booking[b].status]
         /\ Holder = [b \in BookingId |-> booking[b].customer]
         /\ Dates = [b \in BookingId |-> booking[b].span]
         /\ Bills = [b \in BookingId |-> BillOf(b)]
BY DEF Phase, Holder, Dates, Bills, Serial

LEMMA SerialAgreesNext ==
  ASSUME mode' = "serial"
  PROVE  /\ Phase' = [b \in BookingId |-> booking'[b].status]
         /\ Holder' = [b \in BookingId |-> booking'[b].customer]
         /\ Dates' = [b \in BookingId |-> booking'[b].span]
         /\ Bills' = [b \in BookingId |-> BillOf(b)']
BY DEF Phase, Holder, Dates, Bills, Serial

LEMMA AgreementSteps ==
  /\ Phase' = Phase /\ Holder' = Holder /\ Dates' = Dates /\ Bills' = Bills
       => UNCHANGED Agreements!agreementVars
  /\ Agreements!Init <=>
       /\ Phase = [b \in BookingId |-> "UNUSED"] /\ Holder = [b \in BookingId |-> None]
       /\ Dates = [b \in BookingId |-> None] /\ Bills = [b \in BookingId |-> {}]
BY DEF Agreements!agreementVars, Agreements!Init, Phase, Holder, Dates, Bills, BillOf

\* A booking that is standing is an agreement that is.
LEMMA FreeIfNoOverlap ==
  ASSUME IInv, mode = "serial", NEW b \in BookingId, NEW u, NEW s, ~Overlapping(u, s)
  PROVE  Agreements!FreeFor(u, b, s)
<1> SUFFICES ASSUME NEW c \in BookingId \ {b}, Agreements!Standing(c), Holder[c] = u
             PROVE  ~Agreements!Meet(Dates[c], s)
  BY DEF Agreements!FreeFor, Holder, Dates
<1>1. Phase[c] = booking[c].status /\ Holder[c] = booking[c].customer /\ Dates[c] = booking[c].span
  BY DEF Phase, Holder, Dates, Serial
<1>2. booking[c].status \in {"REQUESTED", "ACCEPTED"}
  BY <1>1 DEF Agreements!Standing, Phase
<1>3. booking[c].status \notin Closed /\ booking[c].customer = u
  BY <1>1, <1>2 DEF Closed
<1>4. ~(booking[c].span.from <= s.to /\ booking[c].span.to >= s.from)
  BY <1>3 DEF Overlapping
<1>5. ~(booking[c].span.from <= s.to /\ s.from <= booking[c].span.to)
  BY <1>4
<1> QED
  BY <1>1, <1>5 DEF Agreements!Meet

\* validatePreviousBookingOverlap
LEMMA AgreeOverlap ==
  ASSUME IInv, AgreeInv, NEW p \in Procs, CheckOverlap(p)
  PROVE  AgreeInv' /\ Quiet
<1>1. UNCHANGED <<mode, rowVars>> /\ At(p, "checkOverlap")
  BY DEF CheckOverlap
<1>2. CASE mode # "serial"
  BY <1>1, <1>2, RowsQuiet DEF AgreeInv
<1>3. CASE mode = "serial"
  <2>1. \A q \in Procs \ {p} : At(q, "idle")
    BY <1>1, <1>3, Known DEF At
  <2>2. Billed'
    BY <1>1, <1>3 DEF rowVars, AgreeInv, Billed, Used
  <2>3. CASE Done(p)
    BY <1>1, <2>1, <2>2, <2>3, AgreeDone, RowsQuiet
  <2>4. CASE ~Done(p)
    <3>1. PICK o : o = req[p] /\ o \in Request /\ Asked(o) /\ DatesOK(o)
      BY <1>3, Known DEF AgreeInv
    <3>2. PICK pc : pc = IF o.id = 0 THEN "create" ELSE "update"
      OBVIOUS
    <3>3. PICK r : r = [o EXCEPT !.pc = pc]
      OBVIOUS
    <3>4. r.pc = pc /\ r.id = o.id /\ r.user = o.user /\ r.span = o.span /\ r.status = o.status
      BY <3>1, <3>3 DEF Request
    <3>5. ~Overlapping(o.user, o.span) /\ req' = [req EXCEPT ![p] = r]
      BY <2>4, <3>1, <3>2, <3>3 DEF CheckOverlap, Goto
    <3>6. o.pc = "checkOverlap"
      BY <1>1, <3>1 DEF At
    <3>7. Asked(r)
      BY <3>1, <3>2, <3>4, <3>6 DEF Asked
    <3>8. ~Overlapping(o.user, o.span)'
      BY <1>1, <3>5 DEF Overlapping, rowVars
    <3>9. o.id # 0 /\ o.span # None => o.user = booking'[o.id].customer
      BY <1>1, <3>1, <3>6 DEF DatesOK, rowVars
    <3>10. DatesOK(r)'
      BY <3>2, <3>4, <3>8, <3>9 DEF DatesOK
    <3> QED
      BY <1>1, <2>1, <2>2, <3>5, <3>7, <3>10, AgreePut, RowsQuiet
  <2> QED
    BY <2>3, <2>4
<1> QED
  BY <1>2, <1>3

\* A step of one booking is a step of one agreement.
LEMMA OneAgreement ==
  ASSUME mode = "serial", mode' = mode, NEW b \in BookingId,
         \A c \in BookingId \ {b} : booking'[c] = booking[c]
  PROVE  /\ Phase' = [Phase EXCEPT ![b] = booking'[b].status]
         /\ Holder' = [Holder EXCEPT ![b] = booking'[b].customer]
         /\ Dates' = [Dates EXCEPT ![b] = booking'[b].span]
<1>1. Phase' = [Phase EXCEPT ![b] = booking'[b].status]
  BY SerialAgrees, SerialAgreesNext
<1>2. Holder' = [Holder EXCEPT ![b] = booking'[b].customer]
  BY SerialAgrees, SerialAgreesNext
<1>3. Dates' = [Dates EXCEPT ![b] = booking'[b].span]
  BY SerialAgrees, SerialAgreesNext
<1> QED
  BY <1>1, <1>2, <1>3

LEMMA OneBill ==
  ASSUME mode = "serial", mode' = mode, NEW b \in BookingId, NEW S, BillOf(b)' = S,
         \A i : i[1] # b => (i \in items' <=> i \in items)
  PROVE  Bills' = [Bills EXCEPT ![b] = S]
<1>1. ASSUME NEW c \in BookingId, c # b PROVE BillOf(c)' = BillOf(c)
  <2>1. {j \in items' : j[1] = c} = {j \in items : j[1] = c}
    BY <1>1
  <2> QED
    BY <2>1 DEF BillOf
<1>2. \A c \in BookingId : BillOf(c)' = IF c = b THEN S ELSE BillOf(c)
  BY <1>1
<1> QED
  BY <1>2, SerialAgrees, SerialAgreesNext

\* The bill of a booking is its items.
LEMMA SameBills ==
  ASSUME mode' = mode, items' = items
  PROVE  Bills' = Bills
BY DEF Bills, BillOf, Serial

LEMMA PlaceIs ==
  ASSUME NEW b \in BookingId, NEW u \in Users, NEW s \in Spans, NEW i \in 1..MaxItems,
         Phase[b] = "UNUSED", Agreements!FreeFor(u, b, s), Phase' = [Phase EXCEPT ![b] = "REQUESTED"],
         Holder' = [Holder EXCEPT ![b] = u], Dates' = [Dates EXCEPT ![b] = s],
         Bills' = [Bills EXCEPT ![b] = {i}]
  PROVE  Agreements!Place(b)
BY Zenon DEF Agreements!Place, Phase, Holder, Dates, Bills, BillOf

LEMMA PlaceAgrees ==
  ASSUME IInv, AgreeInv, mode = "serial", NEW p \in Procs, CreateBooking(p)
  PROVE  AgreeInv' /\ \E b \in BookingId : Agreements!Place(b)
<1>1. PICK b \in BookingId :
        /\ ~Used(b)
        /\ Write(b, [FreeBooking EXCEPT !.status = "REQUESTED", !.package = req[p].package,
                                        !.customer = req[p].user, !.span = req[p].span])
        /\ items' = items \cup {<<b, 1>>}
  BY DEF CreateBooking
<1>2. mode' = mode /\ Done(p) /\ At(p, "create")
  BY DEF CreateBooking
<1>3. PICK o : o = req[p] /\ o \in Request /\ Asked(o) /\ DatesOK(o) /\ RequestOK(o)
  BY Known DEF AgreeInv
<1>4. o.user \in Users /\ o.package \in Packages /\ o.span \in Spans /\ ~Overlapping(o.user, o.span)
  BY <1>2, <1>3 DEF At, RequestOK, OfDates, DatesOK
<1>5. PICK row : row = [FreeBooking EXCEPT !.status = "REQUESTED", !.package = o.package,
                                           !.customer = o.user, !.span = o.span]
  OBVIOUS
<1>6. /\ row \in BookingRow /\ row.status = "REQUESTED" /\ row.customer = o.user
      /\ row.span = o.span
  BY <1>4, <1>5 DEF BookingRow, BookingStatus, FreeBooking
<1>7. Write(b, row)
  BY <1>1, <1>3, <1>5
<1>8. /\ booking'[b].status = "REQUESTED" /\ booking'[b].customer = o.user
      /\ booking'[b].span = o.span
      /\ \A c \in BookingId \ {b} : booking'[c] = booking[c]
  BY <1>6, <1>7, Written DEF IInv
<1>9. Phase[b] = "UNUSED"
  BY <1>1 DEF Phase, Serial, Used
<1>10. /\ Phase' = [Phase EXCEPT ![b] = "REQUESTED"] /\ Holder' = [Holder EXCEPT ![b] = o.user]
       /\ Dates' = [Dates EXCEPT ![b] = o.span]
  BY <1>2, <1>8, OneAgreement
<1>11. Agreements!FreeFor(o.user, b, o.span)
  BY <1>4, FreeIfNoOverlap
<1>12. BillOf(b)' = {1}
  <2>1. \A i \in items : i[1] # b
    BY <1>1 DEF AgreeInv, Billed
  <2>2. ASSUME NEW j \in items', j[1] = b PROVE j[2] = 1
    <3>1. j \notin items
      BY <2>1, <2>2
    <3> QED
      BY <1>1, <2>2, <3>1
  <2>3. <<b, 1>> \in items' /\ <<b, 1>>[1] = b /\ <<b, 1>>[2] = 1
    BY <1>1
  <2> QED
    BY <2>2, <2>3 DEF BillOf
<1>13. Bills' = [Bills EXCEPT ![b] = {1}]
  <2>1. \A i : i[1] # b => (i \in items' <=> i \in items)
    BY <1>1
  <2> QED
    BY <1>2, <1>12, <2>1, OneBill
<1>14. 1 \in 1..MaxItems
  BY BookingAssumption
<1>15. Agreements!Place(b)
  <2>1. o.user \in Users /\ o.span \in Spans
    BY <1>4
  <2> QED
    BY <1>9, <1>10, <1>11, <1>13, <1>14, <2>1, PlaceIs
<1>16. Billed'
  <2>1. ASSUME NEW i \in items' PROVE Used(i[1])'
    <3>1. CASE i = <<b, 1>>
      BY <1>8, <3>1 DEF Used
    <3>2. CASE i \in items
      <4>1. Used(i[1]) /\ i[1] \in BookingId
        BY <3>2 DEF AgreeInv, Billed, IInv, Types
      <4> QED
        BY <1>1, <1>8, <4>1 DEF Used
    <3> QED
      BY <1>1, <2>1, <3>1, <3>2
  <2> QED
    BY <2>1 DEF Billed
<1>17. \A q \in Procs \ {p} : At(q, "idle")
  BY <1>2, Known DEF At
<1> QED
  BY <1>2, <1>15, <1>16, <1>17, AgreeDone

LEMMA MoveIs ==
  ASSUME NEW b \in BookingId, NEW s \in Spans, Phase[b] \in {"REQUESTED", "ACCEPTED"},
         Agreements!FreeFor(Holder[b], b, s), Phase' = Phase, Holder' = Holder,
         Dates' = [Dates EXCEPT ![b] = s], Bills' = Bills
  PROVE  Agreements!Move(b)
BY Zenon DEF Agreements!Move, Agreements!Standing, Phase, Holder, Dates, Bills, BillOf

\* No step, or one of the agreements'.
Agrees ==
  \/ Phase' = Phase /\ Holder' = Holder /\ Dates' = Dates /\ Bills' = Bills
  \/ Agreements!Next

LEMMA MoveAgrees ==
  ASSUME IInv, AgreeInv, mode = "serial", NEW p \in Procs, WriteUpdate(p)
  PROVE  AgreeInv' /\ Agrees
<1>1. PICK o : o = req[p] /\ o \in Request /\ Asked(o) /\ DatesOK(o) /\ RequestOK(o)
  BY Known DEF AgreeInv
<1>2. mode' = mode /\ Done(p) /\ At(p, "update") /\ items' = items
  BY DEF WriteUpdate
<1>3. PICK b \in BookingId : b = o.id
  BY <1>1, <1>2 DEF RequestOK, OfBooking, At, Request
<1>4. PICK row : row = IF o.span = None THEN booking[b] ELSE [booking[b] EXCEPT !.span = o.span]
  OBVIOUS
<1>5. Write(b, row)
  BY <1>1, <1>3, <1>4 DEF WriteUpdate
<1>6. b # 0 /\ Used(b) /\ booking[b] \in BookingRow
  BY <1>1, <1>3, UsedIsRow DEF RequestOK, IInv, BookingId
<1>7. o.span \in Spans \cup {None}
  BY <1>1 DEF Request
<1>8. /\ row \in BookingRow /\ row.status = booking[b].status /\ row.customer = booking[b].customer
      /\ row.span = IF o.span = None THEN booking[b].span ELSE o.span
  <2>1. CASE o.span = None
    BY <1>4, <1>6, <2>1
  <2>2. CASE o.span # None
    BY <1>4, <1>6, <1>7, <2>2 DEF BookingRow
  <2> QED
    BY <2>1, <2>2
<1>9. /\ booking'[b].status = booking[b].status /\ booking'[b].customer = booking[b].customer
      /\ booking'[b].span = row.span
      /\ \A c \in BookingId \ {b} : booking'[c] = booking[c]
  BY <1>5, <1>8, Written DEF IInv
<1>10. Billed'
  <2>1. ASSUME NEW i \in items PROVE Used(i[1])'
    <3>1. Used(i[1]) /\ i[1] \in BookingId
      BY DEF AgreeInv, Billed, IInv, Types
    <3> QED
      BY <1>9, <3>1 DEF Used
  <2> QED
    BY <1>2, <2>1 DEF Billed
<1>11. \A q \in Procs \ {p} : At(q, "idle")
  BY <1>2, Known DEF At
<1>12. AgreeInv'
  BY <1>2, <1>10, <1>11, AgreeDone
<1>13. CASE o.span = None
  <2>1. Quiet
    BY <1>2, <1>8, <1>9, <1>13 DEF Quiet
  <2> QED
    BY <1>12, <2>1, QuietAgrees DEF Agrees
<1>14. CASE o.span # None
  <2>1. PICK s \in Spans : s = o.span
    BY <1>7, <1>14
  <2>2. o.user = booking[b].customer /\ ~Overlapping(o.user, s)
    BY <1>1, <1>2, <1>3, <1>6, <1>14, <2>1 DEF At, DatesOK
  <2>3. Holder[b] = o.user /\ Phase[b] = booking[b].status
    BY <2>2 DEF Holder, Phase, Serial
  <2>4. Agreements!FreeFor(Holder[b], b, s)
    BY <2>2, <2>3, FreeIfNoOverlap
  <2>5. booking[b].status \in {"REQUESTED", "ACCEPTED"}
    <3>1. o.status \in {"REQUESTED", "ACCEPTED"}
      BY <1>1, <1>2, <1>3, <1>6 DEF At, Asked
    <3>2. booking[b].status = o.status
      BY <1>1, <1>3, <1>6, Known
    <3> QED
      BY <3>1, <3>2
  <2>6. /\ Phase' = [Phase EXCEPT ![b] = booking[b].status]
        /\ Holder' = [Holder EXCEPT ![b] = booking[b].customer]
        /\ Dates' = [Dates EXCEPT ![b] = s]
    BY <1>2, <1>8, <1>9, <1>14, <2>1, OneAgreement
  <2>7. Phase' = Phase /\ Holder' = Holder
    BY <2>6, SerialAgrees
  <2>8. Bills' = Bills
    BY <1>2, SameBills
  <2>9. Agreements!Move(b)
    BY <2>3, <2>4, <2>5, <2>6, <2>7, <2>8, MoveIs
  <2> QED
    BY <1>12, <2>9 DEF Agrees, Agreements!Next
<1> QED
  BY <1>13, <1>14

LEMMA ForwardIs ==
  ASSUME NEW b \in BookingId, NEW st,
         \/ Phase[b] = "REQUESTED" /\ st \in {"ACCEPTED", "DENIED"}
         \/ Phase[b] = "ACCEPTED" /\ st = "SUCCESSED",
         Phase' = [Phase EXCEPT ![b] = st], Holder' = Holder, Dates' = Dates, Bills' = Bills
  PROVE  Agreements!Forward(b)
<1>1. CASE Phase[b] = "REQUESTED" /\ st = "ACCEPTED"
  BY <1>1, Zenon DEF Agreements!Forward, Phase, Holder, Dates, Bills, BillOf
<1>2. CASE Phase[b] = "REQUESTED" /\ st = "DENIED"
  BY <1>2, Zenon DEF Agreements!Forward, Phase, Holder, Dates, Bills, BillOf
<1>3. CASE Phase[b] = "ACCEPTED" /\ st = "SUCCESSED"
  BY <1>3, Zenon DEF Agreements!Forward, Phase, Holder, Dates, Bills, BillOf
<1> QED
  BY <1>1, <1>2, <1>3

LEMMA ForwardAgrees ==
  ASSUME IInv, AgreeInv, mode = "serial", NEW p \in Procs, Decide(p) \/ Paid(p)
  PROVE  AgreeInv' /\ Agrees
<1>1. PICK o : o = req[p] /\ o \in Request /\ Asked(o) /\ RequestOK(o)
  BY Known DEF AgreeInv
<1>2. /\ mode' = mode /\ Done(p) /\ items' = items
      /\ At(p, "accept") \/ At(p, "deny") \/ At(p, "paid")
  BY DEF Decide, Paid
<1>3. PICK b \in BookingId : b = o.id
  BY <1>1, <1>2 DEF RequestOK, OfBooking, At, Request
<1>4. b # 0 /\ Used(b) /\ booking[b] \in BookingRow
  BY <1>1, <1>3, UsedIsRow DEF RequestOK, IInv, BookingId
<1>5. booking[b].status = o.status
  BY <1>1, <1>3, <1>4, Known
<1>6. PICK row, st :
        /\ Write(b, row) /\ row \in BookingRow
        /\ row.status = st /\ row.customer = booking[b].customer /\ row.span = booking[b].span
        /\ \/ o.status = "REQUESTED" /\ st \in {"ACCEPTED", "DENIED"}
           \/ o.status = "ACCEPTED" /\ st = "SUCCESSED"
  <2>1. CASE Decide(p)
    <3>1. PICK st : st = IF At(p, "accept") THEN "ACCEPTED" ELSE "DENIED"
      OBVIOUS
    <3>2. PICK row : row = [booking[b] EXCEPT !.status = st]
      OBVIOUS
    <3>3. Write(b, row)
      BY <1>1, <1>3, <2>1, <3>1, <3>2 DEF Decide
    <3>4. st \in {"ACCEPTED", "DENIED"} /\ st \in BookingStatus
      BY <3>1 DEF BookingStatus
    <3>5. /\ row \in BookingRow /\ row.status = st /\ row.customer = booking[b].customer
          /\ row.span = booking[b].span
      BY <1>4, <3>2, <3>4 DEF BookingRow
    <3>6. o.status = "REQUESTED"
      BY <1>1, <2>1 DEF Decide, At, Asked
    <3> QED
      BY <3>3, <3>4, <3>5, <3>6
  <2>2. CASE Paid(p)
    <3>1. PICK row : row = [booking[b] EXCEPT !.status = "SUCCESSED", !.paidAt = TRUE, !.recent = TRUE]
      OBVIOUS
    <3>2. Write(b, row)
      BY <1>1, <1>3, <2>2, <3>1 DEF Paid
    <3>3. /\ row \in BookingRow /\ row.status = "SUCCESSED" /\ row.customer = booking[b].customer
          /\ row.span = booking[b].span
      BY <1>4, <3>1 DEF BookingRow, BookingStatus
    <3>4. o.status = "ACCEPTED"
      BY <1>1, <2>2 DEF Paid, At, Asked
    <3> QED
      BY <3>2, <3>3, <3>4
  <2> QED
    BY <2>1, <2>2
<1>7. /\ booking'[b].status = st /\ booking'[b].customer = booking[b].customer
      /\ booking'[b].span = booking[b].span
      /\ \A c \in BookingId \ {b} : booking'[c] = booking[c]
  BY <1>6, Written DEF IInv
<1>8. Billed'
  <2>1. ASSUME NEW i \in items PROVE Used(i[1])'
    <3>1. Used(i[1]) /\ i[1] \in BookingId
      BY DEF AgreeInv, Billed, IInv, Types
    <3>2. st # "UNUSED"
      BY <1>6
    <3> QED
      BY <1>7, <3>1, <3>2 DEF Used
  <2> QED
    BY <1>2, <2>1 DEF Billed
<1>9. \A q \in Procs \ {p} : At(q, "idle")
  BY <1>2, Known DEF At
<1>10. AgreeInv'
  BY <1>2, <1>8, <1>9, AgreeDone
<1>11. /\ Phase' = [Phase EXCEPT ![b] = st] /\ Holder' = [Holder EXCEPT ![b] = booking[b].customer]
       /\ Dates' = [Dates EXCEPT ![b] = booking[b].span]
  BY <1>2, <1>7, OneAgreement
<1>12. Holder' = Holder /\ Dates' = Dates /\ Phase[b] = o.status
  BY <1>5, <1>11, SerialAgrees
<1>13. Bills' = Bills
  BY <1>2, SameBills
<1>14. Agreements!Forward(b)
  BY <1>6, <1>11, <1>12, <1>13, ForwardIs
<1> QED
  BY <1>10, <1>14 DEF Agrees, Agreements!Next

LEMMA BillIs ==
  ASSUME NEW b \in BookingId, NEW S \in SUBSET (1..MaxItems), Phase[b] \in {"REQUESTED", "ACCEPTED"},
         Phase' = Phase, Holder' = Holder, Dates' = Dates, Bills' = [Bills EXCEPT ![b] = S]
  PROVE  Agreements!Bill(b)
BY Zenon DEF Agreements!Bill, Agreements!Standing, Phase, Holder, Dates, Bills, BillOf

LEMMA BillAgrees ==
  ASSUME IInv, AgreeInv, mode = "serial", NEW p \in Procs, AddItem(p) \/ DropItem(p)
  PROVE  AgreeInv' /\ Agrees
<1>1. PICK o : o = req[p] /\ o \in Request /\ Asked(o) /\ RequestOK(o)
  BY Known DEF AgreeInv
<1>2. /\ mode' = mode /\ Done(p) /\ booking' = booking
      /\ At(p, "addItem") \/ At(p, "dropItem")
  BY DEF AddItem, DropItem
<1>3. PICK b \in BookingId : b = o.id
  BY <1>1, <1>2 DEF RequestOK, OfBooking, At, Request
<1>4. b # 0 /\ Used(b)
  BY <1>1, <1>3 DEF RequestOK, BookingId
<1>5. booking[b].status \in {"REQUESTED", "ACCEPTED"}
  <2>1. o.status \in {"REQUESTED", "ACCEPTED"}
    BY <1>1, <1>2 DEF At, Asked
  <2>2. booking[b].status = o.status
    BY <1>1, <1>3, <1>4, Known
  <2> QED
    BY <2>1, <2>2
<1>6. \A i : i[1] # b => (i \in items' <=> i \in items)
  <2>1. CASE AddItem(p)
    <3>1. PICK n \in Nat : items' = items \cup {<<b, n>>}
      <4>1. PICK n \in 1..Rows[mode].items : items' = items \cup {<<o.id, n>>}
        BY <1>1, <2>1 DEF AddItem
      <4>2. Rows[mode].items \in 0..MaxItems
        BY BookingAssumption DEF IInv, Types
      <4>3. n \in Nat
        BY <4>1, <4>2, BookingAssumption
      <4> QED
        BY <1>3, <4>1, <4>3
    <3> QED
      BY <3>1
  <2>2. CASE DropItem(p)
    BY <1>1, <1>3, <2>2 DEF DropItem
  <2> QED
    BY <1>2, <2>1, <2>2
<1>7. \A i \in items' : i \in BookingId \X (1..MaxItems)
  BY BillStep DEF IInv, Types
<1>8. PICK S \in SUBSET (1..MaxItems) : BillOf(b)' = S
  BY <1>7 DEF BillOf
<1>9. Bills' = [Bills EXCEPT ![b] = S]
  BY <1>2, <1>6, <1>8, OneBill
<1>10. /\ Phase[b] \in {"REQUESTED", "ACCEPTED"}
       /\ Phase' = Phase /\ Holder' = Holder /\ Dates' = Dates
  BY <1>2, <1>5 DEF Phase, Holder, Dates, Serial
<1>11. Agreements!Bill(b)
  BY <1>9, <1>10, BillIs
<1>12. Billed'
  <2>1. ASSUME NEW i \in items' PROVE Used(i[1])'
    <3>1. CASE i[1] = b
      BY <1>2, <1>4, <3>1 DEF Used
    <3>2. CASE i[1] # b
      <4>1. i \in items
        BY <1>6, <3>2
      <4> QED
        BY <1>2, <4>1 DEF AgreeInv, Billed, Used
    <3> QED
      BY <3>1, <3>2
  <2> QED
    BY <2>1 DEF Billed
<1>13. \A q \in Procs \ {p} : At(q, "idle")
  BY <1>2, Known DEF At
<1>14. AgreeInv'
  BY <1>2, <1>12, <1>13, AgreeDone
<1> QED
  BY <1>11, <1>14 DEF Agrees, Agreements!Next

LEMMA AgreeJob ==
  ASSUME IInv, AgreeInv, NEW f \in PhotoId, RunUploadJob(f)
  PROVE  AgreeInv' /\ Quiet
<1>1. UNCHANGED <<mode, rowVars>> /\ Quiet
  BY RowsQuiet DEF RunUploadJob
<1>2. CASE mode # "serial"
  BY <1>1, <1>2 DEF AgreeInv
<1>3. CASE mode = "serial"
  <2>1. Billed'
    BY <1>1, <1>3 DEF rowVars, AgreeInv, Billed, Used
  <2>2. CASE req' = req
    <3>1. \A p \in Procs : DatesOK(req[p])'
      BY <1>1, <1>3, <2>2 DEF AgreeInv, DatesOK, Overlapping, rowVars
    <3> QED
      BY <1>1, <1>3, <2>1, <2>2, <3>1 DEF AgreeInv, Asked
  <2>3. CASE req' = [p \in Procs |-> Idle]
    <3>1. \A p \in Procs : (Asked(req[p]) /\ DatesOK(req[p]))'
      BY <2>3, IdleOK DEF Asked, DatesOK
    <3> QED
      BY <1>1, <2>1, <3>1 DEF AgreeInv
  <2> QED
    BY <2>2, <2>3 DEF RunUploadJob
<1> QED
  BY <1>1, <1>2, <1>3

LEMMA AgreeAge ==
  ASSUME IInv, AgreeInv, NEW b \in BookingId, Age(b)
  PROVE  AgreeInv' /\ Quiet
<1>1. mode' = mode /\ items' = items /\ req' = req /\ \A p \in Procs : req[p].pc = "idle"
  BY DEF Age, At
<1>2. booking[b] \in BookingRow
  BY UsedIsRow DEF Age, Used, IInv
<1>3. booking' = [booking EXCEPT ![b] = [booking[b] EXCEPT !.recent = FALSE]]
  BY DEF Age
<1>4. PICK row : row = [booking[b] EXCEPT !.recent = FALSE]
  OBVIOUS
<1>5. row.status = booking[b].status /\ row.customer = booking[b].customer /\ row.span = booking[b].span
  BY <1>2, <1>4 DEF BookingRow
<1>6. booking' = [booking EXCEPT ![b] = row]
  BY <1>3, <1>4
<1>7. \A c \in BookingId : /\ booking'[c].status = booking[c].status
                           /\ booking'[c].customer = booking[c].customer
                           /\ booking'[c].span = booking[c].span
  BY <1>5, <1>6 DEF IInv, Types
<1>8. \A p \in Procs : Asked(req'[p]) /\ DatesOK(req[p])'
  BY <1>1 DEF Asked, DatesOK
<1>9. Billed => Billed'
  <2>1. ASSUME NEW i \in items, Used(i[1]) PROVE Used(i[1])'
    <3>1. i[1] \in BookingId
      BY DEF IInv, Types
    <3> QED
      BY <1>7, <2>1, <3>1 DEF Used
  <2> QED
    BY <1>1, <2>1 DEF Billed
<1> QED
  BY <1>1, <1>7, <1>8, <1>9 DEF AgreeInv, Quiet

-----------------------------------------------------------------------------
(* Every step of the bookings is one of the agreements, or none *)

\* What is written while requests or managers run together is outside them too.
LEMMA LooseStep ==
  ASSUME mode # "serial", mode' = mode
  PROVE  AgreeInv' /\ Agrees
BY LooseAgrees DEF AgreeInv, Agrees

LEMMA QuietStep ==
  ASSUME IInv, Quiet
  PROVE  Agrees
BY QuietAgrees DEF Agrees

LEMMA StepAgrees ==
  ASSUME IInv, AgreeInv, NEW p \in Procs, Step(p)
  PROVE  AgreeInv' /\ Agrees
<1>1. CASE CheckOverlap(p)
  BY <1>1, AgreeOverlap, QuietStep
<1>2. CASE CreateBooking(p)
  <2>1. CASE mode = "serial"
    BY <1>2, <2>1, PlaceAgrees DEF Agrees, Agreements!Next
  <2> QED
    BY <1>2, <2>1, LooseStep DEF CreateBooking
<1>3. CASE WriteUpdate(p)
  <2>1. mode' = mode
    BY <1>3 DEF WriteUpdate
  <2> QED
    BY <1>3, <2>1, MoveAgrees, LooseStep
<1>4. CASE Decide(p) \/ Paid(p)
  <2>1. mode' = mode
    BY <1>4 DEF Decide, Paid
  <2> QED
    BY <1>4, <2>1, ForwardAgrees, LooseStep
<1>5. CASE AddItem(p) \/ DropItem(p)
  <2>1. mode' = mode
    BY <1>5 DEF AddItem, DropItem
  <2> QED
    BY <1>5, <2>1, BillAgrees, LooseStep
<1>6. CASE \/ UpsertReview(p) \/ ReadQuota(p) \/ CreateParsed(p) \/ RaiseUsage(p) \/ Attach(p)
           \/ CreateLocal(p) \/ QueueUpload(p) \/ DeleteRow(p) \/ ReadUsage(p) \/ LowerUsage(p)
  BY <1>6, AgreePhotos, QuietStep
<1> QED
  BY <1>1, <1>2, <1>3, <1>4, <1>5, <1>6 DEF Step

LEMMA NextAgrees == IInv /\ AgreeInv /\ [Next]_vars => AgreeInv' /\ [Agreements!Next]_(Agreements!agreementVars)
<1> SUFFICES ASSUME IInv, AgreeInv, [Next]_vars PROVE AgreeInv' /\ Agrees
  BY AgreementSteps DEF Agrees
<1>1. ASSUME NEW p \in Procs, CustomerAsks(p) \/ PhotographerAsks(p) \/ PhotographerBills(p)
      PROVE  AgreeInv' /\ Agrees
  BY <1>1, AgreeRequest, QuietStep
<1>2. CASE ManagerSets
  <2>1. mode = "managed" /\ mode' = mode
    BY <1>2 DEF ManagerSets, UpdateStatus
  <2> QED
    BY <2>1, LooseStep
<1>3. ASSUME NEW f \in PhotoId, RunUploadJob(f) PROVE AgreeInv' /\ Agrees
  BY <1>3, AgreeJob, QuietStep
<1>4. ASSUME NEW b \in BookingId, Age(b) PROVE AgreeInv' /\ Agrees
  BY <1>4, AgreeAge, QuietStep
<1>5. CASE UNCHANGED vars
  <2>1. UNCHANGED <<mode, rowVars>> /\ UNCHANGED <<booking, items, req>>
    BY <1>5 DEF vars, rowVars
  <2>2. \A p \in Procs : Asked(req[p]) /\ DatesOK(req[p]) => Asked(req'[p]) /\ DatesOK(req[p])'
    BY <2>1 DEF Asked, DatesOK, Overlapping
  <2>3. Billed => Billed'
    BY <2>1 DEF Billed, Used
  <2> QED
    BY <2>1, <2>2, <2>3, RowsQuiet, QuietStep DEF AgreeInv
<1> QED
  BY <1>1, <1>2, <1>3, <1>4, <1>5, StepAgrees DEF Next

LEMMA InitAgrees == Init => Agreements!Init
<1> SUFFICES ASSUME Init PROVE Agreements!Init
  OBVIOUS
<1>1. \A b \in BookingId : /\ booking[b].status = "UNUSED" /\ booking[b].customer = None
                           /\ booking[b].span = None
  BY DEF Init, FreeBooking
<1>2. \A b \in BookingId : BillOf(b) = {}
  BY DEF Init, BillOf
<1> QED
  BY <1>1, <1>2, AgreementSteps DEF Phase, Holder, Dates, Bills, Serial

\* One request at a time, whatever jobs run and however long it takes, the bookings are
\* agreements: placed and moved to dates the customer has free, moved forward only, billed while
\* they stand, and left alone when they are closed.
THEOREM BookingsAreAgreements == Spec => KeepsAgreements
<1>1. Init => AgreeInv /\ Agreements!Init
  BY InitAgree, InitAgrees
<1>2. Spec => Agreements!Init /\ [][Agreements!Next]_(Agreements!agreementVars)
  BY <1>1, NextAgrees, Always, PTL DEF Spec
<1> QED
  BY <1>2 DEF KeepsAgreements, Agreements!Spec
=============================================================================
