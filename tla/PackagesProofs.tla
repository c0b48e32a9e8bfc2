--------------------------- MODULE PackagesProofs ---------------------------
(***************************************************************************)
(* Type correctness of PhotoshootPackages, that the count a photographer's *)
(* limit is checked against is the number of packages, and that the files  *)
(* of a package are where its rows say, for any number of packages, files, *)
(* requests and failures.                                                  *)
(***************************************************************************)
EXTENDS PhotoshootPackages, FiniteSetTheorems, TLAPS

LivePackages == {k \in PackageId : Live(k)}

\* What a request that has begun will write to is a package.
RequestsOK ==
  \A p \in Procs : req[p].pc \in {"queue", "delete", "addShowcase"} => req[p].package \in PackageId

IInv == TypeOK /\ RequestsOK /\ count = Cardinality(LivePackages)

-----------------------------------------------------------------------------
(* Counting *)

LEMMA LiveFinite == IsFiniteSet(LivePackages) /\ Cardinality(LivePackages) \in Nat
<1>1. IsFiniteSet(PackageId)
  BY PackagesAssumption, FS_Interval DEF PackageId
<1>2. IsFiniteSet(LivePackages)
  BY <1>1, FS_Subset DEF LivePackages
<1> QED
  BY <1>2, FS_CardinalityType

\* Nothing to count: the packages that are live stay the same.
LEMMA SameLive ==
  ASSUME UNCHANGED <<package, count>>, count = Cardinality(LivePackages)
  PROVE  count' = Cardinality(LivePackages')
  BY DEF LivePackages, Live

-----------------------------------------------------------------------------
(* Types *)

RequestType ==
  [pc : {"idle", "create", "queue", "delete", "addShowcase", "dropFile", "dropRow",
         "replaceFile", "replaceRow"},
   package : PackageId \cup {0}, row : Row \cup {NoRow}, source : {"FILESYSTEM", "CLOUD"}]

UploadType ==
  [pc : {"none", "queued", "read", "uploaded", "switched"}, left : 0..Attempts,
   files : SUBSET FileId]

UsedPackage ==
  [used : {TRUE}, source : {"FILESYSTEM", "CLOUD"}, thumbnail : FileId, deleted : BOOLEAN]
PackageType == {FreePackage} \cup UsedPackage

LEMMA NewFilesAreFiles ==
  ASSUME TypeOK, NEW n PROVE NewFiles(n) \subseteq FileId
  BY PackagesAssumption DEF TypeOK, NewFiles, FileId

LEMMA NewRowIsRow ==
  ASSUME NEW i \in FileId, NEW m \in BOOLEAN, NEW k \in PackageId, NEW f \in FileId
  PROVE  [id |-> i, moved |-> m, package |-> k, file |-> f] \in Row
  BY DEF Row

LEMMA LiveIsUsed ==
  ASSUME package \in [PackageId -> PackageType], NEW k \in PackageId, Live(k)
  PROVE  package[k] \in UsedPackage
  BY DEF PackageType, Live, FreePackage

LEMMA ChangedPackage ==
  ASSUME NEW r \in UsedPackage
  PROVE  /\ [r EXCEPT !.deleted = TRUE] \in PackageType
         /\ [r EXCEPT !.source = "CLOUD"] \in PackageType
<1>1. [r EXCEPT !.deleted = TRUE] \in UsedPackage
  BY DEF UsedPackage
<1>2. [r EXCEPT !.source = "CLOUD"] \in UsedPackage
  BY DEF UsedPackage
<1> QED
  BY <1>1, <1>2 DEF PackageType

\* A request that ends or goes on keeps its shape.
LEMMA RequestStep ==
  ASSUME TypeOK, RequestsOK, NEW p \in Procs, NEW r \in RequestType,
         r.pc \in {"queue", "delete", "addShowcase"} => r.package \in PackageId,
         req' = [req EXCEPT ![p] = r]
  PROVE  req' \in [Procs -> RequestType] /\ RequestsOK'
  BY DEF TypeOK, RequestsOK, RequestType

LEMMA IdleRequest == Idle \in RequestType /\ Idle.pc = "idle"
  BY DEF Idle, RequestType

LEMMA DoneOK ==
  ASSUME TypeOK, RequestsOK, NEW p \in Procs, Done(p)
  PROVE  req' \in [Procs -> RequestType] /\ RequestsOK'
  BY IdleRequest, RequestStep DEF Done

\* A job that fails is queued again or given up.
LEMMA FailedOK ==
  ASSUME TypeOK, NEW k \in PackageId, Failed(k) PROVE upload' \in [PackageId -> UploadType]
<1>1. upload \in [PackageId -> UploadType]
  BY DEF TypeOK, UploadType
<1>2. NoJob \in UploadType
  BY PackagesAssumption DEF NoJob, UploadType
<1>3. ASSUME upload[k].left > 1
      PROVE  [NoJob EXCEPT !.pc = "queued", !.left = upload[k].left - 1] \in UploadType
  <2>1. upload[k].left - 1 \in 0..Attempts
    BY <1>1, <1>3, PackagesAssumption DEF UploadType
  <2> QED
    BY <1>2, <2>1 DEF UploadType
<1> QED
  BY <1>1, <1>2, <1>3 DEF Failed

LEMMA PutOK ==
  ASSUME TypeOK, NEW F, NEW where \in SUBSET {"temporary", "named", "disk", "cloud"}, Put(F, where)
  PROVE  file' \in [FileId -> SUBSET {"temporary", "named", "disk", "cloud"}]
  BY DEF TypeOK, Put

-----------------------------------------------------------------------------
(* The invariant *)

LEMMA InitIInv == Init => IInv
<1> SUFFICES ASSUME Init PROVE IInv
  OBVIOUS
<1>1. TypeOK
  BY PackagesAssumption DEF Init, TypeOK, FreePackage, NoJob, Idle, NoRow
<1>2. RequestsOK
  BY DEF Init, RequestsOK, Idle
<1>3. LivePackages = {}
  BY DEF Init, LivePackages, Live, FreePackage
<1> QED
  BY <1>1, <1>2, <1>3, FS_EmptySet DEF Init, IInv

\* What a step must show, beside the variables it leaves alone.
LEMMA Assemble ==
  ASSUME IInv,
         setting' = setting,
         package' \in [PackageId -> PackageType],
         showcase' \subseteq Row,
         file' \in [FileId -> SUBSET {"temporary", "named", "disk", "cloud"}],
         count' = Cardinality(LivePackages'), count' \in Nat,
         upload' \in [PackageId -> UploadType],
         purge' \subseteq FileId,
         req' \in [Procs -> RequestType], RequestsOK',
         failures' \in 0..MaxFailures
  PROVE  IInv'
  BY DEF IInv, TypeOK, RequestType, UploadType, PackageType, UsedPackage

\* The same, for a step that leaves the packages and the count alone.
LEMMA AssembleSame ==
  ASSUME IInv,
         setting' = setting, UNCHANGED <<package, count>>,
         showcase' \subseteq Row,
         file' \in [FileId -> SUBSET {"temporary", "named", "disk", "cloud"}],
         upload' \in [PackageId -> UploadType],
         purge' \subseteq FileId,
         req' \in [Procs -> RequestType], RequestsOK',
         failures' \in 0..MaxFailures
  PROVE  IInv'
<1>1. count' = Cardinality(LivePackages')
  BY SameLive DEF IInv
<1> QED
  BY <1>1, Assemble DEF IInv, TypeOK, PackageType, UsedPackage

LEMMA NextIInv == IInv /\ [Next]_vars => IInv'
<1> SUFFICES ASSUME IInv, [Next]_vars PROVE IInv'
  OBVIOUS
<1> USE DEF IInv
<1>0. /\ TypeOK
      /\ setting \in Settings /\ showcase \subseteq Row /\ purge \subseteq FileId /\ count \in Nat
      /\ package \in [PackageId -> PackageType]
      /\ file \in [FileId -> SUBSET {"temporary", "named", "disk", "cloud"}]
      /\ upload \in [PackageId -> UploadType]
      /\ req \in [Procs -> RequestType] /\ RequestsOK
      /\ failures \in 0..MaxFailures
  BY PackagesAssumption DEF TypeOK, PackageType, UsedPackage, UploadType, RequestType
<1>1. ASSUME NEW p \in Procs, NEW source \in {"FILESYSTEM", "CLOUD"}, Create(p, source)
      PROVE  IInv'
  <2>1. [Idle EXCEPT !.pc = "create", !.source = source] \in RequestType
    BY IdleRequest DEF RequestType
  <2>2. [Idle EXCEPT !.pc = "create", !.source = source].pc = "create"
    BY DEF Idle
  <2>3. req' \in [Procs -> RequestType] /\ RequestsOK'
    BY <1>0, <1>1, <2>1, <2>2, RequestStep DEF Create, Begin
  <2> QED
    BY <1>0, <1>1, <2>3, AssembleSame DEF Create, rowVars, jobVars
<1>2. ASSUME NEW p \in Procs, InsertPackage(p) PROVE IInv'
  <2>1. PICK k \in 1..setting.packages, t \in NewFiles(2), f \in NewFiles(2) :
          /\ ~package[k].used
          /\ package' = [package EXCEPT ![k] =
               [used |-> TRUE, source |-> req[p].source, thumbnail |-> t, deleted |-> FALSE]]
          /\ showcase' = showcase \cup {[id |-> f, moved |-> FALSE, package |-> k, file |-> f]}
          /\ Put(NewFiles(2), IF req[p].source = "CLOUD" THEN InTheCloud ELSE OnTheDisk)
          /\ req' = [req EXCEPT ![p] = IF req[p].source = "CLOUD" THEN Idle
                                       ELSE [Idle EXCEPT !.pc = "queue", !.package = k]]
    BY <1>2 DEF InsertPackage
  <2>2. k \in PackageId /\ t \in FileId /\ f \in FileId
    BY <1>0, <2>1, NewFilesAreFiles, PackagesAssumption DEF PackageId
  <2>3. package' \in [PackageId -> PackageType]
    <3>1. [used |-> TRUE, source |-> req[p].source, thumbnail |-> t, deleted |-> FALSE] \in PackageType
      BY <1>0, <2>2 DEF PackageType, UsedPackage, RequestType
    <3> QED
      BY <1>0, <2>1, <2>2, <3>1
  <2>4. showcase' \subseteq Row
    <3>1. [id |-> f, moved |-> FALSE, package |-> k, file |-> f] \in Row
      BY <2>2, NewRowIsRow
    <3> QED
      BY <1>0, <2>1, <3>1
  <2>5. file' \in [FileId -> SUBSET {"temporary", "named", "disk", "cloud"}]
    BY <1>0, <2>1, PutOK DEF InTheCloud, OnTheDisk
  <2>6. req' \in [Procs -> RequestType] /\ RequestsOK'
    <3>1. [Idle EXCEPT !.pc = "queue", !.package = k] \in RequestType
      BY <2>2, IdleRequest DEF RequestType
    <3>2. [Idle EXCEPT !.pc = "queue", !.package = k].package = k
      BY DEF Idle
    <3> QED
      BY <1>0, <2>1, <2>2, <3>1, <3>2, IdleRequest, RequestStep
  <2>7. count' = Cardinality(LivePackages')
    <3>1. LivePackages' = LivePackages \cup {k}
      BY <1>0, <2>1, <2>2 DEF LivePackages, Live
    <3>2. k \notin LivePackages
      BY <2>1 DEF LivePackages, Live
    <3> QED
      BY <1>2, <3>1, <3>2, LiveFinite, FS_AddElement DEF InsertPackage
  <2> QED
    BY <1>0, <1>2, <2>3, <2>4, <2>5, <2>6, <2>7, Assemble DEF InsertPackage, jobVars
<1>3. ASSUME NEW p \in Procs, QueueUpload(p) PROVE IInv'
  <2>1. NoJob \in UploadType
    BY PackagesAssumption DEF NoJob, UploadType
  <2>2. [NoJob EXCEPT !.pc = "queued", !.left = Attempts] \in UploadType
    <3>1. Attempts \in 0..Attempts
      BY PackagesAssumption
    <3> QED
      BY <2>1, <3>1 DEF UploadType
  <2>3. upload' \in [PackageId -> UploadType]
    BY <1>0, <1>3, <2>2 DEF QueueUpload
  <2> QED
    BY <1>0, <1>3, <2>3, DoneOK, AssembleSame DEF QueueUpload, rowVars
<1>4. ASSUME NEW p \in Procs, NEW k \in PackageId, Delete(p, k) PROVE IInv'
  <2>1. [Idle EXCEPT !.pc = "delete", !.package = k] \in RequestType
    BY IdleRequest DEF RequestType
  <2>2. [Idle EXCEPT !.pc = "delete", !.package = k].package = k
    BY DEF Idle
  <2>3. req' \in [Procs -> RequestType] /\ RequestsOK'
    BY <1>0, <1>4, <2>1, <2>2, RequestStep DEF Delete, Begin
  <2> QED
    BY <1>0, <1>4, <2>3, AssembleSame DEF Delete, rowVars, jobVars
<1>5. ASSUME NEW p \in Procs, DeletePackage(p) PROVE IInv'
  <2> DEFINE k == req[p].package
  <2>1. k \in PackageId
    BY <1>0, <1>5 DEF DeletePackage, At, RequestsOK
  <2>2. req' \in [Procs -> RequestType] /\ RequestsOK'
    BY <1>0, <1>5, DoneOK DEF DeletePackage
  <2>3. CASE ~Live(k)
    BY <1>0, <1>5, <2>2, <2>3, AssembleSame DEF DeletePackage, jobVars
  <2>4. CASE Live(k)
    <3>1. package' = [package EXCEPT ![k].deleted = TRUE] /\ count' = count - 1
      BY <1>5, <2>4 DEF DeletePackage
    <3>2. package' \in [PackageId -> PackageType]
      <4>1. [package[k] EXCEPT !.deleted = TRUE] \in PackageType
        BY <1>0, <2>1, <2>4, LiveIsUsed, ChangedPackage
      <4> QED
        BY <1>0, <2>1, <3>1, <4>1
    <3>3. LivePackages' = LivePackages \ {k}
      BY <1>0, <2>1, <3>1, <3>2 DEF LivePackages, Live, PackageType
    <3>4. k \in LivePackages
      BY <2>1, <2>4 DEF LivePackages
    <3>5. IsFiniteSet(LivePackages \ {k}) /\ Cardinality(LivePackages \ {k}) = Cardinality(LivePackages) - 1
      BY <3>4, LiveFinite, FS_RemoveElement
    <3>6. Cardinality(LivePackages \ {k}) \in Nat
      BY <3>5, FS_CardinalityType
    <3>7. count' = Cardinality(LivePackages') /\ count' \in Nat
      BY <3>1, <3>3, <3>5, <3>6
    <3> QED
      BY <1>0, <1>5, <2>2, <3>2, <3>7, Assemble DEF DeletePackage, jobVars
  <2> QED
    BY <2>3, <2>4
<1>6. ASSUME NEW p \in Procs, NEW k \in PackageId, CreateShowcase(p, k) PROVE IInv'
  <2>1. [Idle EXCEPT !.pc = "addShowcase", !.package = k] \in RequestType
    BY IdleRequest DEF RequestType
  <2>2. [Idle EXCEPT !.pc = "addShowcase", !.package = k].package = k
    BY DEF Idle
  <2>3. req' \in [Procs -> RequestType] /\ RequestsOK'
    BY <1>0, <1>6, <2>1, <2>2, RequestStep DEF CreateShowcase, Begin
  <2> QED
    BY <1>0, <1>6, <2>3, AssembleSame DEF CreateShowcase, rowVars, jobVars
<1>7. ASSUME NEW p \in Procs, NEW k \in PackageId, NEW r \in ShowcasesOf(k),
             NEW pc \in {"dropFile", "replaceFile"}, EditShowcase(p, r, pc)
      PROVE  IInv'
  <2>1. r \in Row
    BY <1>0 DEF ShowcasesOf
  <2>2. [Idle EXCEPT !.pc = pc, !.package = r.package, !.row = r] \in RequestType
    BY <2>1, IdleRequest DEF RequestType, Row
  <2>3. [Idle EXCEPT !.pc = pc, !.package = r.package, !.row = r].pc = pc
    BY DEF Idle
  <2>4. req' \in [Procs -> RequestType] /\ RequestsOK'
    BY <1>0, <1>7, <2>2, <2>3, RequestStep DEF EditShowcase, Begin
  <2> QED
    BY <1>0, <1>7, <2>4, AssembleSame DEF EditShowcase, rowVars, jobVars
<1>8. ASSUME NEW p \in Procs, AddShowcase(p) PROVE IInv'
  <2>1. PICK f \in NewFiles(1) : showcase' = showcase \cup
          {[id |-> f, moved |-> FALSE, package |-> req[p].package, file |-> f]}
    BY <1>8 DEF AddShowcase
  <2>2. req[p].package \in PackageId /\ f \in FileId
    BY <1>0, <1>8, <2>1, NewFilesAreFiles DEF AddShowcase, At, RequestsOK
  <2>3. showcase' \subseteq Row
    <3>1. [id |-> f, moved |-> FALSE, package |-> req[p].package, file |-> f] \in Row
      BY <2>2, NewRowIsRow
    <3> QED
      BY <1>0, <2>1, <3>1
  <2>4. file' \in [FileId -> SUBSET {"temporary", "named", "disk", "cloud"}]
    BY <1>0, <1>8, PutOK DEF AddShowcase, InTheCloud
  <2> QED
    BY <1>0, <1>8, <2>3, <2>4, DoneOK, AssembleSame DEF AddShowcase, jobVars
<1>9. ASSUME NEW p \in Procs, DropFile(p) PROVE IInv'
  <2> DEFINE next == IF At(p, "dropFile") THEN "dropRow" ELSE "replaceRow"
  <2>1. file' \in [FileId -> SUBSET {"temporary", "named", "disk", "cloud"}]
    BY <1>0, <1>9 DEF DropFile
  <2>2. req' = [req EXCEPT ![p] = [req[p] EXCEPT !.pc = next]]
    BY <1>0, <1>9 DEF DropFile, Goto
  <2>3. [req[p] EXCEPT !.pc = next] \in RequestType /\ [req[p] EXCEPT !.pc = next].pc = next
    BY <1>0 DEF RequestType
  <2>4. next \notin {"queue", "delete", "addShowcase"}
    OBVIOUS
  <2> HIDE DEF next
  <2>5. req' \in [Procs -> RequestType] /\ RequestsOK'
    BY <1>0, <2>2, <2>3, <2>4, RequestStep
  <2> QED
    BY <1>0, <1>9, <2>1, <2>5, AssembleSame DEF DropFile, rowVars, jobVars
<1>10. ASSUME NEW p \in Procs, DropRow(p) PROVE IInv'
  BY <1>0, <1>10, DoneOK, AssembleSame DEF DropRow, jobVars
<1>11. ASSUME NEW p \in Procs, ReplaceRow(p) PROVE IInv'
  <2> DEFINE row == req[p].row
  <2>1. PICK f \in NewFiles(1) : showcase' =
          {IF r.id = row.id /\ r.moved = row.moved THEN [r EXCEPT !.file = f] ELSE r : r \in showcase}
    BY <1>11 DEF ReplaceRow
  <2>2. f \in FileId
    BY <1>0, NewFilesAreFiles
  <2>3. \A r \in showcase : r \in Row /\ [r EXCEPT !.file = f] \in Row
    BY <1>0, <2>2 DEF Row
  <2>4. showcase' \subseteq Row
    BY <2>1, <2>3
  <2>5. file' \in [FileId -> SUBSET {"temporary", "named", "disk", "cloud"}]
    BY <1>0, <1>11, PutOK DEF ReplaceRow, InTheCloud
  <2> QED
    BY <1>0, <1>11, <2>4, <2>5, DoneOK, AssembleSame DEF ReplaceRow, jobVars
<1>12. ASSUME NEW k \in PackageId, UploadRead(k) PROVE IInv'
  <2>1. NoJob \in UploadType
    BY PackagesAssumption DEF NoJob, UploadType
  <2>2. upload' \in [PackageId -> UploadType]
    <3>1. CASE Failed(k)
      BY <1>0, <3>1, FailedOK
    <3>2. CASE upload' = [upload EXCEPT ![k] = NoJob]
      BY <1>0, <2>1, <3>2
    <3>3. CASE Live(k) /\ upload' = [upload EXCEPT ![k].pc = "read",
                 ![k].files = {package[k].thumbnail} \cup {r.file : r \in ShowcasesOf(k)}]
      <4> DEFINE F == {package[k].thumbnail} \cup {r.file : r \in ShowcasesOf(k)}
      <4>1. F \in SUBSET FileId
        <5>1. package[k].thumbnail \in FileId
          BY <1>0, <3>3, LiveIsUsed DEF UsedPackage
        <5>2. \A r \in ShowcasesOf(k) : r.file \in FileId
          BY <1>0 DEF ShowcasesOf, Row
        <5> QED
          BY <5>1, <5>2
      <4>2. upload' = [upload EXCEPT ![k] = [upload[k] EXCEPT !.pc = "read", !.files = F]]
        BY <1>0, <3>3
      <4> HIDE DEF F
      <4>3. [upload[k] EXCEPT !.pc = "read", !.files = F] \in UploadType
        BY <1>0, <4>1 DEF UploadType
      <4> QED
        BY <1>0, <4>2, <4>3
    <3> QED
      BY <1>12, <3>1, <3>2, <3>3 DEF UploadRead
  <2> QED
    BY <1>0, <1>12, <2>2, AssembleSame DEF UploadRead, rowVars, RequestsOK
<1>13. ASSUME NEW k \in PackageId, UploadFiles(k) PROVE IInv'
  <2>1. CASE OnDisk(upload[k].files)
    <3>1. [upload[k] EXCEPT !.pc = "uploaded"] \in UploadType
      BY <1>0 DEF UploadType
    <3>2. upload' \in [PackageId -> UploadType]
      BY <1>0, <1>13, <2>1, <3>1 DEF UploadFiles
    <3>3. file' \in [FileId -> SUBSET {"temporary", "named", "disk", "cloud"}]
      BY <1>0, <1>13, <2>1, PutOK DEF UploadFiles
    <3> QED
      BY <1>0, <1>13, <3>2, <3>3, AssembleSame DEF UploadFiles, rowVars, RequestsOK
  <2>2. CASE ~OnDisk(upload[k].files)
    BY <1>0, <1>13, <2>2, FailedOK, AssembleSame DEF UploadFiles, rowVars, RequestsOK
  <2> QED
    BY <2>1, <2>2
<1>14. ASSUME NEW k \in PackageId, UploadSwitch(k) PROVE IInv'
  <2>1. CASE ~Live(k)
    BY <1>0, <1>14, <2>1, FailedOK, AssembleSame DEF UploadSwitch, RequestsOK
  <2>2. CASE Live(k)
    <3>1. package' = [package EXCEPT ![k] = [package[k] EXCEPT !.source = "CLOUD"]]
      BY <1>0, <1>14, <2>2 DEF UploadSwitch
    <3>2. [package[k] EXCEPT !.source = "CLOUD"] \in PackageType
      BY <1>0, <2>2, LiveIsUsed, ChangedPackage
    <3>3. package' \in [PackageId -> PackageType]
      BY <1>0, <3>1, <3>2
    <3>4. LivePackages' = LivePackages
      BY <1>0, <3>1, <2>2 DEF LivePackages, Live, PackageType
    <3>5. showcase' \subseteq Row
      <4>1. showcase' = (showcase \ ShowcasesOf(k)) \cup
              {[id |-> f, moved |-> TRUE, package |-> k, file |-> f] :
                 f \in upload[k].files \ {package[k].thumbnail}}
        BY <1>14, <2>2 DEF UploadSwitch
      <4>2. upload[k].files \subseteq FileId
        BY <1>0 DEF UploadType
      <4>3. \A f \in FileId : [id |-> f, moved |-> TRUE, package |-> k, file |-> f] \in Row
        BY NewRowIsRow
      <4> QED
        BY <1>0, <4>1, <4>2, <4>3
    <3>6. [upload[k] EXCEPT !.pc = "switched"] \in UploadType
      BY <1>0 DEF UploadType
    <3>7. upload' \in [PackageId -> UploadType]
      BY <1>0, <1>14, <2>2, <3>6 DEF UploadSwitch
    <3> QED
      BY <1>0, <1>14, <3>3, <3>4, <3>5, <3>7, Assemble DEF UploadSwitch, RequestsOK
  <2> QED
    BY <2>1, <2>2
<1>15. ASSUME NEW k \in PackageId, QueuePurge(k) PROVE IInv'
  <2>1. NoJob \in UploadType
    BY PackagesAssumption DEF NoJob, UploadType
  <2>2. upload' \in [PackageId -> UploadType]
    BY <1>0, <1>15, <2>1 DEF QueuePurge
  <2>3. purge' \subseteq FileId
    BY <1>0, <1>15 DEF QueuePurge, UploadType
  <2> QED
    BY <1>0, <1>15, <2>2, <2>3, AssembleSame DEF QueuePurge, rowVars, RequestsOK
<1>16. ASSUME NEW f \in FileId, DeleteFileSystemPhoto(f) PROVE IInv'
  <2>1. file' \in [FileId -> SUBSET {"temporary", "named", "disk", "cloud"}]
    BY <1>0, <1>16 DEF DeleteFileSystemPhoto
  <2> QED
    BY <1>0, <1>16, <2>1, AssembleSame DEF DeleteFileSystemPhoto, rowVars, RequestsOK
<1>17. ASSUME NEW k \in PackageId, UploadFails(k) PROVE IInv'
  <2>1. failures' \in 0..MaxFailures
    BY <1>0, <1>17, PackagesAssumption DEF UploadFails
  <2> QED
    BY <1>0, <1>17, <2>1, FailedOK, AssembleSame DEF UploadFails, rowVars, RequestsOK
<1>18. ASSUME NEW p \in Procs, FailRequest(p) PROVE IInv'
  <2>1. failures' \in 0..MaxFailures
    BY <1>0, <1>18, PackagesAssumption DEF FailRequest
  <2> QED
    BY <1>0, <1>18, <2>1, DoneOK, AssembleSame DEF FailRequest, rowVars, jobVars
<1>19. ASSUME UNCHANGED vars PROVE IInv'
  BY <1>0, <1>19, AssembleSame DEF vars, rowVars, jobVars, RequestsOK
<1> QED
  <2>1. ASSUME NEW p \in Procs, PhotographerAsks(p) PROVE IInv'
    BY <1>1, <1>4, <2>1 DEF PhotographerAsks
  <2>2. ASSUME NEW p \in Procs, PhotographerShows(p) PROVE IInv'
    BY <1>6, <1>7, <2>2 DEF PhotographerShows
  <2>3. ASSUME NEW p \in Procs, Step(p) PROVE IInv'
    BY <1>2, <1>3, <1>5, <1>8, <1>9, <1>10, <1>11, <2>3 DEF Step
  <2>4. ASSUME NEW k \in PackageId, UploadStep(k) PROVE IInv'
    BY <1>12, <1>13, <1>14, <1>15, <2>4 DEF UploadStep
  <2> QED
    BY <1>16, <1>17, <1>18, <1>19, <2>1, <2>2, <2>3, <2>4 DEF Next

-----------------------------------------------------------------------------
\* The tables, jobs and requests keep their shape, and the count that create compares with
\* maxPackageCount is the number of packages, whatever creations and deletions, by the
\* photographer and by managers, run together, fail or are lost.
THEOREM CountIsRight == Spec => []CountMatches
<1>1. IInv => CountMatches
  BY DEF IInv, CountMatches, LivePackages
<1> QED
  BY <1>1, InitIInv, NextIInv, PTL DEF Spec

-----------------------------------------------------------------------------
(* Where the files of packages are *)

\* A request that replaces or deletes a showcase photo.
Edits == {"dropFile", "dropRow", "replaceFile", "replaceRow"}
Editing(p) == req[p].pc \in Edits
RowGone(p) == At(p, "dropRow") \/ At(p, "replaceRow")

\* A package names a file, or names it through what a job or a request has read.
Holds(k, f) ==
  \/ package[k].used /\ package[k].thumbnail = f
  \/ \E r \in showcase : r.package = k /\ (r.id = f \/ r.file = f)
  \/ f \in upload[k].files
  \/ \E p \in Procs : Editing(p) /\ req[p].row.package = k /\ req[p].row.file = f

\* A file was made on the disk or in the cloud, under a name it keeps.
Made(f) == "temporary" \in file[f] \/ "named" \in file[f]

\* No two packages name one file, and a file that is named has been made, ...
HeldOK ==
  \A k \in PackageId, f \in FileId : Holds(k, f) =>
    /\ package[k].used /\ Made(f)
    /\ \A l \in PackageId : Holds(l, f) => l = k
    /\ f \in purge => package[k].source = "CLOUD"
\* ... what is on the disk got there under a temporary name, ...
FilesOK ==
  \A f \in FileId : "disk" \in file[f] \/ f \in purge => "temporary" \in file[f]
\* ... rows differ in their files, and rows of the job come with the cloud, ...
RowsOK ==
  \A r \in showcase :
    /\ r.file # package[r.package].thumbnail
    /\ r.moved => package[r.package].source = "CLOUD"
    /\ \A s \in showcase : r.file = s.file \/ (r.id = s.id /\ r.moved = s.moved) => r = s
\* ... a request deletes the file of the row it has read and of no other, ...
InCloud(r) == r.moved \/ "temporary" \notin file[r.file]
EditOK(r, pc) ==
  /\ r \in Row
  /\ r.file # package[r.package].thumbnail
  /\ r.moved => package[r.package].source = "CLOUD"
  /\ pc \in {"dropFile", "replaceFile"} /\ InCloud(r) => \A s \in showcase : s.file = r.file => s = r
EditsOK == \A p \in Procs : Editing(p) => EditOK(req[p].row, req[p].pc)
\* ... one that adds a photo has read a package, ...
AddsOK == \A p \in Procs : At(p, "addShowcase") => package[req[p].package].used
\* ... and a job has what it copies until it has written that it did.
JobOK(k) ==
  /\ upload[k].pc \in {"read", "uploaded"} =>
       package[k].source = "FILESYSTEM" /\ package[k].thumbnail \in upload[k].files
  /\ upload[k].pc \in {"uploaded", "switched"} => \A f \in upload[k].files : "temporary" \in file[f]
  /\ upload[k].pc = "uploaded" => \A f \in upload[k].files : "cloud" \in file[f]
  /\ upload[k].pc = "switched" => package[k].used /\ package[k].source = "CLOUD"
JobsOK == \A k \in PackageId : JobOK(k)

FInv ==
  HeldOK /\ FilesOK /\ RowsOK /\ EditsOK /\ AddsOK /\ JobsOK /\ ThumbnailStored /\ ShowcasesStored

LEMMA InitFInv == Init => FInv
<1> SUFFICES ASSUME Init PROVE FInv
  OBVIOUS
<1>1. /\ \A k \in PackageId : ~package[k].used /\ upload[k].pc = "none" /\ upload[k].files = {}
      /\ \A p \in Procs : req[p].pc = "idle"
      /\ \A f \in FileId : file[f] = {}
      /\ showcase = {} /\ purge = {}
  BY DEF Init, FreePackage, NoJob, Idle
<1>2. HeldOK
  BY <1>1 DEF HeldOK, Holds, Editing, Edits
<1>3. FilesOK /\ RowsOK /\ ThumbnailStored /\ ShowcasesStored
  BY <1>1 DEF FilesOK, RowsOK, ThumbnailStored, ShowcasesStored
<1>4. EditsOK /\ AddsOK /\ JobsOK
  <2>1. EditsOK
    BY <1>1 DEF EditsOK, Editing, Edits
  <2>2. JobsOK
    BY <1>1 DEF JobsOK, JobOK
  <2>3. AddsOK
    BY <1>1 DEF AddsOK, At
  <2> QED
    BY <2>1, <2>2, <2>3
<1> QED
  BY <1>2, <1>3, <1>4 DEF FInv

\* The types that the steps rely on.
LEMMA Shapes ==
  ASSUME IInv
  PROVE  /\ package \in [PackageId -> PackageType] /\ showcase \subseteq Row
         /\ file \in [FileId -> SUBSET {"temporary", "named", "disk", "cloud"}]
         /\ upload \in [PackageId -> UploadType] /\ purge \subseteq FileId
         /\ req \in [Procs -> RequestType] /\ failures \in Nat
<1>1. failures \in Nat
  BY PackagesAssumption DEF IInv, TypeOK
<1>2. /\ package \in [PackageId -> PackageType] /\ showcase \subseteq Row
      /\ file \in [FileId -> SUBSET {"temporary", "named", "disk", "cloud"}] /\ purge \subseteq FileId
  BY DEF IInv, TypeOK, PackageType, UsedPackage
<1>3. upload \in [PackageId -> UploadType]
  BY DEF IInv, TypeOK, UploadType
<1>4. req \in [Procs -> RequestType]
  BY DEF IInv, TypeOK, RequestType
<1> QED
  BY <1>1, <1>2, <1>3, <1>4

LEMMA RowFields ==
  ASSUME NEW r \in Row
  PROVE  r.id \in FileId /\ r.moved \in BOOLEAN /\ r.package \in PackageId /\ r.file \in FileId
  BY DEF Row

\* The only files that a package comes to name are new ones.
LEMMA HeldStep ==
  ASSUME IInv, IInv', FInv, NEW k0 \in PackageId, NEW F \in SUBSET FileId,
         \A f \in F : file[f] = {} /\ Made(f)',
         F # {} => package'[k0].used,
         \A k \in PackageId, f \in FileId : Holds(k, f)' => Holds(k, f) \/ (k = k0 /\ f \in F),
         \A k \in PackageId : package[k].used =>
           package'[k].used /\ (package[k].source = "CLOUD" => package'[k].source = "CLOUD"),
         \A f \in FileId : Made(f) => Made(f)',
         \A f \in FileId : f \in purge' /\ f \notin purge =>
           file[f] # {} /\ \A k \in PackageId : Holds(k, f) => package[k].source = "CLOUD"
  PROVE  HeldOK'
<1> SUFFICES ASSUME NEW k \in PackageId, NEW f \in FileId, Holds(k, f)'
             PROVE  /\ package'[k].used /\ Made(f)'
                    /\ \A l \in PackageId : Holds(l, f)' => l = k
                    /\ f \in purge' => package'[k].source = "CLOUD"
  BY DEF HeldOK
<1>1. file \in [FileId -> SUBSET {"temporary", "named", "disk", "cloud"}]
  BY Shapes
<1>2. \A l \in PackageId, g \in FileId : Holds(l, g) => Made(g) /\ g \notin F
  BY <1>1 DEF FInv, HeldOK, Made
<1>3. CASE f \in F
  <2>1. \A l \in PackageId : Holds(l, f)' => l = k0
    BY <1>2, <1>3
  <2>2. f \notin purge'
    BY <1>1, <1>3 DEF FInv, FilesOK
  <2> QED
    BY <1>3, <2>1, <2>2
<1>4. CASE f \notin F
  <2>1. Holds(k, f) /\ \A l \in PackageId : Holds(l, f)' => Holds(l, f)
    BY <1>4
  <2> QED
    BY <2>1 DEF FInv, HeldOK
<1> QED
  BY <1>3, <1>4

\* A step that moves no file, no row, and no request that edits a showcase.
LEMMA PlainStep ==
  ASSUME IInv, IInv', FInv, UNCHANGED <<showcase, file, purge>>,
         \A k \in PackageId : /\ package'[k].used = package[k].used
                              /\ package'[k].source = package[k].source
                              /\ package'[k].thumbnail = package[k].thumbnail,
         \A k \in PackageId : \/ upload'[k] = upload[k]
                              \/ upload'[k].pc \in {"none", "queued"} /\ upload'[k].files = {},
         \A p \in Procs : Editing(p)' => req'[p] = req[p],
         \A p \in Procs : At(p, "addShowcase")' => req'[p] = req[p] \/ package[req'[p].package].used,
         RequestsOK',
         failures' = 0 => failures = 0 /\ \A p \in Procs : RowGone(p) => req'[p] = req[p]
  PROVE  FInv'
<1>1. HeldOK'
  <2>1. PICK F \in SUBSET FileId : F = {}
    OBVIOUS
  <2>2. \A k \in PackageId, f \in FileId : Holds(k, f)' => Holds(k, f)
    BY DEF Holds, Editing
  <2>3. \A f \in FileId : Made(f) => Made(f)'
    BY DEF Made
  <2>4. CASE PackageId = {}
    BY <2>4 DEF HeldOK
  <2>5. ASSUME NEW k0 \in PackageId PROVE HeldOK'
    BY <2>1, <2>2, <2>3, HeldStep
  <2> QED
    BY <2>4, <2>5
<1>2. FilesOK'
  BY DEF FInv, FilesOK
<1>3. RowsOK'
  BY Shapes, RowFields DEF FInv, RowsOK
<1>4. EditsOK'
  BY Shapes, RowFields DEF FInv, EditsOK, EditOK, Editing, InCloud
<1>5. JobsOK' /\ AddsOK'
  <2>1. JobsOK'
    BY DEF FInv, JobsOK, JobOK
  <2>2. AddsOK'
    BY DEF FInv, AddsOK, At, RequestsOK
  <2> QED
    BY <2>1, <2>2
<1>6. ThumbnailStored'
  BY DEF FInv, ThumbnailStored
<1>7. ShowcasesStored'
  BY Shapes, RowFields DEF FInv, ShowcasesStored, RowGone, At
<1> QED
  BY <1>1, <1>2, <1>3, <1>4, <1>5, <1>6, <1>7 DEF FInv

\* A request may read any row of its table.
LEMMA EditShowcaseStep ==
  ASSUME IInv, IInv', FInv, NEW p \in Procs, NEW k \in PackageId, NEW r \in ShowcasesOf(k),
         NEW pc \in {"dropFile", "replaceFile"}, EditShowcase(p, r, pc)
  PROVE  FInv'
<1>1. UNCHANGED <<setting, package, showcase, count, file, upload, purge, failures>>
  BY DEF EditShowcase, rowVars, jobVars
<1>2. r \in showcase /\ r \in Row /\ r.package = k
  BY Shapes DEF ShowcasesOf
<1>3. PICK s : s = [Idle EXCEPT !.pc = pc, !.package = r.package, !.row = r]
  OBVIOUS
<1>4. s.pc = pc /\ s.row = r
  BY <1>3 DEF Idle
<1>5. At(p, "idle") /\ req' = [req EXCEPT ![p] = s] /\ Live(k)
  BY <1>2, <1>3 DEF EditShowcase, Begin
<1>6. req'[p] = s /\ \A q \in Procs \ {p} : req'[q] = req[q]
  BY <1>5, Shapes
<1>7. ~RowGone(p)
  BY <1>5 DEF RowGone, At
<1>8. HeldOK'
  <2>1. PICK F \in SUBSET FileId : F = {}
    OBVIOUS
  <2>2. \A l \in PackageId, f \in FileId : Holds(l, f)' => Holds(l, f)
    BY <1>1, <1>2, <1>4, <1>6 DEF Holds, Editing
  <2>3. \A f \in FileId : Made(f) => Made(f)'
    BY <1>1 DEF Made
  <2> QED
    BY <1>1, <2>1, <2>2, <2>3, HeldStep
<1>9. EditsOK'
  <2>1. EditOK(r, pc)'
    BY <1>1, <1>2 DEF EditOK, FInv, RowsOK
  <2>2. ASSUME NEW q \in Procs \ {p}, Editing(q) PROVE EditOK(req[q].row, req[q].pc)'
    <3>1. EditOK(req[q].row, req[q].pc)
      BY <2>2 DEF FInv, EditsOK
    <3> QED
      BY <1>1, <1>6, <2>2, <3>1 DEF EditOK, InCloud
  <2>3. ASSUME NEW q \in Procs, Editing(q)' PROVE EditOK(req[q].row, req[q].pc)'
    <3>1. CASE q = p
      BY <1>4, <1>6, <2>1, <3>1
    <3>2. CASE q # p
      BY <1>6, <2>2, <2>3, <3>2 DEF Editing
    <3> QED
      BY <3>1, <3>2
  <2> QED
    BY <2>3 DEF EditsOK
<1>10. FilesOK' /\ RowsOK' /\ AddsOK' /\ JobsOK' /\ ThumbnailStored'
  <2>1. FilesOK' /\ RowsOK' /\ JobsOK' /\ ThumbnailStored'
    BY <1>1 DEF FInv, FilesOK, RowsOK, JobsOK, JobOK, ThumbnailStored
  <2>2. AddsOK'
    BY <1>1, <1>4, <1>6 DEF FInv, AddsOK, At
  <2> QED
    BY <2>1, <2>2
<1>11. ShowcasesStored'
  BY <1>1, <1>6, <1>7 DEF FInv, ShowcasesStored, RowGone, At
<1> QED
  BY <1>8, <1>9, <1>10, <1>11 DEF FInv

\* Deleting a file: the cloud has it only under the name that its row says.
LEMMA DropFileStep ==
  ASSUME IInv, IInv', FInv, NEW p \in Procs, DropFile(p)
  PROVE  FInv'
<1>1. UNCHANGED <<setting, package, showcase, count, upload, purge, failures>>
  BY DEF DropFile, rowVars, jobVars
<1>2. PICK o, r : o = req[p] /\ o \in RequestType /\ r = o.row /\ o.pc \in {"dropFile", "replaceFile"}
  BY Shapes DEF DropFile, At
<1>3. Editing(p) /\ EditOK(r, o.pc) /\ r \in Row
  BY <1>2 DEF Editing, Edits, FInv, EditsOK, EditOK
<1>4. PICK f \in FileId, k \in PackageId : f = r.file /\ k = r.package
  BY <1>3, RowFields
<1>5. /\ file' = [file EXCEPT ![f] = IF InCloud(r) THEN file[f] \ {"cloud"} ELSE file[f]]
  BY <1>2, <1>4 DEF DropFile, InCloud
<1>6. /\ \A g \in FileId : g # f => file'[g] = file[g]
      /\ file'[f] = IF InCloud(r) THEN file[f] \ {"cloud"} ELSE file[f]
  BY <1>5, Shapes
<1>7. PICK pc \in {"dropRow", "replaceRow"} : req' = [req EXCEPT ![p].pc = pc]
  BY DEF DropFile, Goto
<1>8. PICK next : next = [o EXCEPT !.pc = pc]
  OBVIOUS
<1>9. next.pc = pc /\ next.row = r
  BY <1>2, <1>8 DEF RequestType
<1>10. req' = [req EXCEPT ![p] = next]
  BY <1>2, <1>7, <1>8
<1>11. req'[p] = next /\ \A q \in Procs \ {p} : req'[q] = req[q]
  BY <1>10, Shapes
<1>12. \A g \in FileId : /\ "temporary" \in file'[g] <=> "temporary" \in file[g]
                         /\ "disk" \in file'[g] <=> "disk" \in file[g]
                         /\ "named" \in file'[g] <=> "named" \in file[g]
                         /\ "cloud" \in file[g] => "cloud" \in file'[g] \/ (g = f /\ InCloud(r))
  BY <1>6
<1>13. Holds(k, f)
  BY <1>2, <1>3, <1>4 DEF Holds
<1>14. \A l \in PackageId : Holds(l, f) => l = k
  BY <1>13 DEF FInv, HeldOK
<1>15. HeldOK'
  <2>1. PICK F \in SUBSET FileId : F = {}
    OBVIOUS
  <2>2. \A l \in PackageId, g \in FileId : Holds(l, g)' => Holds(l, g)
    BY <1>1, <1>2, <1>3, <1>9, <1>11 DEF Holds, Editing
  <2>3. \A g \in FileId : Made(g) => Made(g)'
    BY <1>12 DEF Made
  <2> QED
    BY <1>1, <1>4, <2>1, <2>2, <2>3, HeldStep
<1>16. FilesOK' /\ RowsOK'
  BY <1>1, <1>12 DEF FInv, FilesOK, RowsOK
<1>17. EditsOK'
  <2>2. EditOK(r, pc)
    BY <1>3 DEF EditOK
  <2>3. ASSUME NEW q \in Procs, Editing(q)' PROVE EditOK(req[q].row, req[q].pc)'
    <3>1. CASE q = p
      <4>1. EditOK(r, pc)'
        BY <1>1, <1>3, <2>2 DEF EditOK
      <4> QED
        BY <1>9, <1>11, <3>1, <4>1
    <3>2. CASE q # p
      <4>1. Editing(q) /\ EditOK(req[q].row, req[q].pc) /\ req'[q] = req[q]
        BY <1>11, <2>3, <3>2 DEF Editing, FInv, EditsOK
      <4>2. PICK d : d = req[q].row /\ d \in Row
        BY <4>1 DEF EditOK
      <4>3. EditOK(d, req[q].pc)'
        BY <1>1, <1>12, <4>1, <4>2, RowFields DEF EditOK, InCloud
      <4> QED
        BY <4>1, <4>2, <4>3
    <3> QED
      BY <3>1, <3>2
  <2> QED
    BY <2>3 DEF EditsOK
<1>18. JobsOK'
  <2> SUFFICES ASSUME NEW l \in PackageId PROVE JobOK(l)'
    BY DEF JobsOK
  <2>1. JobOK(l) /\ upload[l].files \subseteq FileId
    BY Shapes DEF FInv, JobsOK, UploadType
  <2>2. upload[l].pc = "uploaded" => \A g \in upload[l].files : "cloud" \in file'[g]
    <3> SUFFICES ASSUME upload[l].pc = "uploaded", NEW g \in upload[l].files PROVE "cloud" \in file'[g]
      OBVIOUS
    <3>1. "cloud" \in file[g] /\ "temporary" \in file[g] /\ package[l].source = "FILESYSTEM"
      BY <2>1 DEF JobOK
    <3>2. CASE g = f
      <4>1. Holds(l, f)
        BY <3>2 DEF Holds
      <4>2. l = k
        BY <1>14, <4>1
      <4>3. ~r.moved
        BY <1>3, <1>4, <3>1, <4>2 DEF EditOK
      <4>4. ~InCloud(r)
        BY <1>4, <3>1, <3>2, <4>3 DEF InCloud
      <4> QED
        BY <1>12, <2>1, <3>1, <4>4
    <3>3. CASE g # f
      BY <1>12, <2>1, <3>1, <3>3
    <3> QED
      BY <3>2, <3>3
  <2> QED
    BY <1>1, <1>12, <2>1, <2>2 DEF JobOK
<1>19. ThumbnailStored'
  <2> SUFFICES ASSUME NEW l \in PackageId, package[l].used
               PROVE  (IF package[l].source = "CLOUD" THEN "cloud" ELSE "disk") \in file'[package[l].thumbnail]
    BY <1>1 DEF ThumbnailStored
  <2>1. PICK t \in FileId : t = package[l].thumbnail
    <3>1. package[l] \in PackageType
      BY Shapes
    <3>2. package[l] \in UsedPackage
      BY <3>1 DEF PackageType, FreePackage
    <3> QED
      BY <3>2 DEF UsedPackage
  <2>2. Holds(l, t)
    BY <2>1 DEF Holds
  <2>3. t # f
    <3>1. f # package[k].thumbnail
      BY <1>3, <1>4 DEF EditOK
    <3> QED
      BY <1>14, <2>1, <2>2, <3>1
  <2> QED
    BY <1>6, <2>1, <2>3 DEF FInv, ThumbnailStored
<1>20. ShowcasesStored'
  <2> SUFFICES ASSUME failures = 0, NEW s \in showcase, package[s.package].source = "CLOUD"
               PROVE  \/ "cloud" \in file'[s.file]
                      \/ \E q \in Procs : req'[q].row = s /\ RowGone(q)'
    BY <1>1 DEF ShowcasesStored, RowGone
  <2>1. s \in Row
    BY Shapes
  <2>2. CASE \E q \in Procs : req[q].row = s /\ RowGone(q)
    <3>1. PICK q \in Procs : req[q].row = s /\ RowGone(q)
      BY <2>2
    <3>2. q # p
      BY <1>2, <3>1 DEF RowGone, At
    <3> QED
      BY <1>11, <3>1, <3>2 DEF RowGone, At
  <2>3. CASE "cloud" \in file[s.file] /\ s.file = f /\ InCloud(r)
    <3>1. s = r
      BY <1>2, <1>3, <1>4, <2>3 DEF EditOK
    <3>2. req'[p].row = s /\ RowGone(p)'
      BY <1>9, <1>11, <3>1 DEF RowGone, At
    <3> QED
      BY <3>2
  <2>4. CASE "cloud" \in file[s.file] /\ ~(s.file = f /\ InCloud(r))
    BY <1>12, <2>1, <2>4, RowFields
  <2> QED
    BY <2>2, <2>3, <2>4 DEF FInv, ShowcasesStored, RowGone
<1>21. AddsOK'
  BY <1>1, <1>9, <1>11 DEF FInv, AddsOK, At
<1> QED
  BY <1>15, <1>16, <1>17, <1>18, <1>19, <1>20, <1>21 DEF FInv

\* What is named has been made, and the package that names it is there.
LEMMA Named ==
  ASSUME IInv, FInv
  PROVE  /\ \A k \in PackageId : package[k].used =>
              package[k].thumbnail \in FileId /\ Holds(k, package[k].thumbnail)
         /\ \A r \in showcase : /\ r \in Row /\ Holds(r.package, r.file) /\ Holds(r.package, r.id)
                                /\ package[r.package].used
         /\ \A p \in Procs : Editing(p) =>
              /\ req[p].row \in Row /\ Holds(req[p].row.package, req[p].row.file)
              /\ package[req[p].row.package].used
         /\ \A k \in PackageId, f \in FileId : Holds(k, f) => file[f] # {}
<1>1. ASSUME NEW k \in PackageId, package[k].used
      PROVE  package[k].thumbnail \in FileId /\ Holds(k, package[k].thumbnail)
  <2>1. package[k] \in PackageType
    BY Shapes
  <2>2. package[k] \in UsedPackage
    BY <1>1, <2>1 DEF PackageType, FreePackage
  <2> QED
    BY <1>1, <2>2 DEF UsedPackage, Holds
<1>2. ASSUME NEW r \in showcase
      PROVE  /\ r \in Row /\ Holds(r.package, r.file) /\ Holds(r.package, r.id)
             /\ package[r.package].used
  <2>1. r \in Row /\ r.package \in PackageId /\ r.file \in FileId
    BY Shapes, RowFields
  <2>2. Holds(r.package, r.file) /\ Holds(r.package, r.id)
    BY DEF Holds
  <2> QED
    BY <2>1, <2>2 DEF FInv, HeldOK
<1>3. ASSUME NEW p \in Procs, Editing(p)
      PROVE  /\ req[p].row \in Row /\ Holds(req[p].row.package, req[p].row.file)
             /\ package[req[p].row.package].used
  <2>1. req[p].row \in Row
    BY <1>3 DEF FInv, EditsOK, EditOK
  <2>2. PICK r \in Row : r = req[p].row
    BY <2>1
  <2>3. r.package \in PackageId /\ r.file \in FileId
    BY RowFields
  <2>4. Holds(r.package, r.file)
    BY <1>3, <2>2 DEF Holds
  <2> QED
    BY <2>2, <2>3, <2>4 DEF FInv, HeldOK
<1>4. \A k \in PackageId, f \in FileId : Holds(k, f) => file[f] # {}
  BY DEF FInv, HeldOK, Made
<1> QED
  BY <1>1, <1>2, <1>3, <1>4

\* Requests that go on keep to the rows and packages they have read.
LEMMA EditsKept ==
  ASSUME IInv, FInv,
         \A k \in PackageId : package[k].used =>
           /\ package'[k].used /\ package'[k].thumbnail = package[k].thumbnail
           /\ package[k].source = "CLOUD" => package'[k].source = "CLOUD",
         \A f \in FileId : "temporary" \in file[f] => "temporary" \in file'[f],
         \A q \in Procs : Editing(q)' => Editing(q) /\ req'[q] = req[q],
         \A q \in Procs : Editing(q)' /\ InCloud(req[q].row) =>
           \A s \in showcase' : s.file = req[q].row.file => s \in showcase,
         \A q \in Procs : At(q, "addShowcase")' => req'[q] = req[q]
  PROVE  EditsOK' /\ AddsOK'
<1>1. ASSUME NEW q \in Procs, Editing(q)' PROVE EditOK(req[q].row, req[q].pc)'
  <2>1. Editing(q) /\ req'[q] = req[q]
    BY <1>1
  <2>2. PICK r, pc : r = req[q].row /\ pc = req[q].pc
    OBVIOUS
  <2>3. EditOK(r, pc) /\ r \in Row /\ package[r.package].used
    BY <2>1, <2>2, Named DEF FInv, EditsOK
  <2>4. r.package \in PackageId /\ r.file \in FileId
    BY <2>3, RowFields
  <2>5. InCloud(r)' => InCloud(r)
    BY <2>4 DEF InCloud
  <2>6. InCloud(r) => \A s \in showcase' : s.file = r.file => s \in showcase
    BY <1>1, <2>2
  <2>7. EditOK(r, pc)'
    BY <2>3, <2>4, <2>5, <2>6 DEF EditOK
  <2> QED
    BY <2>1, <2>2, <2>7
<1>2. ASSUME NEW q \in Procs, At(q, "addShowcase")' PROVE package'[req'[q].package].used
  <2>1. req'[q] = req[q] /\ At(q, "addShowcase")
    BY <1>2 DEF At
  <2>2. req[q].package \in PackageId /\ package[req[q].package].used
    BY <2>1 DEF IInv, RequestsOK, FInv, AddsOK, At
  <2> QED
    BY <2>1, <2>2
<1> QED
  BY <1>1, <1>2 DEF EditsOK, AddsOK

LEMMA PutKeeps ==
  ASSUME IInv, NEW F, NEW where, Put(F, where), NEW f \in FileId
  PROVE  file'[f] = IF f \in F THEN file[f] \cup where ELSE file[f]
BY DEF Put

LEMMA DropRowStep ==
  ASSUME IInv, IInv', FInv, NEW p \in Procs, DropRow(p)
  PROVE  FInv'
<1>1. UNCHANGED <<setting, package, count, file, upload, purge, failures>> /\ At(p, "dropRow")
  BY DEF DropRow, jobVars
<1>2. PICK row : row = req[p].row
  OBVIOUS
<1>3. showcase' = {r \in showcase : ~(r.id = row.id /\ r.moved = row.moved)}
  BY <1>2 DEF DropRow
<1>4. showcase' \subseteq showcase /\ row \notin showcase'
  BY <1>3
<1>5. req'[p] = Idle /\ \A q \in Procs \ {p} : req'[q] = req[q]
  BY Shapes DEF DropRow, Done
<1>6. ~Editing(p)' /\ ~At(p, "addShowcase")' /\ ~RowGone(p)'
  BY <1>5, IdleRequest DEF Editing, Edits, At, RowGone
<1>7. HeldOK'
  <2>1. PICK F \in SUBSET FileId : F = {}
    OBVIOUS
  <2>2. \A l \in PackageId, f \in FileId : Holds(l, f)' => Holds(l, f)
    BY <1>1, <1>4, <1>5, <1>6 DEF Holds, Editing
  <2>3. \A f \in FileId : Made(f) => Made(f)'
    BY <1>1 DEF Made
  <2>4. CASE PackageId = {}
    BY <2>4 DEF HeldOK
  <2>5. ASSUME NEW k0 \in PackageId PROVE HeldOK'
    BY <1>1, <2>1, <2>2, <2>3, HeldStep
  <2> QED
    BY <2>4, <2>5
<1>8. EditsOK' /\ AddsOK'
  <2>1. \A q \in Procs : Editing(q)' => Editing(q) /\ req'[q] = req[q]
    BY <1>5, <1>6 DEF Editing
  <2>2. \A q \in Procs : At(q, "addShowcase")' => req'[q] = req[q]
    BY <1>5, <1>6 DEF At
  <2> QED
    BY <1>1, <1>4, <2>1, <2>2, EditsKept
<1>9. FilesOK' /\ RowsOK' /\ JobsOK' /\ ThumbnailStored'
  BY <1>1, <1>4 DEF FInv, FilesOK, RowsOK, JobsOK, JobOK, ThumbnailStored
<1>10. ShowcasesStored'
  <2> SUFFICES ASSUME failures = 0, NEW s \in showcase', package[s.package].source = "CLOUD"
               PROVE  \/ "cloud" \in file[s.file]
                      \/ \E q \in Procs : req'[q].row = s /\ RowGone(q)'
    BY <1>1 DEF ShowcasesStored, RowGone
  <2>1. CASE \E q \in Procs : req[q].row = s /\ RowGone(q)
    <3>1. PICK q \in Procs : req[q].row = s /\ RowGone(q)
      BY <2>1
    <3>2. q # p
      BY <1>2, <1>4, <3>1
    <3> QED
      BY <1>5, <3>1, <3>2 DEF RowGone, At
  <2> QED
    BY <1>4, <2>1 DEF FInv, ShowcasesStored, RowGone
<1> QED
  BY <1>7, <1>8, <1>9, <1>10 DEF FInv

\* A new file, and its name in the row if it is still there.
LEMMA ReplaceRowStep ==
  ASSUME IInv, IInv', FInv, NEW p \in Procs, ReplaceRow(p)
  PROVE  FInv'
<1>1. UNCHANGED <<setting, package, count, upload, purge, failures>> /\ At(p, "replaceRow")
  BY DEF ReplaceRow, jobVars
<1>2. PICK row : row = req[p].row
  OBVIOUS
<1>3. PICK f \in NewFiles(1) : showcase' =
        {IF r.id = row.id /\ r.moved = row.moved THEN [r EXCEPT !.file = f] ELSE r : r \in showcase}
  BY <1>2 DEF ReplaceRow
<1>4. f \in FileId /\ file[f] = {} /\ \A k \in PackageId : ~Holds(k, f)
  BY <1>3, NewFilesAreFiles, Named DEF NewFiles, IInv
<1>5. Editing(p) /\ row \in Row /\ row.package \in PackageId /\ package[row.package].used
  BY <1>1, <1>2, Named, RowFields DEF Editing, Edits, At
<1>6. Put(NewFiles(1), InTheCloud)
  BY DEF ReplaceRow
<1>7. /\ \A g \in FileId : file[g] \subseteq file'[g] /\ file'[g] \subseteq file[g] \cup InTheCloud
      /\ file'[f] = InTheCloud
  <2>1. \A g \in FileId : file'[g] = IF g \in NewFiles(1) THEN file[g] \cup InTheCloud ELSE file[g]
    BY <1>6, PutKeeps
  <2> QED
    BY <1>3, <1>4, <2>1
<1>8. req'[p] = Idle /\ \A q \in Procs \ {p} : req'[q] = req[q]
  BY Shapes DEF ReplaceRow, Done
<1>9. ~Editing(p)' /\ ~At(p, "addShowcase")' /\ ~RowGone(p)'
  BY <1>8, IdleRequest DEF Editing, Edits, At, RowGone
<1>10. ASSUME NEW s \in showcase'
       PROVE  \/ s \in showcase /\ ~(s.id = row.id /\ s.moved = row.moved)
              \/ /\ s.file = f /\ s.id = row.id /\ s.moved = row.moved
                 /\ \E r \in showcase : r.id = s.id /\ r.moved = s.moved /\ r.package = s.package
  <2>1. PICK r \in showcase : s = IF r.id = row.id /\ r.moved = row.moved THEN [r EXCEPT !.file = f] ELSE r
    BY <1>3
  <2>2. r \in Row
    BY Shapes
  <2> QED
    BY <2>1, <2>2 DEF Row
<1>11. ASSUME NEW s \in showcase', s.file = f
       PROVE  /\ s.id = row.id /\ s.moved = row.moved
              /\ \E r \in showcase : r.id = s.id /\ r.moved = s.moved /\ r.package = s.package
  <2>1. s \notin showcase
    BY <1>4, <1>11, Named, RowFields
  <2> QED
    BY <1>10, <2>1
<1>12. \A s, t \in showcase' : s.file = f /\ t.file = f => s = t
  <2> SUFFICES ASSUME NEW s \in showcase', NEW t \in showcase', s.file = f, t.file = f PROVE s = t
    OBVIOUS
  <2>1. PICK r \in showcase : s = IF r.id = row.id /\ r.moved = row.moved THEN [r EXCEPT !.file = f] ELSE r
    BY <1>3
  <2>2. PICK u \in showcase : t = IF u.id = row.id /\ u.moved = row.moved THEN [u EXCEPT !.file = f] ELSE u
    BY <1>3
  <2>3. r.file # f /\ u.file # f
    BY <1>4, Named, RowFields
  <2>4. r.id = row.id /\ r.moved = row.moved /\ u.id = row.id /\ u.moved = row.moved
    BY <2>1, <2>2, <2>3
  <2>5. r = u
    BY <2>4 DEF FInv, RowsOK
  <2> QED
    BY <2>1, <2>2, <2>4, <2>5
<1>13. HeldOK'
  <2>1. \A g \in FileId : Made(g) => Made(g)'
    BY <1>7 DEF Made
  <2>2. Made(f)'
    BY <1>7 DEF Made, InTheCloud
  <2>3. CASE \A s \in showcase' : s.file # f
    <3>1. PICK F \in SUBSET FileId : F = {}
      OBVIOUS
    <3>2. \A s \in showcase' : s \in showcase
      BY <1>10, <2>3
    <3>3. \A l \in PackageId, g \in FileId : Holds(l, g)' => Holds(l, g)
      BY <1>1, <1>8, <1>9, <3>2 DEF Holds, Editing
    <3> QED
      BY <1>1, <1>5, <2>1, <3>1, <3>3, HeldStep
  <2>4. ASSUME NEW s \in showcase', s.file = f PROVE HeldOK'
    <3>1. PICK k0 \in PackageId : k0 = s.package /\ package[k0].used
      BY <1>11, <2>4, Named, RowFields
    <3>2. \A t \in showcase' : t.file = f => t.package = k0
      BY <1>12, <2>4, <3>1
    <3>3. \A t \in showcase' : \E r \in showcase :
            t.id = r.id /\ t.package = r.package /\ (t.file = r.file \/ t.file = f)
      BY <1>10
    <3>4. ASSUME NEW l \in PackageId, NEW g \in FileId, Holds(l, g)'
          PROVE  Holds(l, g) \/ (l = k0 /\ g \in {f})
      <4>1. CASE \E t \in showcase' : t.package = l /\ (t.id = g \/ t.file = g)
        BY <3>2, <3>3, <4>1 DEF Holds
      <4>2. CASE \E q \in Procs : Editing(q)' /\ req'[q].row.package = l /\ req'[q].row.file = g
        BY <1>8, <1>9, <4>2 DEF Holds, Editing
      <4> QED
        BY <1>1, <3>4, <4>1, <4>2 DEF Holds
    <3> QED
      BY <1>1, <1>4, <2>1, <2>2, <3>1, <3>4, HeldStep
  <2> QED
    BY <2>3, <2>4
<1>14. EditsOK' /\ AddsOK'
  <2>1. \A q \in Procs : Editing(q)' => Editing(q) /\ req'[q] = req[q]
    BY <1>8, <1>9 DEF Editing
  <2>2. \A q \in Procs : At(q, "addShowcase")' => req'[q] = req[q]
    BY <1>8, <1>9 DEF At
  <2>3. \A q \in Procs : Editing(q) => req[q].row.file # f
    BY <1>4, Named, RowFields
  <2>4. \A q \in Procs : Editing(q)' => \A s \in showcase' : s.file = req[q].row.file => s \in showcase
    BY <1>10, <2>1, <2>3
  <2> QED
    BY <1>1, <1>7, <2>1, <2>2, <2>4, EditsKept
<1>15. FilesOK' /\ JobsOK' /\ ThumbnailStored'
  <2>1. FilesOK'
    BY <1>1, <1>7 DEF FInv, FilesOK, InTheCloud
  <2>2. JobsOK'
    BY <1>1, <1>7, Shapes DEF FInv, JobsOK, JobOK, UploadType
  <2>3. ThumbnailStored'
    BY <1>1, <1>7, Named DEF FInv, ThumbnailStored
  <2> QED
    BY <2>1, <2>2, <2>3
<1>16. RowsOK'
  <2> SUFFICES ASSUME NEW s \in showcase', NEW t \in showcase'
               PROVE  /\ s.file # package[s.package].thumbnail
                      /\ s.moved => package[s.package].source = "CLOUD"
                      /\ s.file = t.file \/ (s.id = t.id /\ s.moved = t.moved) => s = t
    BY <1>1 DEF RowsOK
  <2>1. s.file # package[s.package].thumbnail
    <3>1. CASE s \in showcase
      BY <3>1 DEF FInv, RowsOK
    <3>2. CASE s.file = f /\ \E r \in showcase : r.package = s.package
      BY <1>4, <3>2, Named, RowFields
    <3> QED
      BY <1>10, <3>1, <3>2
  <2>2. s.moved => package[s.package].source = "CLOUD"
    BY <1>10 DEF FInv, RowsOK
  <2>3. s.file = t.file => s = t
    BY <1>10, <1>12 DEF FInv, RowsOK
  <2>4. s.id = t.id /\ s.moved = t.moved => s = t
    BY <1>10, <1>12 DEF FInv, RowsOK
  <2> QED
    BY <2>1, <2>2, <2>3, <2>4
<1>17. ShowcasesStored'
  <2> SUFFICES ASSUME failures = 0, NEW s \in showcase', package[s.package].source = "CLOUD"
               PROVE  \/ "cloud" \in file'[s.file]
                      \/ \E q \in Procs : req'[q].row = s /\ RowGone(q)'
    BY <1>1 DEF ShowcasesStored, RowGone
  <2>1. CASE s.file = f
    BY <1>7, <2>1 DEF InTheCloud
  <2>2. CASE s.file # f
    <3>1. s \in showcase /\ s \in Row /\ s.file \in FileId /\ s # row
      BY <1>10, <2>2, Shapes, RowFields
    <3>2. CASE "cloud" \in file[s.file]
      BY <1>7, <3>1, <3>2
    <3>3. CASE \E q \in Procs : req[q].row = s /\ RowGone(q)
      <4>1. PICK q \in Procs : req[q].row = s /\ RowGone(q)
        BY <3>3
      <4>2. q # p
        BY <1>2, <3>1, <4>1
      <4> QED
        BY <1>8, <4>1, <4>2 DEF RowGone, At
    <3> QED
      BY <3>1, <3>2, <3>3 DEF FInv, ShowcasesStored, RowGone
  <2> QED
    BY <2>1, <2>2
<1> QED
  BY <1>13, <1>14, <1>15, <1>16, <1>17 DEF FInv

\* A new showcase photo of a package that was there when it was read.
LEMMA AddShowcaseStep ==
  ASSUME IInv, IInv', FInv, NEW p \in Procs, AddShowcase(p)
  PROVE  FInv'
<1>1. UNCHANGED <<setting, package, count, upload, purge, failures>> /\ At(p, "addShowcase")
  BY DEF AddShowcase, jobVars
<1>2. PICK k \in PackageId : k = req[p].package /\ package[k].used
  BY <1>1 DEF IInv, RequestsOK, FInv, AddsOK, At
<1>3. PICK f \in NewFiles(1) : showcase' = showcase \cup
        {[id |-> f, moved |-> FALSE, package |-> req[p].package, file |-> f]}
  BY DEF AddShowcase
<1>4. f \in FileId /\ file[f] = {} /\ \A l \in PackageId : ~Holds(l, f)
  BY <1>3, NewFilesAreFiles, Named DEF NewFiles, IInv
<1>5. PICK row : row = [id |-> f, moved |-> FALSE, package |-> k, file |-> f]
  OBVIOUS
<1>6. row.id = f /\ row.file = f /\ ~row.moved /\ row.package = k
  BY <1>5
<1>7. showcase' = showcase \cup {row}
  BY <1>2, <1>3, <1>5
<1>8. Put(NewFiles(1), InTheCloud)
  BY DEF AddShowcase
<1>9. /\ \A g \in FileId : file[g] \subseteq file'[g] /\ file'[g] \subseteq file[g] \cup InTheCloud
      /\ file'[f] = InTheCloud
  <2>1. \A g \in FileId : file'[g] = IF g \in NewFiles(1) THEN file[g] \cup InTheCloud ELSE file[g]
    BY <1>8, PutKeeps
  <2> QED
    BY <1>3, <1>4, <2>1
<1>10. req'[p] = Idle /\ \A q \in Procs \ {p} : req'[q] = req[q]
  BY Shapes DEF AddShowcase, Done
<1>11. ~Editing(p)' /\ ~At(p, "addShowcase")' /\ ~RowGone(p)' /\ ~RowGone(p)
  BY <1>1, <1>10, IdleRequest DEF Editing, Edits, At, RowGone
<1>12. \A s \in showcase : s.file # f /\ s.id # f
  BY <1>4, Named, RowFields
<1>13. HeldOK'
  <2>1. \A g \in FileId : Made(g) => Made(g)'
    BY <1>9 DEF Made
  <2>2. Made(f)'
    BY <1>9 DEF Made, InTheCloud
  <2>3. ASSUME NEW l \in PackageId, NEW g \in FileId, Holds(l, g)'
        PROVE  Holds(l, g) \/ (l = k /\ g \in {f})
    BY <1>1, <1>6, <1>7, <1>10, <1>11, <2>3 DEF Holds, Editing
  <2> QED
    BY <1>1, <1>2, <1>4, <2>1, <2>2, <2>3, HeldStep
<1>14. EditsOK' /\ AddsOK'
  <2>1. \A q \in Procs : Editing(q)' => Editing(q) /\ req'[q] = req[q]
    BY <1>10, <1>11 DEF Editing
  <2>2. \A q \in Procs : At(q, "addShowcase")' => req'[q] = req[q]
    BY <1>10, <1>11 DEF At
  <2>3. \A q \in Procs : Editing(q) => req[q].row.file # f
    BY <1>4, Named, RowFields
  <2>4. \A q \in Procs : Editing(q)' => \A s \in showcase' : s.file = req[q].row.file => s \in showcase
    BY <1>6, <1>7, <2>1, <2>3
  <2> QED
    BY <1>1, <1>9, <2>1, <2>2, <2>4, EditsKept
<1>15. FilesOK' /\ JobsOK' /\ ThumbnailStored'
  <2>1. FilesOK'
    BY <1>1, <1>9 DEF FInv, FilesOK, InTheCloud
  <2>2. JobsOK'
    BY <1>1, <1>9, Shapes DEF FInv, JobsOK, JobOK, UploadType
  <2>3. ThumbnailStored'
    BY <1>1, <1>9, Named DEF FInv, ThumbnailStored
  <2> QED
    BY <2>1, <2>2, <2>3
<1>16. RowsOK'
  <2>1. f # package[k].thumbnail
    BY <1>2, <1>4, Named
  <2> QED
    BY <1>1, <1>6, <1>7, <1>12, <2>1 DEF FInv, RowsOK
<1>17. ShowcasesStored'
  <2> SUFFICES ASSUME failures = 0, NEW s \in showcase', package[s.package].source = "CLOUD"
               PROVE  \/ "cloud" \in file'[s.file]
                      \/ \E q \in Procs : req'[q].row = s /\ RowGone(q)'
    BY <1>1 DEF ShowcasesStored, RowGone
  <2>1. CASE s = row
    BY <1>6, <1>9, <2>1 DEF InTheCloud
  <2>2. CASE s \in showcase
    <3>1. s.file \in FileId
      BY <2>2, Named, RowFields
    <3>2. CASE "cloud" \in file[s.file]
      BY <1>9, <3>1, <3>2
    <3>3. CASE \E q \in Procs : req[q].row = s /\ RowGone(q)
      <4>1. PICK q \in Procs : req[q].row = s /\ RowGone(q)
        BY <3>3
      <4>2. q # p
        BY <1>11, <4>1
      <4> QED
        BY <1>10, <4>1, <4>2 DEF RowGone, At
    <3> QED
      BY <2>2, <3>2, <3>3 DEF FInv, ShowcasesStored, RowGone
  <2> QED
    BY <1>7, <2>1, <2>2
<1> QED
  BY <1>13, <1>14, <1>15, <1>16, <1>17 DEF FInv

\* A new package with two new files: its thumbnail and a showcase photo.
LEMMA InsertPackageStep ==
  ASSUME IInv, IInv', FInv, NEW p \in Procs, InsertPackage(p)
  PROVE  FInv'
<1>1. UNCHANGED <<setting, upload, purge, failures>> /\ At(p, "create")
  BY DEF InsertPackage, jobVars
<1>2. PICK src \in {"FILESYSTEM", "CLOUD"} : src = req[p].source
  BY Shapes DEF RequestType
<1>0. PICK k \in 1..setting.packages, t \in NewFiles(2), f \in NewFiles(2) :
        /\ ~package[k].used /\ t < f
        /\ package' = [package EXCEPT ![k] =
             [used |-> TRUE, source |-> src, thumbnail |-> t, deleted |-> FALSE]]
        /\ showcase' = showcase \cup {[id |-> f, moved |-> FALSE, package |-> k, file |-> f]}
        /\ Put(NewFiles(2), IF src = "CLOUD" THEN InTheCloud ELSE OnTheDisk)
        /\ req' = [req EXCEPT ![p] = IF src = "CLOUD" THEN Idle
                                     ELSE [Idle EXCEPT !.pc = "queue", !.package = k]]
  BY <1>2 DEF InsertPackage
<1>3. PICK new, row, r :
        /\ ~package[k].used /\ t < f
        /\ new = [used |-> TRUE, source |-> src, thumbnail |-> t, deleted |-> FALSE]
        /\ row = [id |-> f, moved |-> FALSE, package |-> k, file |-> f]
        /\ r = IF src = "CLOUD" THEN Idle ELSE [Idle EXCEPT !.pc = "queue", !.package = k]
        /\ package' = [package EXCEPT ![k] = new]
        /\ showcase' = showcase \cup {row}
        /\ Put(NewFiles(2), IF src = "CLOUD" THEN InTheCloud ELSE OnTheDisk)
        /\ req' = [req EXCEPT ![p] = r]
  <2>1. PICK new, row, r :
          /\ new = [used |-> TRUE, source |-> src, thumbnail |-> t, deleted |-> FALSE]
          /\ row = [id |-> f, moved |-> FALSE, package |-> k, file |-> f]
          /\ r = IF src = "CLOUD" THEN Idle ELSE [Idle EXCEPT !.pc = "queue", !.package = k]
    OBVIOUS
  <2> QED
    BY Zenon, <1>0, <2>1
<1>4. k \in PackageId
  BY <1>3, PackagesAssumption DEF PackageId, IInv, TypeOK
<1>5. /\ t \in FileId /\ file[t] = {} /\ f \in FileId /\ file[f] = {} /\ t # f
      /\ \A l \in PackageId : ~Holds(l, t) /\ ~Holds(l, f)
  <2>1. t \in FileId /\ f \in FileId /\ file[t] = {} /\ file[f] = {}
    BY <1>3, NewFilesAreFiles DEF NewFiles, IInv
  <2>2. t # f
    BY <1>3, <2>1 DEF FileId
  <2> QED
    BY <2>1, <2>2, Named
<1>6. row.id = f /\ row.file = f /\ ~row.moved /\ row.package = k
  BY <1>3
<1>7. r.pc \in {"idle", "queue"}
  BY <1>3, IdleRequest DEF Idle
<1>8. PICK where : where = IF src = "CLOUD" THEN InTheCloud ELSE OnTheDisk
  OBVIOUS
<1>9. \A g \in FileId : file'[g] = IF g \in NewFiles(2) THEN file[g] \cup where ELSE file[g]
  BY <1>3, <1>8, PutKeeps
<1>10. /\ \A g \in FileId : file[g] \subseteq file'[g]
       /\ \A g \in FileId : file[g] # {} => file'[g] = file[g]
       /\ file'[f] = where /\ file'[t] = where
  BY <1>3, <1>5, <1>9 DEF NewFiles
<1>11. req'[p] = r /\ \A q \in Procs \ {p} : req'[q] = req[q]
  BY <1>3, Shapes
<1>12. ~Editing(p)' /\ ~At(p, "addShowcase")' /\ ~RowGone(p)' /\ ~RowGone(p)
  BY <1>1, <1>7, <1>11 DEF Editing, Edits, At, RowGone
<1>13. /\ package'[k].used /\ package'[k].source = src /\ package'[k].thumbnail = t
       /\ \A l \in PackageId \ {k} : package'[l] = package[l]
  BY <1>3, <1>4, Shapes
<1>14. /\ \A s \in showcase : s.file # f /\ s.id # f /\ s.package # k
       /\ \A q \in Procs : Editing(q) => req[q].row.package # k /\ req[q].row.file # f
       /\ upload[k].files \cap FileId = {}
  <2>1. \A g \in FileId : ~Holds(k, g)
    BY <1>3, <1>4 DEF FInv, HeldOK
  <2>2. \A s \in showcase : s.file # f /\ s.id # f /\ s.package # k
    BY <1>3, <1>5, Named, RowFields
  <2>3. \A q \in Procs : Editing(q) => req[q].row.package # k /\ req[q].row.file # f
    BY <1>3, <1>5, Named, RowFields
  <2>4. upload[k].files \cap FileId = {}
    BY <2>1 DEF Holds
  <2> QED
    BY <2>2, <2>3, <2>4
<1>15. HeldOK'
  <2>1. \A g \in FileId : Made(g) => Made(g)'
    BY <1>10 DEF Made
  <2>2. Made(f)' /\ Made(t)'
    BY <1>8, <1>10 DEF Made, InTheCloud, OnTheDisk
  <2>3. ASSUME NEW l \in PackageId, NEW g \in FileId, Holds(l, g)'
        PROVE  Holds(l, g) \/ (l = k /\ g \in {f, t})
    BY <1>1, <1>3, <1>6, <1>11, <1>12, <1>13, <2>3 DEF Holds, Editing
  <2>4. \A l \in PackageId : package[l].used =>
          package'[l].used /\ (package[l].source = "CLOUD" => package'[l].source = "CLOUD")
    BY <1>3, <1>13
  <2>5. PICK F \in SUBSET FileId : F = {f, t}
    BY <1>5
  <2>6. (\A g \in F : file[g] = {} /\ Made(g)') /\ purge' = purge /\ package'[k].used
    BY <1>1, <1>5, <1>13, <2>2, <2>5
  <2>7. \A l \in PackageId, g \in FileId : Holds(l, g)' => Holds(l, g) \/ (l = k /\ g \in F)
    BY <2>3, <2>5
  <2> QED
    BY <1>4, <2>1, <2>4, <2>6, <2>7, HeldStep
<1>16. EditsOK' /\ AddsOK'
  <2>1. \A q \in Procs : Editing(q)' => Editing(q) /\ req'[q] = req[q]
    BY <1>11, <1>12 DEF Editing
  <2>2. \A q \in Procs : At(q, "addShowcase")' => req'[q] = req[q]
    BY <1>11, <1>12 DEF At
  <2>3. \A q \in Procs : Editing(q)' => \A s \in showcase' : s.file = req[q].row.file => s \in showcase
    BY <1>3, <1>6, <1>14, <2>1
  <2>4. \A l \in PackageId : package[l].used => package'[l] = package[l]
    BY <1>3, <1>13
  <2> QED
    BY <1>10, <2>1, <2>2, <2>3, <2>4, EditsKept
<1>17. FilesOK'
  <2> SUFFICES ASSUME NEW g \in FileId, "disk" \in file'[g] \/ g \in purge PROVE "temporary" \in file'[g]
    BY <1>1 DEF FilesOK
  <2>1. CASE file[g] # {}
    BY <1>10, <2>1 DEF FInv, FilesOK
  <2>2. CASE file[g] = {}
    BY <1>8, <1>9, <2>2 DEF FInv, FilesOK, InTheCloud, OnTheDisk
  <2> QED
    BY <2>1, <2>2
<1>18. JobsOK'
  <2> SUFFICES ASSUME NEW l \in PackageId PROVE JobOK(l)'
    BY DEF JobsOK
  <2>1. JobOK(l) /\ upload[l] \in UploadType
    BY Shapes DEF FInv, JobsOK
  <2>2. CASE l # k
    BY <1>1, <1>10, <1>13, <2>1, <2>2 DEF JobOK, UploadType
  <2>3. CASE l = k
    <3>1. upload[k].files = {}
      BY <1>14, <2>1, <2>3 DEF UploadType
    <3>2. upload[k].pc \notin {"read", "uploaded"}
      BY <2>1, <2>3, <3>1 DEF JobOK
    <3>3. upload[k].pc # "switched"
      BY <1>3, <2>1, <2>3 DEF JobOK
    <3> QED
      BY <1>1, <2>1, <2>3, <3>1, <3>2, <3>3 DEF JobOK
  <2> QED
    BY <2>2, <2>3
<1>19. ThumbnailStored'
  <2> SUFFICES ASSUME NEW l \in PackageId, package'[l].used
               PROVE  (IF package'[l].source = "CLOUD" THEN "cloud" ELSE "disk") \in file'[package'[l].thumbnail]
    BY DEF ThumbnailStored
  <2>1. CASE l = k
    BY <1>8, <1>10, <1>13, <2>1 DEF InTheCloud, OnTheDisk
  <2>2. CASE l # k
    BY <1>10, <1>13, <2>2, Named DEF FInv, ThumbnailStored
  <2> QED
    BY <2>1, <2>2
<1>20. RowsOK'
  <2> SUFFICES ASSUME NEW s \in showcase', NEW u \in showcase'
               PROVE  /\ s.file # package'[s.package].thumbnail
                      /\ s.moved => package'[s.package].source = "CLOUD"
                      /\ s.file = u.file \/ (s.id = u.id /\ s.moved = u.moved) => s = u
    BY DEF RowsOK
  <2>1. CASE s = row
    <3>1. s.file # package'[s.package].thumbnail /\ ~s.moved
      BY <1>5, <1>6, <1>13, <2>1
    <3>2. s.file = u.file \/ s.id = u.id => s = u
      BY <1>3, <1>6, <1>14, <2>1
    <3> QED
      BY <3>1, <3>2
  <2>2. CASE s # row
    <3>1. s \in showcase /\ s.package # k /\ s.package \in PackageId
      BY <1>3, <1>14, <2>2, Named, RowFields
    <3>2. package'[s.package] = package[s.package]
      BY <1>13, <3>1
    <3>3. s.file = u.file \/ s.id = u.id => u \in showcase
      BY <1>3, <1>6, <1>14, <3>1
    <3> QED
      BY <3>1, <3>2, <3>3, <1>3, <1>6, <1>14 DEF FInv, RowsOK
  <2> QED
    BY <2>1, <2>2
<1>21. ShowcasesStored'
  <2> SUFFICES ASSUME failures = 0, NEW s \in showcase', package'[s.package].source = "CLOUD"
               PROVE  \/ "cloud" \in file'[s.file]
                      \/ \E q \in Procs : req'[q].row = s /\ RowGone(q)'
    BY <1>1 DEF ShowcasesStored, RowGone
  <2>1. CASE s = row
    BY <1>6, <1>8, <1>10, <1>13, <2>1 DEF InTheCloud
  <2>2. CASE s # row
    <3>1. s \in showcase /\ s.package # k /\ s.package \in PackageId /\ s.file \in FileId
      BY <1>3, <1>14, <2>2, Named, RowFields
    <3>2. package[s.package].source = "CLOUD"
      BY <1>13, <3>1
    <3>3. CASE "cloud" \in file[s.file]
      BY <1>10, <3>1, <3>3
    <3>4. CASE \E q \in Procs : req[q].row = s /\ RowGone(q)
      <4>1. PICK q \in Procs : req[q].row = s /\ RowGone(q)
        BY <3>4
      <4>2. q # p
        BY <1>12, <4>1
      <4> QED
        BY <1>11, <4>1, <4>2 DEF RowGone, At
    <3> QED
      BY <3>1, <3>2, <3>3, <3>4 DEF FInv, ShowcasesStored, RowGone
  <2> QED
    BY <2>1, <2>2
<1> QED
  BY <1>15, <1>16, <1>17, <1>18, <1>19, <1>20, <1>21 DEF FInv

\* A step of the job of one package that changes no request and no table.
LEMMA JobStep ==
  ASSUME IInv, IInv', FInv, NEW k \in PackageId, UNCHANGED <<package, showcase, req, failures>>,
         NEW j \in UploadType, upload' = [upload EXCEPT ![k] = j],
         JobOK(k)', \A f \in j.files : Holds(k, f),
         \A f \in FileId : file'[f] \subseteq file[f] \cup {"cloud"},
         \A f \in FileId : file[f] \subseteq file'[f],
         \A f \in purge' : f \in purge \/ (upload[k].pc = "switched" /\ f \in upload[k].files)
  PROVE  FInv'
<1>1. upload'[k] = j /\ \A l \in PackageId \ {k} : upload'[l] = upload[l]
  BY Shapes
<1>2. HeldOK'
  <2>1. PICK F \in SUBSET FileId : F = {}
    OBVIOUS
  <2>2. \A l \in PackageId, f \in FileId : Holds(l, f)' => Holds(l, f)
    BY <1>1 DEF Holds, Editing
  <2>3. \A f \in FileId : Made(f) => Made(f)'
    BY DEF Made
  <2>4. ASSUME NEW f \in FileId, f \in purge', f \notin purge
        PROVE  file[f] # {} /\ \A l \in PackageId : Holds(l, f) => package[l].source = "CLOUD"
    <3>1. upload[k].pc = "switched" /\ f \in upload[k].files
      BY <2>4
    <3>2. Holds(k, f) /\ package[k].source = "CLOUD"
      BY <3>1 DEF Holds, FInv, JobsOK, JobOK
    <3> QED
      BY <3>2, Named DEF FInv, HeldOK
  <2> QED
    BY <2>1, <2>2, <2>3, <2>4, HeldStep
<1>3. FilesOK'
  BY DEF FInv, FilesOK, JobsOK, JobOK
<1>4. EditsOK' /\ AddsOK'
  <2>1. \A q \in Procs : Editing(q)' => Editing(q) /\ req'[q] = req[q]
    BY DEF Editing
  <2> QED
    BY <2>1, EditsKept
<1>5. JobsOK'
  <2> SUFFICES ASSUME NEW l \in PackageId PROVE JobOK(l)'
    BY DEF JobsOK
  <2>1. CASE l # k
    <3>1. JobOK(l) /\ upload[l] \in UploadType
      BY Shapes DEF FInv, JobsOK
    <3> QED
      BY <1>1, <2>1, <3>1 DEF JobOK, UploadType
  <2> QED
    BY <2>1
<1>6. RowsOK' /\ ThumbnailStored'
  <2>1. RowsOK'
    BY DEF FInv, RowsOK
  <2>2. ThumbnailStored'
    BY Named DEF FInv, ThumbnailStored
  <2> QED
    BY <2>1, <2>2
<1>7. ShowcasesStored'
  <2> SUFFICES ASSUME failures = 0, NEW s \in showcase, package[s.package].source = "CLOUD"
               PROVE  \/ "cloud" \in file'[s.file]
                      \/ \E q \in Procs : req[q].row = s /\ RowGone(q)
    BY DEF ShowcasesStored, RowGone, At
  <2>1. s.file \in FileId
    BY Named, RowFields
  <2> QED
    BY <2>1 DEF FInv, ShowcasesStored, RowGone
<1> QED
  BY <1>2, <1>3, <1>4, <1>5, <1>6, <1>7 DEF FInv

LEMMA FailedIs ==
  ASSUME IInv, NEW k \in PackageId, Failed(k), NEW l \in PackageId
  PROVE  upload'[l] = upload[l] \/ (upload'[l].pc \in {"none", "queued"} /\ upload'[l].files = {})
<1>1. PICK j : j = IF upload[k].left > 1
                   THEN [NoJob EXCEPT !.pc = "queued", !.left = upload[k].left - 1] ELSE NoJob
  OBVIOUS
<1>2. j.pc \in {"none", "queued"} /\ j.files = {}
  BY <1>1 DEF NoJob
<1>3. upload' = [upload EXCEPT ![k] = j]
  BY <1>1 DEF Failed
<1> QED
  BY <1>2, <1>3, Shapes

\* An attempt that fails, or has nothing to do.
LEMMA GivenUp ==
  ASSUME IInv, IInv', FInv, NEW k \in PackageId, UNCHANGED <<setting, rowVars, file, purge, req>>,
         Failed(k) \/ upload' = [upload EXCEPT ![k] = NoJob], failures' = 0 => failures = 0
  PROVE  FInv'
<1>1. \A l \in PackageId :
        upload'[l] = upload[l] \/ (upload'[l].pc \in {"none", "queued"} /\ upload'[l].files = {})
  <2>1. CASE Failed(k)
    BY <2>1, FailedIs
  <2>2. CASE upload' = [upload EXCEPT ![k] = NoJob]
    BY <2>2, Shapes DEF NoJob
  <2> QED
    BY <2>1, <2>2
<1> QED
  BY <1>1, PlainStep DEF rowVars, IInv

LEMMA UploadReadStep ==
  ASSUME IInv, IInv', FInv, NEW k \in PackageId, UploadRead(k)
  PROVE  FInv'
<1>1. UNCHANGED <<setting, rowVars, file, purge, req, failures>>
      /\ UNCHANGED <<package, showcase, req, failures, file, purge>>
  BY DEF UploadRead, rowVars
<1>2. CASE Failed(k) \/ upload' = [upload EXCEPT ![k] = NoJob]
  BY <1>1, <1>2, GivenUp
<1>3. ASSUME Live(k), package[k].source = "FILESYSTEM",
             upload' = [upload EXCEPT ![k].pc = "read",
               ![k].files = {package[k].thumbnail} \cup {r.file : r \in ShowcasesOf(k)}]
      PROVE  FInv'
  <2>1. PICK F : F = {package[k].thumbnail} \cup {r.file : r \in ShowcasesOf(k)}
    OBVIOUS
  <2>2. package[k].thumbnail \in FileId
    BY <1>3, Named DEF Live
  <2>3. \A f \in F : Holds(k, f) /\ f \in FileId
    <3>1. Holds(k, package[k].thumbnail)
      BY <1>3, Named DEF Live
    <3>2. \A r \in ShowcasesOf(k) : Holds(k, r.file) /\ r.file \in FileId
      BY Named, RowFields DEF ShowcasesOf
    <3> QED
      BY <2>1, <2>2, <3>1, <3>2
  <2>4. PICK o : o = upload[k] /\ o \in UploadType
    BY Shapes
  <2>5. PICK j : j = [o EXCEPT !.pc = "read", !.files = F]
    OBVIOUS
  <2>6. j \in UploadType /\ j.pc = "read" /\ j.files = F
    <3>1. F \in SUBSET FileId
      BY <2>3
    <3> QED
      BY <2>4, <2>5, <3>1 DEF UploadType
  <2>7. upload' = [upload EXCEPT ![k] = j]
    BY <1>3, <2>1, <2>4, <2>5
  <2>8. upload'[k] = j
    BY <2>7, Shapes
  <2>9. JobOK(k)'
    BY <1>1, <1>3, <2>1, <2>6, <2>8 DEF JobOK
  <2> QED
    BY <1>1, <2>3, <2>6, <2>7, <2>9, JobStep
<1> QED
  BY <1>2, <1>3 DEF UploadRead

LEMMA UploadFilesStep ==
  ASSUME IInv, IInv', FInv, NEW k \in PackageId, UploadFiles(k)
  PROVE  FInv'
<1>1. UNCHANGED <<setting, rowVars, purge, req, failures>>
      /\ UNCHANGED <<package, showcase, req, failures, purge>>
  BY DEF UploadFiles, rowVars
<1>2. CASE ~OnDisk(upload[k].files)
  BY <1>1, <1>2, GivenUp DEF UploadFiles
<1>3. CASE OnDisk(upload[k].files)
  <2>1. PICK o : o = upload[k] /\ o \in UploadType /\ o.pc = "read"
    BY Shapes DEF UploadFiles
  <2>2. PICK j : j = [o EXCEPT !.pc = "uploaded"]
    OBVIOUS
  <2>3. j \in UploadType /\ j.pc = "uploaded" /\ j.files = o.files
    BY <2>1, <2>2 DEF UploadType
  <2>4. upload' = [upload EXCEPT ![k] = j] /\ Put(o.files, {"cloud"})
    BY <1>3, <2>1, <2>2 DEF UploadFiles
  <2>5. upload'[k] = j
    BY <2>4, Shapes
  <2>6. \A f \in FileId : file'[f] = IF f \in o.files THEN file[f] \cup {"cloud"} ELSE file[f]
    BY <2>4, PutKeeps
  <2>7. /\ \A f \in FileId : file'[f] \subseteq file[f] \cup {"cloud"}
        /\ \A f \in FileId : file[f] \subseteq file'[f]
        /\ \A f \in o.files : "cloud" \in file'[f] /\ "temporary" \in file'[f]
    <3>1. \A f \in o.files : f \in FileId /\ "disk" \in file[f]
      BY <1>3, <2>1 DEF OnDisk, UploadType
    <3>2. \A f \in o.files : "temporary" \in file[f]
      BY <3>1 DEF FInv, FilesOK
    <3> QED
      BY <2>6, <3>1, <3>2
  <2>8. JobOK(k)'
    BY <1>1, <2>1, <2>3, <2>5, <2>7 DEF JobOK, FInv, JobsOK
  <2>9. \A f \in j.files : Holds(k, f)
    BY <2>1, <2>3 DEF Holds
  <2> QED
    BY <1>1, <2>3, <2>4, <2>7, <2>8, <2>9, JobStep
<1> QED
  BY <1>2, <1>3

LEMMA QueuePurgeStep ==
  ASSUME IInv, IInv', FInv, NEW k \in PackageId, QueuePurge(k)
  PROVE  FInv'
<1>1. UNCHANGED <<package, showcase, req, failures, file>> /\ upload[k].pc = "switched"
      /\ purge' = purge \cup upload[k].files
  BY DEF QueuePurge, rowVars
<1>2. NoJob \in UploadType /\ NoJob.pc = "none" /\ NoJob.files = {}
  BY PackagesAssumption DEF NoJob, UploadType
<1>3. upload' = [upload EXCEPT ![k] = NoJob]
  BY DEF QueuePurge
<1>4. JobOK(k)'
  <2>1. upload'[k] = NoJob
    BY <1>3, Shapes
  <2> QED
    BY <1>2, <2>1 DEF JobOK
<1> QED
  BY <1>1, <1>2, <1>3, <1>4, JobStep

\* What the disk loses is in the cloud by then.
LEMMA PurgeStep ==
  ASSUME IInv, IInv', FInv, NEW f \in FileId, DeleteFileSystemPhoto(f)
  PROVE  FInv'
<1>1. UNCHANGED <<package, showcase, req, failures, upload>> /\ f \in purge /\ purge' \subseteq purge
  BY DEF DeleteFileSystemPhoto, rowVars
<1>2. /\ \A g \in FileId : g # f => file'[g] = file[g]
      /\ file'[f] = file[f] \ {"disk"}
  BY Shapes DEF DeleteFileSystemPhoto
<1>3. HeldOK'
  <2>1. PICK F \in SUBSET FileId : F = {}
    OBVIOUS
  <2>2. \A l \in PackageId, g \in FileId : Holds(l, g)' => Holds(l, g)
    BY <1>1 DEF Holds, Editing
  <2>3. \A g \in FileId : Made(g) => Made(g)'
    BY <1>2 DEF Made
  <2>4. CASE PackageId = {}
    BY <2>4 DEF HeldOK
  <2>5. ASSUME NEW k0 \in PackageId PROVE HeldOK'
    BY <1>1, <2>1, <2>2, <2>3, HeldStep
  <2> QED
    BY <2>4, <2>5
<1>4. FilesOK'
  BY <1>1, <1>2 DEF FInv, FilesOK
<1>5. EditsOK' /\ AddsOK'
  <2>1. \A q \in Procs : Editing(q)' => Editing(q) /\ req'[q] = req[q]
    BY <1>1 DEF Editing
  <2> QED
    BY <1>1, <1>2, <2>1, EditsKept
<1>6. JobsOK'
  <2> SUFFICES ASSUME NEW l \in PackageId PROVE JobOK(l)'
    BY DEF JobsOK
  <2>1. JobOK(l) /\ upload[l] \in UploadType
    BY Shapes DEF FInv, JobsOK
  <2> QED
    BY <1>1, <1>2, <2>1 DEF JobOK, UploadType
<1>7. RowsOK'
  BY <1>1 DEF FInv, RowsOK
<1>8. ThumbnailStored'
  <2> SUFFICES ASSUME NEW l \in PackageId, package[l].used
               PROVE  (IF package[l].source = "CLOUD" THEN "cloud" ELSE "disk") \in file'[package[l].thumbnail]
    BY <1>1 DEF ThumbnailStored
  <2>1. CASE package[l].thumbnail = f
    <3>1. package[l].source = "CLOUD"
      BY <1>1, <2>1, Named DEF FInv, HeldOK
    <3> QED
      BY <1>2, <2>1, <3>1 DEF FInv, ThumbnailStored
  <2>2. CASE package[l].thumbnail # f
    BY <1>2, <2>2, Named DEF FInv, ThumbnailStored
  <2> QED
    BY <2>1, <2>2
<1>9. ShowcasesStored'
  <2> SUFFICES ASSUME failures = 0, NEW s \in showcase, package[s.package].source = "CLOUD"
               PROVE  \/ "cloud" \in file'[s.file]
                      \/ \E q \in Procs : req[q].row = s /\ RowGone(q)
    BY <1>1 DEF ShowcasesStored, RowGone, At
  <2>1. s.file \in FileId
    BY Named, RowFields
  <2> QED
    BY <1>2, <2>1 DEF FInv, ShowcasesStored, RowGone
<1> QED
  BY <1>3, <1>4, <1>5, <1>6, <1>7, <1>8, <1>9 DEF FInv

\* One update writes the names of the copies: every row is made anew, for the files as they were
\* when the job read them.
LEMMA UploadSwitchStep ==
  ASSUME IInv, IInv', FInv, NEW k \in PackageId, UploadSwitch(k)
  PROVE  FInv'
<1>1. UNCHANGED <<setting, count, file, purge, req, failures>> /\ upload[k].pc = "uploaded"
  BY DEF UploadSwitch
<1>2. CASE ~Live(k)
  BY <1>1, <1>2, GivenUp DEF UploadSwitch, rowVars
<1>3. CASE Live(k)
  <2>1. PICK o : o = upload[k] /\ o \in UploadType /\ o.pc = "uploaded"
    BY <1>1, Shapes
  <2>2. PICK j : j = [o EXCEPT !.pc = "switched"]
    OBVIOUS
  <2>3. j \in UploadType /\ j.pc = "switched" /\ j.files = o.files
    BY <2>1, <2>2 DEF UploadType
  <2>4. upload' = [upload EXCEPT ![k] = j]
    BY <1>3, <2>1, <2>2 DEF UploadSwitch
  <2>5. upload'[k] = j /\ \A l \in PackageId \ {k} : upload'[l] = upload[l]
    BY <2>4, Shapes
  <2>6. PICK t \in FileId : t = package[k].thumbnail /\ package[k].used
    BY <1>3, Named DEF Live
  <2>7. /\ package'[k].used /\ package'[k].source = "CLOUD" /\ package'[k].thumbnail = t
        /\ \A l \in PackageId \ {k} : package'[l] = package[l]
    <3>1. package[k] \in UsedPackage
      BY <1>3, Shapes, LiveIsUsed
    <3>2. PICK new : new = [package[k] EXCEPT !.source = "CLOUD"]
      OBVIOUS
    <3>3. new.used /\ new.source = "CLOUD" /\ new.thumbnail = t
      BY <2>6, <3>1, <3>2 DEF UsedPackage
    <3>4. package' = [package EXCEPT ![k] = new]
      BY <1>3, <3>2 DEF UploadSwitch
    <3> QED
      BY <3>3, <3>4, Shapes
  <2>8. \A f \in o.files : /\ f \in FileId /\ "temporary" \in file[f] /\ "cloud" \in file[f]
                           /\ Holds(k, f)
    BY <2>1 DEF FInv, JobsOK, JobOK, Holds, UploadType
  <2>9. package[k].source = "FILESYSTEM" /\ t \in o.files
    BY <2>1, <2>6 DEF FInv, JobsOK, JobOK
  <2>10. showcase' = (showcase \ ShowcasesOf(k)) \cup
           {[id |-> f, moved |-> TRUE, package |-> k, file |-> f] : f \in o.files \ {t}}
    BY <1>3, <2>1, <2>6 DEF UploadSwitch
  <2>11. ASSUME NEW s \in showcase'
         PROVE  \/ s \in showcase /\ s.package # k
                \/ /\ s.package = k /\ s.moved /\ s.id = s.file /\ s.file \in o.files \ {t}
                   /\ s = [id |-> s.file, moved |-> TRUE, package |-> k, file |-> s.file]
    <3>1. CASE s \in showcase \ ShowcasesOf(k)
      BY <3>1 DEF ShowcasesOf
    <3>2. CASE \E f \in o.files \ {t} : s = [id |-> f, moved |-> TRUE, package |-> k, file |-> f]
      BY <3>2
    <3> QED
      BY <2>10, <3>1, <3>2
  <2>12. ASSUME NEW s \in showcase, s.package # k
         PROVE  /\ s.package \in PackageId /\ package'[s.package] = package[s.package]
                /\ s.file \notin o.files /\ s.id \notin o.files
    <3>1. s.package \in PackageId /\ s.file \in FileId /\ s.id \in FileId
          /\ Holds(s.package, s.file) /\ Holds(s.package, s.id)
      BY Named, RowFields
    <3> QED
      BY <2>7, <2>8, <2>12, <3>1 DEF FInv, HeldOK
  <2>13. HeldOK'
    <3>1. PICK F \in SUBSET FileId : F = {}
      OBVIOUS
    <3>2. ASSUME NEW l \in PackageId, NEW f \in FileId, Holds(l, f)' PROVE Holds(l, f)
      <4>1. CASE \E s \in showcase' : s.package = l /\ (s.id = f \/ s.file = f)
        <5>1. PICK s \in showcase' : s.package = l /\ (s.id = f \/ s.file = f)
          BY <4>1
        <5>2. CASE s \in showcase
          BY <5>1, <5>2 DEF Holds
        <5>3. CASE s.package = k /\ s.id = s.file /\ s.file \in o.files
          BY <2>8, <5>1, <5>3
        <5> QED
          BY <2>11, <5>1, <5>2, <5>3
      <4>2. CASE package'[l].used /\ package'[l].thumbnail = f
        BY <2>6, <2>7, <4>2 DEF Holds
      <4>3. CASE f \in upload'[l].files
        BY <2>1, <2>3, <2>5, <4>3 DEF Holds
      <4> QED
        BY <1>1, <3>2, <4>1, <4>2, <4>3 DEF Holds, Editing
    <3>3. \A f \in FileId : Made(f) => Made(f)'
      BY <1>1 DEF Made
    <3>4. \A l \in PackageId : package[l].used =>
            package'[l].used /\ (package[l].source = "CLOUD" => package'[l].source = "CLOUD")
      BY <2>7
    <3> QED
      BY <1>1, <3>1, <3>2, <3>3, <3>4, HeldStep
  <2>14. EditsOK' /\ AddsOK'
    <3>1. \A q \in Procs : Editing(q)' => Editing(q) /\ req'[q] = req[q]
      BY <1>1 DEF Editing
    <3>2. ASSUME NEW q \in Procs, Editing(q), InCloud(req[q].row), NEW s \in showcase',
                 s.file = req[q].row.file
          PROVE  s \in showcase
      <4>1. PICK r \in Row : r = req[q].row /\ EditOK(r, req[q].pc) /\ Holds(r.package, r.file)
        BY <3>2, Named DEF FInv, EditsOK
      <4>2. r.package \in PackageId /\ r.file \in FileId
        BY RowFields
      <4>3. CASE s.file \in o.files
        <5>1. "temporary" \in file[r.file] /\ r.package = k
          BY <2>8, <3>2, <4>1, <4>2, <4>3 DEF FInv, HeldOK
        <5>2. r.moved
          BY <3>2, <4>1, <5>1 DEF InCloud
        <5> QED
          BY <2>9, <4>1, <5>1, <5>2 DEF EditOK
      <4> QED
        BY <2>11, <4>3
    <3>3. \A l \in PackageId : package[l].used =>
            /\ package'[l].used /\ package'[l].thumbnail = package[l].thumbnail
            /\ package[l].source = "CLOUD" => package'[l].source = "CLOUD"
      BY <2>6, <2>7
    <3> QED
      BY <1>1, <3>1, <3>2, <3>3, EditsKept
  <2>15. FilesOK'
    BY <1>1 DEF FInv, FilesOK
  <2>16. JobsOK'
    <3> SUFFICES ASSUME NEW l \in PackageId PROVE JobOK(l)'
      BY DEF JobsOK
    <3>1. CASE l = k
      BY <1>1, <2>3, <2>5, <2>7, <2>8, <3>1 DEF JobOK
    <3>2. CASE l # k
      <4>1. upload'[l] = upload[l] /\ package'[l] = package[l] /\ file' = file
        BY <1>1, <2>5, <2>7, <3>2
      <4>2. JobOK(l)
        BY DEF FInv, JobsOK
      <4> QED
        BY <4>1, <4>2 DEF JobOK
    <3> QED
      BY <3>1, <3>2
  <2>17. RowsOK'
    <3> SUFFICES ASSUME NEW s \in showcase', NEW u \in showcase'
                 PROVE  /\ s.file # package'[s.package].thumbnail
                        /\ s.moved => package'[s.package].source = "CLOUD"
                        /\ s.file = u.file \/ (s.id = u.id /\ s.moved = u.moved) => s = u
      BY DEF RowsOK
    <3>1. s.file # package'[s.package].thumbnail /\ (s.moved => package'[s.package].source = "CLOUD")
      BY <2>7, <2>11, <2>12 DEF FInv, RowsOK
    <3>2. s.file = u.file => s = u
      BY <2>11, <2>12 DEF FInv, RowsOK
    <3>3. s.id = u.id /\ s.moved = u.moved => s = u
      BY <2>11, <2>12 DEF FInv, RowsOK
    <3> QED
      BY <3>1, <3>2, <3>3
  <2>18. ThumbnailStored'
    <3> SUFFICES ASSUME NEW l \in PackageId, package'[l].used
                 PROVE  (IF package'[l].source = "CLOUD" THEN "cloud" ELSE "disk") \in file[package'[l].thumbnail]
      BY <1>1 DEF ThumbnailStored
    <3>1. CASE l = k
      BY <2>7, <2>8, <2>9, <3>1
    <3>2. CASE l # k
      BY <2>7, <3>2 DEF FInv, ThumbnailStored
    <3> QED
      BY <3>1, <3>2
  <2>19. ShowcasesStored'
    <3> SUFFICES ASSUME failures = 0, NEW s \in showcase', package'[s.package].source = "CLOUD"
                 PROVE  \/ "cloud" \in file[s.file]
                        \/ \E q \in Procs : req[q].row = s /\ RowGone(q)
      BY <1>1 DEF ShowcasesStored, RowGone, At
    <3>1. CASE s.package = k
      BY <2>8, <2>11, <3>1
    <3>2. CASE s.package # k
      <4>1. s \in showcase
        BY <2>11, <3>2
      <4>2. package[s.package].source = "CLOUD"
        BY <2>12, <3>2, <4>1
      <4> QED
        BY <4>1, <4>2 DEF FInv, ShowcasesStored, RowGone
    <3> QED
      BY <3>1, <3>2
  <2> QED
    BY <2>13, <2>14, <2>15, <2>16, <2>17, <2>18, <2>19 DEF FInv
<1> QED
  BY <1>2, <1>3

\* A request that begins, and is no edit of a showcase photo.
LEMMA BeginStep ==
  ASSUME IInv, IInv', FInv, NEW p \in Procs, UNCHANGED <<setting, rowVars, file, jobVars, failures>>,
         NEW r, Begin(p, r), r.pc \notin Edits,
         r.pc = "addShowcase" => package[r.package].used
  PROVE  FInv'
<1>1. req'[p] = r /\ (\A q \in Procs \ {p} : req'[q] = req[q]) /\ ~RowGone(p)
  BY Shapes DEF Begin, RowGone, At
<1> QED
  BY <1>1, PlainStep DEF rowVars, jobVars, Editing, At, IInv

LEMMA DonePlain ==
  ASSUME IInv, NEW p \in Procs, Done(p)
  PROVE  /\ \A q \in Procs : Editing(q)' => req'[q] = req[q]
         /\ \A q \in Procs : At(q, "addShowcase")' => req'[q] = req[q]
         /\ \A q \in Procs : q # p => req'[q] = req[q]
<1>1. req'[p] = Idle /\ \A q \in Procs \ {p} : req'[q] = req[q]
  BY Shapes DEF Done
<1> QED
  BY <1>1, IdleRequest DEF Editing, Edits, At

LEMMA RequestBegins ==
  ASSUME IInv, IInv', FInv, NEW p \in Procs,
         \/ \E source \in {"FILESYSTEM", "CLOUD"} : Create(p, source)
         \/ \E k \in PackageId : Delete(p, k) \/ CreateShowcase(p, k)
  PROVE  FInv'
<1>1. UNCHANGED <<setting, rowVars, file, jobVars, failures>>
  BY DEF Create, Delete, CreateShowcase
<1>2. PICK r : /\ Begin(p, r) /\ r.pc \notin Edits
               /\ r.pc = "addShowcase" => package[r.package].used
  <2>1. ASSUME NEW source, Create(p, source)
        PROVE  \E r : Begin(p, r) /\ r.pc \notin Edits /\ (r.pc = "addShowcase" => package[r.package].used)
    <3>1. PICK r : r = [Idle EXCEPT !.pc = "create", !.source = source]
      OBVIOUS
    <3>2. r.pc = "create"
      BY <3>1 DEF Idle
    <3> QED
      BY <2>1, <3>1, <3>2 DEF Create, Edits
  <2>2. ASSUME NEW k \in PackageId, Delete(p, k) \/ CreateShowcase(p, k)
        PROVE  \E r : Begin(p, r) /\ r.pc \notin Edits /\ (r.pc = "addShowcase" => package[r.package].used)
    <3>1. PICK pc \in {"delete", "addShowcase"} : Begin(p, [Idle EXCEPT !.pc = pc, !.package = k])
      BY <2>2 DEF Delete, CreateShowcase
    <3>2. PICK r : r = [Idle EXCEPT !.pc = pc, !.package = k]
      OBVIOUS
    <3>3. r.pc = pc /\ r.package = k
      BY <3>2 DEF Idle
    <3>4. package[k].used
      BY <2>2 DEF Delete, CreateShowcase, Live
    <3> QED
      BY <3>1, <3>2, <3>3, <3>4 DEF Edits
  <2> QED
    BY <2>1, <2>2
<1> QED
  BY <1>1, <1>2, BeginStep

LEMMA DonePackage ==
  ASSUME IInv, IInv', FInv, NEW p \in Procs, QueueUpload(p) \/ DeletePackage(p) \/ FailRequest(p)
  PROVE  FInv'
<1>1. Done(p) /\ UNCHANGED <<setting, showcase, file, purge>>
  BY DEF QueueUpload, DeletePackage, FailRequest, rowVars, jobVars
<1>2. \A k \in PackageId : /\ package'[k].used = package[k].used
                           /\ package'[k].source = package[k].source
                           /\ package'[k].thumbnail = package[k].thumbnail
  <2>1. CASE package' = package
    BY <2>1
  <2>2. CASE DeletePackage(p) /\ Live(req[p].package)
    <3>1. PICK k \in PackageId : k = req[p].package
      BY <2>2 DEF DeletePackage, At, IInv, RequestsOK
    <3>2. package[k] \in UsedPackage
      BY <2>2, <3>1, Shapes, LiveIsUsed
    <3>3. PICK new : new = [package[k] EXCEPT !.deleted = TRUE]
      OBVIOUS
    <3>4. new.used = package[k].used /\ new.source = package[k].source /\ new.thumbnail = package[k].thumbnail
      BY <3>2, <3>3 DEF UsedPackage
    <3>5. package' = [package EXCEPT ![k] = new]
      BY <2>2, <3>1, <3>3 DEF DeletePackage
    <3> QED
      BY <3>4, <3>5, Shapes
  <2> QED
    BY <2>1, <2>2 DEF QueueUpload, DeletePackage, FailRequest, rowVars
<1>3. \A k \in PackageId : \/ upload'[k] = upload[k]
                           \/ upload'[k].pc \in {"none", "queued"} /\ upload'[k].files = {}
  <2>1. CASE upload' = upload
    BY <2>1
  <2>2. CASE QueueUpload(p)
    <3>1. PICK j : j = [NoJob EXCEPT !.pc = "queued", !.left = Attempts]
      OBVIOUS
    <3>2. j.pc = "queued" /\ j.files = {}
      BY <3>1 DEF NoJob
    <3>3. upload' = [upload EXCEPT ![req[p].package] = j]
      BY <2>2, <3>1 DEF QueueUpload
    <3> QED
      BY <3>2, <3>3, Shapes
  <2> QED
    BY <2>1, <2>2 DEF DeletePackage, FailRequest, jobVars
<1>4. failures' = 0 => failures = 0 /\ \A q \in Procs : RowGone(q) => req'[q] = req[q]
  <2>1. CASE FailRequest(p)
    BY <2>1, Shapes DEF FailRequest
  <2>2. CASE QueueUpload(p) \/ DeletePackage(p)
    <3>1. failures' = failures /\ ~RowGone(p)
      BY <2>2 DEF QueueUpload, DeletePackage, RowGone, At
    <3> QED
      BY <1>1, <3>1, DonePlain
  <2> QED
    BY <2>1, <2>2
<1> QED
  BY <1>1, <1>2, <1>3, <1>4, DonePlain, PlainStep DEF IInv

LEMMA NextFInv == IInv /\ IInv' /\ FInv /\ [Next]_vars => FInv'
<1> SUFFICES ASSUME IInv, IInv', FInv, [Next]_vars PROVE FInv'
  OBVIOUS
<1>1. ASSUME NEW p \in Procs, PhotographerAsks(p) PROVE FInv'
  BY <1>1, RequestBegins DEF PhotographerAsks
<1>2. ASSUME NEW p \in Procs, PhotographerShows(p) PROVE FInv'
  BY <1>2, RequestBegins, EditShowcaseStep DEF PhotographerShows
<1>3. ASSUME NEW p \in Procs, Step(p) PROVE FInv'
  BY <1>3, InsertPackageStep, DonePackage, AddShowcaseStep, DropFileStep, DropRowStep, ReplaceRowStep
  DEF Step
<1>4. ASSUME NEW k \in PackageId, UploadStep(k) PROVE FInv'
  BY <1>4, UploadReadStep, UploadFilesStep, UploadSwitchStep, QueuePurgeStep DEF UploadStep
<1>5. ASSUME NEW k \in PackageId, UploadFails(k) PROVE FInv'
  <2>1. failures' # 0
    BY <1>5, Shapes DEF UploadFails
  <2> QED
    BY <1>5, <2>1, GivenUp DEF UploadFails
<1>6. CASE UNCHANGED vars
  BY <1>6, PlainStep DEF vars, rowVars, jobVars, Editing, At, IInv
<1> QED
  BY <1>1, <1>2, <1>3, <1>4, <1>5, <1>6, DonePackage, PurgeStep DEF Next

-----------------------------------------------------------------------------
\* A package finds its thumbnail on the disk before, and in the cloud after the one update of
\* its job, however many attempts of jobs failed and files were purged; and when no request was
\* lost, its showcase photos in the cloud but for those a request is about to replace or delete.
THEOREM FilesAreStored == Spec => []FilesStored
<1>1. FInv => FilesStored
  BY DEF FInv, FilesStored
<1>2. Spec => [](IInv /\ FInv)
  BY InitIInv, NextIInv, InitFInv, NextFInv, PTL DEF Spec
<1> QED
  BY <1>1, <1>2, PTL
=============================================================================
