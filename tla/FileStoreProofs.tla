--------------------------- MODULE FileStoreProofs ---------------------------
(***************************************************************************)
(* Proofs about FileStore for any tree of two levels, any number of        *)
(* contents, ids, requests, imports, rebuilds, faults and restarts: the    *)
(* lock is held exactly while somebody replaces a file, a source is        *)
(* removed only behind its copy, readers see what VaultContents promises,  *)
(* the index follows the files, and a rebuild left alone makes it exact.   *)
(***************************************************************************)
EXTENDS FileStore, TLAPS

\* The parts of TypeOK.
TreeOK ==
    /\ disk \in [Files -> [Slots -> Contents]]
    /\ dirId \in [Walks -> Slots] /\ nextId \in Slots /\ dirId[Root] # 0
    /\ stray \subseteq Dirs

IndexOK ==
    /\ entry \in [Files -> [hash : Contents, size : Contents, of : Contents]]
    /\ dirRow \in [Walks -> {"none", "partial", "complete"}]

SourceOK == src \in [Files -> Contents] /\ srcDirs \subseteq Dirs /\ kept \subseteq Contents

LockOK ==
    /\ life = IF req.op # "none" THEN "request"
              ELSE IF imp.pc = "encrypt" THEN "import" ELSE "free"
    /\ imp.pc = "encrypt" => req.op = "none"

BoundsOK ==
    /\ made \in Contents
    /\ budget \in [{"request", "import", "rebuild", "crash", "fault"} -> Nat]

HistoryOK ==
    /\ suspect \subseteq Files /\ unlinked \subseteq Contents /\ superseded \subseteq Contents
    /\ quiet \in BOOLEAN

LEMMA TypeParts ==
    TypeOK <=> /\ TreeOK /\ IndexOK /\ SourceOK /\ ReqTypeOK /\ ImpTypeOK /\ RebTypeOK
               /\ LockOK /\ BoundsOK /\ HistoryOK
BY DEF TypeOK, TreeOK, IndexOK, SourceOK, LockOK, BoundsOK, HistoryOK

-----------------------------------------------------------------------------
(* Values that are always there, and what each actor leaves alone.         *)

LEMMA Values ==
    /\ Nothing \in Contents /\ 0 \in Slots /\ 1 \in Slots
    /\ \A n \in Contents : n < MaxContent => n + 1 \in Contents
    /\ \A n \in Slots : n < MaxId => n + 1 \in Slots \ {0}
BY BoundsAssumption DEF Nothing, Contents, Slots

LEMMA Paths ==
    /\ Root \in Walks /\ Dirs \subseteq Walks /\ Root \notin Dirs
    /\ NoPath \notin Walks \cup Files /\ Dirs \cap Files = {}
    /\ \A f \in Files : ParentOf[f] \in Walks
BY PathsAssumption DEF Walks

LEMMA Reads ==
    ASSUME TreeOK, NEW f \in Files
    PROVE  Slot(f) \in Slots /\ Current(f) \in Contents
<1>1. Slot(f) \in Slots
  BY Paths DEF TreeOK, Slot
<1>. QED
  BY <1>1 DEF TreeOK, Current

LEMMA MissingDirectory ==
    ASSUME TreeOK, imp.file \in Files, MakeMissingDirectory
    PROVE  stray \subseteq stray' /\ stray' \subseteq Dirs
<1>1. ParentOf[imp.file] \in Walks
  BY Paths
<1>2. ParentOf[imp.file] \notin Dirs => Exists(ParentOf[imp.file])
  BY <1>1 DEF TreeOK, Exists, Walks
<1>3. stray \subseteq Dirs
  BY DEF TreeOK
<1>. DEFINE d == ParentOf[imp.file]
<1>4. stray' = IF Exists(d) THEN stray ELSE stray \cup {d}
  BY DEF MakeMissingDirectory
<1>5. d \in Dirs \/ Exists(d)
  BY <1>2
<1>. HIDE DEF d
<1>. QED
  BY <1>3, <1>4, <1>5

\* What a failed import or a crash does to the tree: at most it leaves the
\* directory that MkdirAll had made.
LEMMA FailureFrame ==
    ASSUME TreeOK, ImpTypeOK, ImportAbort \/ Crash
    PROVE  /\ UNCHANGED <<disk, dirId, nextId>>
           /\ stray \subseteq stray' /\ stray' \subseteq Dirs
<1>1. UNCHANGED <<disk, dirId, nextId>> /\ stray \subseteq Dirs
  BY DEF ImportAbort, Crash, TreeOK
<1>2. imp.pc = "encrypt" => imp.file \in Files
  BY DEF ImpTypeOK
<1>3. (imp.pc = "encrypt" /\ MakeMissingDirectory) \/ UNCHANGED stray
  BY DEF ImportAbort, Crash
<1>. QED
  BY <1>1, <1>2, <1>3, MissingDirectory

LEMMA RequestFrame ==
    ASSUME Request
    PROVE  UNCHANGED <<imp, reb, src, srcDirs, kept, unlinked>>
<1>. USE DEF source, history
<1>1. CASE \/ \E f \in Files : UploadOpen(f)
           \/ UploadFails \/ UploadRename \/ UploadIndex \/ UploadIndexFails
  BY <1>1 DEF UploadOpen, UploadFails, UploadRename, UploadIndex, UploadIndexFails
<1>2. CASE (\E d \in Dirs : Mkdir(d)) \/ MkdirIndex \/ MkdirIndexFails
  BY <1>2 DEF Mkdir, MkdirIndex, MkdirIndexFails
<1>3. CASE \/ \E p \in Files \cup Dirs : DeleteOpen(p)
           \/ \E f \in Files : DeleteFile(f)
           \/ DeleteRow
  BY <1>3 DEF DeleteOpen, DeleteFile, DeleteRow
<1>4. CASE DeleteRowFails \/ DeleteFails \/ DeleteDirectory \/ DeleteDirectoryRow
  BY <1>4 DEF DeleteRowFails, DeleteFails, DeleteDirectory, DeleteDirectoryRow
<1>. QED
  BY <1>1, <1>2, <1>3, <1>4 DEF Request

LEMMA ImportFrame ==
    ASSUME ImportStep
    PROVE  UNCHANGED <<req, reb, made>>
BY DEF ImportStep, ImportStart, ImportDirectory, ImportDirectoryRow, ImportLease,
   ImportEncrypt, ImportProbe, ImportStore, ImportClaim, ImportUnlink, ImportRestore,
   ImportLeave, ImportDone, ImportAbort

LEMMA RebuildFrame ==
    ASSUME RebuildStep
    PROVE  UNCHANGED <<tree, source, life, req, imp, made, unlinked, superseded>>
BY DEF RebuildStep, RebuildClear, RebuildList, RebuildDirectoryRow, RebuildHash,
   RebuildProbe, RebuildStore, RebuildEnter, RebuildLeave, RebuildDone, RebuildAbort,
   history, tree, source

-----------------------------------------------------------------------------
(* Type correctness, one part of the state after the other.                *)

LEMMA RequestTypes ==
    ASSUME TreeOK, ReqTypeOK, BoundsOK, [Next]_vars
    PROVE  ReqTypeOK'
<1>. USE Values, Paths DEF ReqTypeOK, NoReq
<1>1. CASE UNCHANGED req
  BY <1>1
<1>2. ASSUME req' = NoReq PROVE ReqTypeOK'
  BY <1>2
<1>3. CASE Request
  <2>1. ASSUME NEW f \in Files, UploadOpen(f) PROVE ReqTypeOK'
    BY <2>1, Reads DEF UploadOpen, BoundsOK
  <2>2. CASE UploadRename
    BY <2>2 DEF UploadRename
  <2>3. CASE \/ UploadFails \/ UploadIndex \/ UploadIndexFails \/ MkdirIndex
             \/ MkdirIndexFails \/ DeleteRowFails \/ DeleteFails \/ DeleteDirectoryRow
    BY <1>2, <2>3 DEF UploadFails, UploadIndex, UploadIndexFails, MkdirIndex,
       MkdirIndexFails, DeleteRowFails, DeleteFails, DeleteDirectoryRow, EndRequest
  <2>4. ASSUME NEW d \in Dirs, Mkdir(d) PROVE ReqTypeOK'
    BY <2>4 DEF Mkdir
  <2>5. ASSUME NEW p \in Files \cup Dirs, DeleteOpen(p) PROVE ReqTypeOK'
    <3>1. CASE p \in Files
      <4>1. p \notin Dirs
        BY <3>1
      <4>2. req' = [NoReq EXCEPT !.op = "delete", !.pc = "children", !.todo = {p}]
        BY <2>5, <4>1 DEF DeleteOpen
      <4>. QED
        BY <3>1, <4>2
    <3>2. CASE p \in Dirs
      <4>1. Listed(p) \in SUBSET Files
        BY DEF Listed, Children
      <4>. QED
        BY <2>5, <3>2, <4>1 DEF DeleteOpen
    <3>. QED
      BY <3>1, <3>2
  <2>6. ASSUME NEW f \in Files, DeleteFile(f) PROVE ReqTypeOK'
    BY <2>6 DEF DeleteFile
  <2>7. CASE DeleteRow
    <3>1. CASE req.dir = NoPath
      BY <1>2, <2>7, <3>1 DEF DeleteRow, EndRequest
    <3>2. CASE req.dir # NoPath
      <4>1. req.op = "delete"
        BY <2>7 DEF DeleteRow
      <4>2. req' = [req EXCEPT !.pc = "children", !.todo = @ \ {req.file}, !.file = NoPath]
        BY <2>7, <3>2 DEF DeleteRow
      <4>. QED
        BY <4>1, <4>2
    <3>. QED
      BY <3>1, <3>2
  <2>8. CASE DeleteDirectory
    BY <2>8 DEF DeleteDirectory
  <2>. QED
    BY <1>3, <2>1, <2>2, <2>3, <2>4, <2>5, <2>6, <2>7, <2>8 DEF Request
<1>4. CASE ImportStep \/ RebuildStep \/ (\E f \in Files : SourceChanges(f)) \/ UNCHANGED vars
  BY <1>1, <1>4, ImportFrame, RebuildFrame DEF SourceChanges, vars
<1>5. CASE Crash
  BY <1>2, <1>5 DEF Crash
<1>. QED
  BY <1>3, <1>4, <1>5 DEF Next

LEMMA ImportTypes ==
    ASSUME TreeOK, SourceOK, ImpTypeOK, [Next]_vars
    PROVE  ImpTypeOK'
<1>. USE Values, Paths DEF ImpTypeOK, NoImp
<1>1. CASE UNCHANGED imp
  BY <1>1
<1>2. ASSUME imp' = NoImp PROVE ImpTypeOK'
  BY <1>2
<1>3. ASSUME imp' = Walked PROVE ImpTypeOK'
  BY <1>3 DEF Walked
<1>4. CASE ImportStep
  <2>1. CASE ImportStart
    BY <2>1 DEF ImportStart, SourceFilesIn, Children, SourceOK
  <2>2. ASSUME NEW d \in Dirs, ImportDirectory(d) PROVE ImpTypeOK'
    BY <2>2 DEF ImportDirectory
  <2>3. CASE ImportDirectoryRow
    BY <2>3 DEF ImportDirectoryRow, SourceFilesIn, Children
  <2>4. ASSUME NEW f \in Files, ImportLease(f) PROVE ImpTypeOK'
    BY <2>4 DEF ImportLease
  <2>5. CASE ImportEncrypt
    BY <2>5 DEF ImportEncrypt, SourceOK
  <2>6. CASE ImportProbe
    <3>1. Current(imp.file) \in Contents
      BY <2>6, Reads DEF ImportProbe
    <3>2. PICK o \in Contents : imp' = [imp EXCEPT !.pc = "store", !.of = o]
      BY <2>6, <3>1 DEF ImportProbe
    <3>3. imp.pc = "probe"
      BY <2>6 DEF ImportProbe
    <3>. QED
      BY <3>2, <3>3
  <2>7. CASE ImportStore
    BY <1>3, <2>7 DEF ImportStore
  <2>8. CASE ImportClaim
    BY <2>8 DEF ImportClaim, SourceOK
  <2>9. CASE ImportUnlink
    BY <1>3, <2>9 DEF ImportUnlink
  <2>10. CASE ImportLeave
    BY <2>10 DEF ImportLeave
  <2>11. CASE ImportRestore \/ ImportDone \/ ImportAbort
    BY <1>2, <2>11 DEF ImportRestore, ImportDone, ImportAbort
  <2>. QED
    BY <1>4, <2>1, <2>2, <2>3, <2>4, <2>5, <2>6, <2>7, <2>8, <2>9, <2>10, <2>11
       DEF ImportStep
<1>5. CASE Request \/ RebuildStep \/ (\E f \in Files : SourceChanges(f)) \/ UNCHANGED vars
  BY <1>1, <1>5, RequestFrame, RebuildFrame DEF SourceChanges, vars
<1>6. CASE Crash
  BY <1>2, <1>6 DEF Crash
<1>. QED
  BY <1>4, <1>5, <1>6 DEF Next

LEMMA RebuildTypes ==
    ASSUME TreeOK, RebTypeOK, [Next]_vars
    PROVE  RebTypeOK'
<1>. USE Values, Paths DEF RebTypeOK, NoReb
<1>1. CASE UNCHANGED reb
  BY <1>1
<1>2. ASSUME reb' = NoReb PROVE RebTypeOK'
  BY <1>2
<1>3. CASE RebuildStep
  <2>1. CASE RebuildClear
    BY <2>1 DEF RebuildClear
  <2>2. CASE RebuildList
    <3>1. \A f \in Files : Current(f) \in Contents
      BY Reads
    <3>2. Listed(reb.dir) \cup (IF reb.dir = Root THEN {d \in Dirs : dirId[d] # 0} ELSE {})
             \in SUBSET (Dirs \cup Files)
      BY DEF Listed, Children
    <3>. QED
      BY <2>2, <3>1, <3>2 DEF RebuildList
  <2>3. CASE RebuildDirectoryRow
    BY <2>3 DEF RebuildDirectoryRow
  <2>4. ASSUME NEW f \in Files, RebuildHash(f) PROVE RebTypeOK'
    BY <2>4, Reads DEF RebuildHash
  <2>5. CASE RebuildProbe
    <3>1. Current(reb.file) \in Contents
      BY <2>5, Reads DEF RebuildProbe
    <3>2. PICK o \in Contents : reb' = [reb EXCEPT !.pc = "store", !.of = o]
      BY <2>5, <3>1 DEF RebuildProbe
    <3>3. reb.pc = "probe"
      BY <2>5 DEF RebuildProbe
    <3>. QED
      BY <3>2, <3>3
  <2>6. CASE RebuildStore
    BY <2>6 DEF RebuildStore
  <2>7. ASSUME NEW d \in Dirs, RebuildEnter(d) PROVE RebTypeOK'
    BY <2>7 DEF RebuildEnter
  <2>8. CASE RebuildLeave
    BY <2>8 DEF RebuildLeave
  <2>9. CASE RebuildDone \/ RebuildAbort
    BY <1>2, <2>9 DEF RebuildDone, RebuildAbort
  <2>. QED
    BY <1>3, <2>1, <2>2, <2>3, <2>4, <2>5, <2>6, <2>7, <2>8, <2>9 DEF RebuildStep
<1>4. CASE Request \/ ImportStep \/ (\E f \in Files : SourceChanges(f)) \/ UNCHANGED vars
  BY <1>1, <1>4, RequestFrame, ImportFrame DEF SourceChanges, vars
<1>5. CASE Crash
  BY <1>2, <1>5 DEF Crash
<1>. QED
  BY <1>3, <1>4, <1>5 DEF Next

LEMMA LockStep ==
    ASSUME ReqTypeOK, ImpTypeOK, LockOK, [Next]_vars
    PROVE  LockOK'
<1>. USE DEF LockOK, ReqTypeOK, ImpTypeOK, NoReq, NoImp
<1>1. CASE UNCHANGED <<life, req, imp>>
  BY <1>1
<1>2. ASSUME EndRequest, UNCHANGED imp, req.op # "none" PROVE LockOK'
  BY <1>2 DEF EndRequest
<1>3. CASE Request
  <2>. UNCHANGED imp
    BY <1>3, RequestFrame
  <2>1. CASE \/ \E f \in Files : UploadOpen(f)
             \/ \E p \in Files \cup Dirs : DeleteOpen(p)
             \/ \E d \in Dirs : Mkdir(d)
    BY <2>1 DEF UploadOpen, DeleteOpen, Mkdir
  <2>2. CASE \/ UploadFails \/ UploadIndex \/ UploadIndexFails \/ MkdirIndex
             \/ MkdirIndexFails \/ DeleteRowFails \/ DeleteFails \/ DeleteDirectoryRow
    BY <1>2, <2>2 DEF UploadFails, UploadIndex, UploadIndexFails, MkdirIndex,
       MkdirIndexFails, DeleteRowFails, DeleteFails, DeleteDirectoryRow
  <2>3. CASE UploadRename \/ (\E f \in Files : DeleteFile(f)) \/ DeleteDirectory
    <3>1. life' = life /\ req'.op = req.op
      <4>1. CASE UploadRename
        BY <4>1 DEF UploadRename
      <4>2. CASE \E f \in Files : DeleteFile(f)
        BY <4>2 DEF DeleteFile
      <4>3. CASE DeleteDirectory
        BY <4>3 DEF DeleteDirectory
      <4>. QED
        BY <2>3, <4>1, <4>2, <4>3
    <3>. QED
      BY <3>1
  <2>4. CASE DeleteRow
    BY <1>2, <2>4 DEF DeleteRow
  <2>. QED
    BY <1>3, <2>1, <2>2, <2>3, <2>4 DEF Request
<1>4. CASE ImportStep
  <2>. UNCHANGED req
    BY <1>4, ImportFrame
  <2>1. CASE ImportStart \/ (\E d \in Dirs : ImportDirectory(d)) \/ ImportDirectoryRow
    BY <2>1 DEF ImportStart, ImportDirectory, ImportDirectoryRow
  <2>2. CASE (\E f \in Files : ImportLease(f)) \/ ImportEncrypt
    BY <2>2 DEF ImportLease, ImportEncrypt
  <2>3. CASE \/ ImportProbe \/ ImportStore \/ ImportClaim \/ ImportUnlink \/ ImportRestore
             \/ ImportLeave \/ ImportDone
    <3>1. life' = life /\ imp.pc # "encrypt"
      BY <2>3 DEF ImportProbe, ImportStore, ImportClaim, ImportUnlink, ImportRestore,
         ImportLeave, ImportDone
    <3>2. imp'.pc # "encrypt"
      <4>1. CASE ImportProbe \/ ImportClaim \/ ImportLeave
        BY <4>1 DEF ImportProbe, ImportClaim, ImportLeave
      <4>2. CASE ImportStore \/ ImportUnlink
        BY <4>2 DEF ImportStore, ImportUnlink, Walked
      <4>3. CASE ImportRestore \/ ImportDone
        BY <4>3 DEF ImportRestore, ImportDone
      <4>. QED
        BY <2>3, <4>1, <4>2, <4>3
    <3>. QED
      BY <3>1, <3>2
  <2>4. CASE ImportAbort
    BY <2>4 DEF ImportAbort
  <2>. QED
    BY <1>4, <2>1, <2>2, <2>3, <2>4 DEF ImportStep
<1>5. CASE RebuildStep \/ (\E f \in Files : SourceChanges(f)) \/ UNCHANGED vars
  BY <1>1, <1>5, RebuildFrame DEF SourceChanges, vars
<1>6. CASE Crash
  BY <1>6 DEF Crash
<1>. QED
  BY <1>3, <1>4, <1>5, <1>6 DEF Next

LEMMA TreeStep ==
    ASSUME TreeOK, SourceOK, ReqTypeOK, ImpTypeOK, [Next]_vars
    PROVE  TreeOK'
<1>. USE Values, Paths DEF TreeOK
<1>1. CASE UNCHANGED tree
  BY <1>1 DEF tree
<1>2. ASSUME NEW f \in Files, NEW i \in Slots, NEW c \in Contents, Stored(f, i, c)
      PROVE  disk' \in [Files -> [Slots -> Contents]]
  BY <1>2 DEF Stored
<1>3. ASSUME NEW d \in Dirs, CreateDirectory(d) PROVE TreeOK'
  BY <1>3 DEF CreateDirectory
<1>4. CASE Request
  <2>1. CASE \/ \E f \in Files : UploadOpen(f)
             \/ \E p \in Files \cup Dirs : DeleteOpen(p)
             \/ UploadFails \/ UploadIndex
    BY <1>1, <2>1 DEF UploadOpen, DeleteOpen, UploadFails, UploadIndex
  <2>2. CASE \/ MkdirIndex \/ MkdirIndexFails \/ DeleteRow \/ DeleteRowFails \/ DeleteFails
             \/ DeleteDirectoryRow
    BY <1>1, <2>2 DEF MkdirIndex, MkdirIndexFails, DeleteRow, DeleteRowFails, DeleteFails,
       DeleteDirectoryRow
  <2>3. CASE UploadRename \/ UploadIndexFails
    BY <1>2, <2>3 DEF UploadRename, UploadIndexFails, ReqTypeOK
  <2>4. ASSUME NEW d \in Dirs, Mkdir(d) PROVE TreeOK'
    BY <1>3, <2>4 DEF Mkdir
  <2>5. ASSUME NEW f \in Files, DeleteFile(f) PROVE TreeOK'
    BY <1>2, <2>5, Reads DEF DeleteFile
  <2>6. CASE DeleteDirectory
    BY <2>6 DEF DeleteDirectory, ReqTypeOK
  <2>. QED
    BY <1>4, <2>1, <2>2, <2>3, <2>4, <2>5, <2>6 DEF Request
<1>5. CASE ImportStep
  <2>1. CASE \/ ImportStart \/ ImportDirectoryRow \/ (\E f \in Files : ImportLease(f))
             \/ ImportProbe \/ ImportStore \/ ImportClaim \/ ImportUnlink
    BY <1>1, <2>1 DEF ImportStart, ImportDirectoryRow, ImportLease, ImportProbe,
       ImportStore, ImportClaim, ImportUnlink
  <2>2. CASE ImportRestore \/ ImportLeave \/ ImportDone
    BY <1>1, <2>2 DEF ImportRestore, ImportLeave, ImportDone
  <2>3. ASSUME NEW d \in Dirs, ImportDirectory(d) PROVE TreeOK'
    BY <1>3, <2>3 DEF ImportDirectory
  <2>4. CASE ImportEncrypt
    <3>1. imp.file \in Files /\ src[imp.file] \in Contents
      BY <2>4 DEF ImportEncrypt, ImpTypeOK, SourceOK
    <3>2. stray' \subseteq Dirs
      BY <2>4, <3>1, MissingDirectory DEF ImportEncrypt
    <3>. QED
      BY <1>2, <2>4, <3>1, <3>2, Reads DEF ImportEncrypt
  <2>5. CASE ImportAbort
    BY <2>5, FailureFrame
  <2>. QED
    BY <1>5, <2>1, <2>2, <2>3, <2>4, <2>5 DEF ImportStep
<1>6. CASE RebuildStep \/ (\E f \in Files : SourceChanges(f)) \/ UNCHANGED vars
  BY <1>1, <1>6, RebuildFrame DEF SourceChanges, vars
<1>7. CASE Crash
  BY <1>7, FailureFrame
<1>. QED
  BY <1>4, <1>5, <1>6, <1>7 DEF Next

LEMMA IndexStep ==
    ASSUME TreeOK, IndexOK, ReqTypeOK, ImpTypeOK, RebTypeOK, [Next]_vars
    PROVE  IndexOK'
<1>. USE Values, Paths DEF IndexOK
<1>1. CASE UNCHANGED index
  BY <1>1 DEF index
<1>2. ASSUME NEW f \in Files, NEW h \in Contents, NEW s \in Contents, NEW o \in Contents,
             entry' = [entry EXCEPT ![f] = Row(h, s, o)], UNCHANGED dirRow
      PROVE  IndexOK'
  BY <1>2 DEF Row
<1>3. ASSUME NEW d \in Walks, NEW r \in {"none", "partial", "complete"},
             dirRow' = [dirRow EXCEPT ![d] = r], UNCHANGED entry
      PROVE  IndexOK'
  BY <1>3
<1>4. CASE Request
  <2>1. CASE \/ \E f \in Files : UploadOpen(f) \/ DeleteFile(f)
             \/ \E p \in Files \cup Dirs : DeleteOpen(p)
             \/ \E d \in Dirs : Mkdir(d)
             \/ UploadFails \/ UploadRename
    BY <1>1, <2>1 DEF UploadOpen, DeleteFile, DeleteOpen, Mkdir, UploadFails, UploadRename
  <2>2. CASE \/ UploadIndexFails \/ MkdirIndexFails \/ DeleteRowFails \/ DeleteFails
             \/ DeleteDirectory
    BY <1>1, <2>2 DEF UploadIndexFails, MkdirIndexFails, DeleteRowFails, DeleteFails,
       DeleteDirectory
  <2>3. CASE UploadIndex
    <3>1. req.file \in Files /\ req.content \in Contents
      BY <2>3 DEF UploadIndex, ReqTypeOK
    <3>2. PICK o \in Contents :
             entry' = [entry EXCEPT ![req.file] = Row(req.content, req.content, o)]
      BY <2>3, <3>1, Reads DEF UploadIndex
    <3>. QED
      BY <1>2, <2>3, <3>1, <3>2 DEF UploadIndex
  <2>4. CASE MkdirIndex \/ DeleteDirectoryRow
    BY <1>3, <2>4 DEF MkdirIndex, DeleteDirectoryRow, ReqTypeOK
  <2>5. CASE DeleteRow
    BY <2>5 DEF DeleteRow, NoEntry, ReqTypeOK
  <2>. QED
    BY <1>4, <2>1, <2>2, <2>3, <2>4, <2>5 DEF Request
<1>5. CASE ImportStep
  <2>1. CASE \/ ImportStart \/ (\E d \in Dirs : ImportDirectory(d))
             \/ \E f \in Files : ImportLease(f)
             \/ ImportEncrypt \/ ImportProbe \/ ImportClaim
    BY <1>1, <2>1 DEF ImportStart, ImportDirectory, ImportLease, ImportEncrypt,
       ImportProbe, ImportClaim
  <2>2. CASE ImportUnlink \/ ImportRestore \/ ImportDone \/ ImportAbort
    BY <1>1, <2>2 DEF ImportUnlink, ImportRestore, ImportDone, ImportAbort
  <2>3. CASE ImportDirectoryRow \/ ImportLeave
    BY <1>3, <2>3 DEF ImportDirectoryRow, ImportLeave, ImpTypeOK
  <2>4. CASE ImportStore
    BY <1>2, <2>4 DEF ImportStore, ImpTypeOK
  <2>. QED
    BY <1>5, <2>1, <2>2, <2>3, <2>4 DEF ImportStep
<1>6. CASE RebuildStep
  <2>1. CASE RebuildClear
    BY <2>1 DEF RebuildClear, NoEntry
  <2>2. CASE RebuildDirectoryRow
    BY <1>3, <2>2 DEF RebuildDirectoryRow, RebTypeOK
  <2>3. CASE RebuildStore
    BY <1>2, <2>3 DEF RebuildStore, RebTypeOK
  <2>4. CASE \/ RebuildList \/ RebuildProbe \/ RebuildLeave \/ RebuildDone \/ RebuildAbort
             \/ \E f \in Files : RebuildHash(f)
             \/ \E d \in Dirs : RebuildEnter(d)
    BY <1>1, <2>4 DEF RebuildList, RebuildProbe, RebuildLeave, RebuildDone, RebuildAbort,
       RebuildHash, RebuildEnter
  <2>. QED
    BY <1>6, <2>1, <2>2, <2>3, <2>4 DEF RebuildStep
<1>7. CASE (\E f \in Files : SourceChanges(f)) \/ Crash \/ UNCHANGED vars
  BY <1>1, <1>7 DEF SourceChanges, Crash, vars
<1>. QED
  BY <1>4, <1>5, <1>6, <1>7 DEF Next

LEMMA SourceStep ==
    ASSUME SourceOK, ImpTypeOK, BoundsOK, [Next]_vars
    PROVE  SourceOK'
<1>. USE Values, Paths DEF SourceOK
<1>1. CASE UNCHANGED source
  BY <1>1 DEF source
<1>2. CASE ImportStep
  <2>1. CASE \/ ImportStart \/ (\E d \in Dirs : ImportDirectory(d)) \/ ImportDirectoryRow
             \/ \E f \in Files : ImportLease(f)
             \/ ImportEncrypt \/ ImportProbe
    BY <1>1, <2>1 DEF ImportStart, ImportDirectory, ImportDirectoryRow, ImportLease,
       ImportEncrypt, ImportProbe
  <2>2. CASE ImportStore \/ ImportUnlink \/ ImportLeave
    BY <1>1, <2>2 DEF ImportStore, ImportUnlink, ImportLeave
  <2>3. CASE ImportClaim
    BY <2>3 DEF ImportClaim, ImpTypeOK
  <2>4. CASE ImportRestore
    BY <2>4 DEF ImportRestore, EmptyDirsGo, ImpTypeOK
  <2>5. CASE ImportDone \/ ImportAbort
    BY <2>5 DEF ImportDone, ImportAbort, EmptyDirsGo
  <2>. QED
    BY <1>2, <2>1, <2>2, <2>3, <2>4, <2>5 DEF ImportStep
<1>3. ASSUME NEW f \in Files, SourceChanges(f) PROVE SourceOK'
  BY <1>3 DEF SourceChanges, BoundsOK
<1>4. CASE Crash
  BY <1>4 DEF Crash, ImpTypeOK
<1>5. CASE Request \/ RebuildStep \/ UNCHANGED vars
  BY <1>1, <1>5, RequestFrame, RebuildFrame DEF vars, source
<1>. QED
  BY <1>2, <1>3, <1>4, <1>5 DEF Next

LEMMA BoundsStep ==
    ASSUME BoundsOK, [Next]_vars
    PROVE  BoundsOK'
<1>. USE Values DEF BoundsOK
<1>1. CASE UNCHANGED <<made, budget>>
  BY <1>1
<1>2. ASSUME NEW what \in {"request", "import", "rebuild", "crash", "fault"}, Spend(what)
      PROVE  budget' \in [{"request", "import", "rebuild", "crash", "fault"} -> Nat]
  BY <1>2 DEF Spend
<1>3. CASE Request
  <2>1. CASE \E f \in Files : UploadOpen(f)
    BY <1>2, <2>1 DEF UploadOpen
  <2>2. CASE (\E p \in Files \cup Dirs : DeleteOpen(p)) \/ (\E d \in Dirs : Mkdir(d))
    BY <1>2, <2>2 DEF DeleteOpen, Mkdir
  <2>3. CASE UploadIndexFails \/ MkdirIndexFails \/ DeleteRowFails
    BY <1>2, <2>3 DEF UploadIndexFails, MkdirIndexFails, DeleteRowFails
  <2>4. CASE UploadFails \/ UploadRename \/ UploadIndex \/ MkdirIndex \/ DeleteRow
    BY <1>1, <2>4 DEF UploadFails, UploadRename, UploadIndex, MkdirIndex, DeleteRow
  <2>5. CASE \/ \E f \in Files : DeleteFile(f)
             \/ DeleteFails \/ DeleteDirectoryRow
    BY <1>1, <2>5 DEF DeleteFile, DeleteFails, DeleteDirectoryRow
  <2>6. CASE DeleteDirectory
    BY <1>1, <2>6 DEF DeleteDirectory
  <2>. QED
    BY <1>3, <2>1, <2>2, <2>3, <2>4, <2>5, <2>6 DEF Request
<1>4. CASE ImportStep
  <2>1. CASE ImportStart
    BY <1>2, <2>1 DEF ImportStart
  <2>2. CASE \/ (\E d \in Dirs : ImportDirectory(d)) \/ ImportDirectoryRow
             \/ \E f \in Files : ImportLease(f)
             \/ ImportEncrypt \/ ImportProbe \/ ImportStore
    BY <1>1, <2>2 DEF ImportDirectory, ImportDirectoryRow, ImportLease, ImportEncrypt,
       ImportProbe, ImportStore
  <2>3. CASE \/ ImportClaim \/ ImportUnlink \/ ImportRestore \/ ImportLeave \/ ImportDone
             \/ ImportAbort
    BY <1>1, <2>3 DEF ImportClaim, ImportUnlink, ImportRestore, ImportLeave, ImportDone,
       ImportAbort
  <2>. QED
    BY <1>4, <2>1, <2>2, <2>3 DEF ImportStep
<1>5. CASE RebuildStep
  <2>1. CASE RebuildClear
    BY <1>2, <2>1 DEF RebuildClear
  <2>2. CASE \/ RebuildList \/ RebuildDirectoryRow \/ RebuildProbe \/ RebuildStore
             \/ \E f \in Files : RebuildHash(f)
             \/ \E d \in Dirs : RebuildEnter(d)
             \/ RebuildLeave \/ RebuildDone \/ RebuildAbort
    BY <1>1, <2>2 DEF RebuildList, RebuildDirectoryRow, RebuildProbe, RebuildStore,
       RebuildHash, RebuildEnter, RebuildLeave, RebuildDone, RebuildAbort
  <2>. QED
    BY <1>5, <2>1, <2>2 DEF RebuildStep
<1>6. CASE (\E f \in Files : SourceChanges(f)) \/ UNCHANGED vars
  BY <1>1, <1>6 DEF SourceChanges, vars
<1>7. CASE Crash
  BY <1>2, <1>7 DEF Crash
<1>. QED
  BY <1>3, <1>4, <1>5, <1>6, <1>7 DEF Next

LEMMA HistoryStep ==
    ASSUME TreeOK, ReqTypeOK, ImpTypeOK, HistoryOK, [Next]_vars
    PROVE  HistoryOK'
<1>. USE Values, Paths DEF HistoryOK
<1>1. CASE UNCHANGED history
  BY <1>1 DEF history
<1>2. \A f \in Files, i \in Slots : disk[f][i] \in Contents
  BY DEF TreeOK
<1>3. \A f \in Files : Current(f) \in Contents
  BY Reads
<1>4. ASSUME NEW d \in Dirs, CreateDirectory(d) PROVE suspect' \subseteq Files
  BY <1>4 DEF CreateDirectory, Children
<1>5. CASE Request
  <2>1. CASE UploadFails \/ MkdirIndex \/ MkdirIndexFails \/ DeleteFails \/ DeleteDirectoryRow
    BY <1>1, <2>1 DEF UploadFails, MkdirIndex, MkdirIndexFails, DeleteFails,
       DeleteDirectoryRow
  <2>2. CASE (\E f \in Files : UploadOpen(f)) \/ (\E p \in Files \cup Dirs : DeleteOpen(p))
    BY <2>2 DEF UploadOpen, DeleteOpen
  <2>3. CASE UploadRename \/ UploadIndexFails
    BY <1>2, <2>3 DEF UploadRename, UploadIndexFails, ReqTypeOK
  <2>4. CASE UploadIndex \/ DeleteRow \/ DeleteRowFails
    BY <2>4 DEF UploadIndex, DeleteRow, DeleteRowFails, Settle, ReqTypeOK
  <2>5. ASSUME NEW d \in Dirs, Mkdir(d) PROVE HistoryOK'
    BY <1>4, <2>5 DEF Mkdir
  <2>6. ASSUME NEW f \in Files, DeleteFile(f) PROVE HistoryOK'
    BY <1>3, <2>6 DEF DeleteFile
  <2>7. CASE DeleteDirectory
    BY <1>2, <2>7 DEF DeleteDirectory, Children
  <2>. QED
    BY <1>5, <2>1, <2>2, <2>3, <2>4, <2>5, <2>6, <2>7 DEF Request
<1>6. CASE ImportStep
  <2>1. CASE \/ ImportDirectoryRow \/ (\E f \in Files : ImportLease(f)) \/ ImportProbe
             \/ ImportStore \/ ImportClaim \/ ImportRestore \/ ImportLeave \/ ImportDone
    BY <1>1, <2>1 DEF ImportDirectoryRow, ImportLease, ImportProbe, ImportStore,
       ImportClaim, ImportRestore, ImportLeave, ImportDone
  <2>2. CASE ImportStart
    BY <2>2 DEF ImportStart
  <2>3. ASSUME NEW d \in Dirs, ImportDirectory(d) PROVE HistoryOK'
    BY <1>4, <2>3 DEF ImportDirectory
  <2>4. CASE ImportEncrypt
    BY <1>3, <2>4 DEF ImportEncrypt, ImpTypeOK
  <2>5. CASE ImportUnlink \/ ImportAbort
    BY <2>5 DEF ImportUnlink, ImportAbort, ImpTypeOK
  <2>. QED
    BY <1>6, <2>1, <2>2, <2>3, <2>4, <2>5 DEF ImportStep
<1>7. CASE RebuildStep
  <2>1. CASE \/ RebuildList \/ RebuildDirectoryRow \/ RebuildProbe \/ RebuildStore
             \/ \E f \in Files : RebuildHash(f)
             \/ \E d \in Dirs : RebuildEnter(d)
             \/ RebuildLeave
    BY <1>1, <2>1 DEF RebuildList, RebuildDirectoryRow, RebuildProbe, RebuildStore,
       RebuildHash, RebuildEnter, RebuildLeave
  <2>2. CASE RebuildClear \/ RebuildDone \/ RebuildAbort
    BY <2>2, Zenon DEF RebuildClear, RebuildDone, RebuildAbort
  <2>. QED
    BY <1>7, <2>1, <2>2 DEF RebuildStep
<1>8. CASE (\E f \in Files : SourceChanges(f)) \/ UNCHANGED vars
  BY <1>1, <1>8 DEF SourceChanges, vars
<1>9. CASE Crash
  BY <1>9 DEF Crash, InFlight
<1>. QED
  BY <1>5, <1>6, <1>7, <1>8, <1>9 DEF Next

LEMMA InitTypes == Init => TypeOK
<1>. SUFFICES ASSUME Init PROVE TypeOK
  OBVIOUS
<1>. USE Values, Paths DEF Init
<1>1. TreeOK
  BY DEF TreeOK
<1>2. IndexOK
  BY DEF IndexOK, NoEntry
<1>3. SourceOK
  BY BoundsAssumption DEF SourceOK
<1>4. ReqTypeOK /\ ImpTypeOK /\ RebTypeOK
  BY DEF ReqTypeOK, ImpTypeOK, RebTypeOK, NoReq, NoImp, NoReb
<1>5. LockOK
  BY DEF LockOK, NoReq, NoImp
<1>6. BoundsOK
  BY BoundsAssumption DEF BoundsOK
<1>7. HistoryOK
  BY DEF HistoryOK
<1>. QED
  BY <1>1, <1>2, <1>3, <1>4, <1>5, <1>6, <1>7, TypeParts

LEMMA TypeStep == TypeOK /\ [Next]_vars => TypeOK'
<1>. SUFFICES ASSUME TypeOK, [Next]_vars PROVE TypeOK'
  OBVIOUS
<1>1. /\ TreeOK /\ IndexOK /\ SourceOK /\ ReqTypeOK /\ ImpTypeOK /\ RebTypeOK
      /\ LockOK /\ BoundsOK /\ HistoryOK
  BY TypeParts
<1>2. /\ TreeOK' /\ IndexOK' /\ SourceOK' /\ ReqTypeOK' /\ ImpTypeOK' /\ RebTypeOK'
      /\ LockOK' /\ BoundsOK' /\ HistoryOK'
  BY <1>1, TreeStep, IndexStep, SourceStep, RequestTypes, ImportTypes, RebuildTypes,
     LockStep, BoundsStep, HistoryStep
<1>. QED
  BY <1>2 DEF TypeOK, TreeOK, IndexOK, SourceOK, LockOK, BoundsOK, HistoryOK

\* The state keeps its shape, and hlsLifeMu is held exactly by the request at
\* work or by the import that is replacing a file, over every end of a handler
\* and of an import, and over restarts.
THEOREM TypeCorrect == Spec => []TypeOK
BY InitTypes, TypeStep, PTL DEF Spec

-----------------------------------------------------------------------------
(* A source goes behind its copy.  The invariant has to follow the content *)
(* from its rename in the vault to the removal of its source.              *)

Safe == OnDisk \cup superseded

CopyFirst ==
    /\ unlinked \subseteq Safe
    /\ imp.pc \in {"probe", "store", "claim", "unlink"} => imp.content \in Safe

\* No step loses a content without noting what took its place.
LEMMA SafeGrows ==
    ASSUME TypeOK, [Next]_vars
    PROVE  Safe \subseteq Safe'
<1>. TreeOK /\ ReqTypeOK /\ ImpTypeOK
  BY TypeParts
<1>1. ASSUME UNCHANGED <<disk, superseded>> PROVE Safe \subseteq Safe'
  BY <1>1 DEF Safe, OnDisk
<1>2. ASSUME NEW f \in Files, NEW i \in Slots, NEW c, Stored(f, i, c),
             superseded' = superseded \cup {disk[f][i]}
      PROVE  Safe \subseteq Safe'
  <2>1. \A g \in Files, j \in Slots : disk'[g][j] = disk[g][j] \/ (g = f /\ j = i)
    BY <1>2 DEF Stored, TreeOK
  <2>. QED
    BY <1>2, <2>1 DEF Safe, OnDisk
<1>3. CASE Request
  <2>1. CASE (\E f \in Files : UploadOpen(f)) \/ UploadFails \/ UploadIndex
    BY <1>1, <2>1 DEF UploadOpen, UploadFails, UploadIndex, tree, history
  <2>6. CASE (\E p \in Files \cup Dirs : DeleteOpen(p)) \/ (\E d \in Dirs : Mkdir(d))
    BY <1>1, <2>6 DEF DeleteOpen, Mkdir, CreateDirectory, tree
  <2>2. CASE \/ MkdirIndex \/ MkdirIndexFails \/ DeleteRow \/ DeleteRowFails \/ DeleteFails
             \/ DeleteDirectoryRow
    BY <1>1, <2>2 DEF MkdirIndex, MkdirIndexFails, DeleteRow, DeleteRowFails, DeleteFails,
       DeleteDirectoryRow, tree, history
  <2>3. CASE UploadRename \/ UploadIndexFails
    BY <1>2, <2>3 DEF UploadRename, UploadIndexFails, ReqTypeOK
  <2>4. ASSUME NEW f \in Files, DeleteFile(f) PROVE Safe \subseteq Safe'
    BY <1>2, <2>4, Reads DEF DeleteFile, Current
  <2>5. CASE DeleteDirectory
    <3>. DEFINE d == req.dir
                gone == IF dirId[d] # 0 THEN Slots \ {0} ELSE {0}
    <3>1. /\ disk' = [f \in Files |-> [i \in Slots |->
                         IF ParentOf[f] = d /\ i \in gone THEN Nothing ELSE disk[f][i]]]
          /\ superseded' = superseded \cup {disk[f][i] : f \in Children(d), i \in gone}
      BY <2>5 DEF DeleteDirectory
    <3>. HIDE DEF gone
    <3>2. ASSUME NEW f \in Files, NEW i \in Slots PROVE disk[f][i] \in Safe'
      <4>1. CASE ParentOf[f] = d /\ i \in gone
        BY <3>1, <4>1 DEF Safe, Children
      <4>2. CASE ~(ParentOf[f] = d /\ i \in gone)
        <5>1. disk'[f][i] = disk[f][i]
          BY <3>1, <4>2
        <5>. QED
          BY <5>1 DEF Safe, OnDisk
      <4>. QED
        BY <4>1, <4>2
    <3>. QED
      BY <3>1, <3>2 DEF Safe, OnDisk
  <2>. QED
    BY <1>3, <2>1, <2>2, <2>3, <2>4, <2>5, <2>6 DEF Request
<1>4. CASE ImportStep
  <2>1. CASE \/ ImportStart \/ ImportDirectoryRow \/ (\E f \in Files : ImportLease(f))
             \/ ImportProbe \/ ImportStore \/ ImportClaim \/ ImportUnlink
    BY <1>1, <2>1 DEF ImportStart, ImportDirectoryRow, ImportLease, ImportProbe,
       ImportStore, ImportClaim, ImportUnlink, tree, history
  <2>2. CASE ImportRestore \/ ImportLeave \/ ImportDone \/ ImportAbort
    BY <1>1, <2>2 DEF ImportRestore, ImportLeave, ImportDone, ImportAbort, tree, history
  <2>3. CASE \E d \in Dirs : ImportDirectory(d)
    BY <1>1, <2>3 DEF ImportDirectory, CreateDirectory
  <2>4. CASE ImportEncrypt
    BY <1>2, <2>4, Reads DEF ImportEncrypt, ImpTypeOK, Current
  <2>. QED
    BY <1>4, <2>1, <2>2, <2>3, <2>4 DEF ImportStep
<1>5. CASE RebuildStep \/ (\E f \in Files : SourceChanges(f)) \/ Crash \/ UNCHANGED vars
  BY <1>1, <1>5, RebuildFrame DEF SourceChanges, Crash, vars, tree, history
<1>. QED
  BY <1>3, <1>4, <1>5 DEF Next

LEMMA CopyFirstStep ==
    ASSUME TypeOK, CopyFirst, [Next]_vars
    PROVE  CopyFirst'
<1>. TreeOK /\ ImpTypeOK
  BY TypeParts
<1>. Safe \subseteq Safe'
  BY SafeGrows
<1>. USE DEF CopyFirst
<1>1. CASE UNCHANGED <<imp, unlinked>>
  BY <1>1
<1>2. ASSUME imp'.pc \in {"idle", "walk", "opening", "encrypt"}, UNCHANGED unlinked
      PROVE  CopyFirst'
  BY <1>2
<1>3. CASE ImportStep
  <2>1. CASE \/ ImportStart \/ (\E d \in Dirs : ImportDirectory(d)) \/ ImportDirectoryRow
             \/ \E f \in Files : ImportLease(f)
    BY <1>2, <2>1 DEF ImportStart, ImportDirectory, ImportDirectoryRow, ImportLease,
       NoImp, ImpTypeOK, history
  <2>2. CASE ImportEncrypt
    <3>1. Stored(imp.file, Slot(imp.file), src[imp.file]) /\ imp.file \in Files
      BY <2>2 DEF ImportEncrypt, ImpTypeOK
    <3>2. disk'[imp.file][Slot(imp.file)] = src[imp.file] /\ Slot(imp.file) \in Slots
      BY <3>1, Reads DEF Stored, TreeOK
    <3>3. src[imp.file] \in Safe'
      BY <3>1, <3>2 DEF Safe, OnDisk
    <3>. QED
      BY <2>2, <3>3 DEF ImportEncrypt, ImpTypeOK
  <2>3. CASE ImportProbe
    <3>1. imp'.content = imp.content /\ imp.pc = "probe" /\ unlinked' = unlinked
      BY <2>3 DEF ImportProbe, ImpTypeOK, history
    <3>. QED
      BY <3>1
  <2>4. CASE ImportStore
    <3>1. imp'.pc = "walk" \/ (imp'.content = imp.content /\ imp.pc = "store")
      BY <2>4 DEF ImportStore, Walked, ImpTypeOK
    <3>2. unlinked' = unlinked
      BY <2>4 DEF ImportStore, history
    <3>. QED
      BY <3>1, <3>2
  <2>5. CASE ImportClaim
    <3>1. imp'.content = imp.content /\ imp.pc = "claim" /\ unlinked' = unlinked
      BY <2>5 DEF ImportClaim, ImpTypeOK, history
    <3>. QED
      BY <3>1
  <2>6. CASE ImportUnlink
    <3>1. imp'.pc = "walk" /\ imp.pc = "unlink" /\ unlinked' = unlinked \cup {imp.content}
      BY <2>6 DEF ImportUnlink, Walked, ImpTypeOK
    <3>. QED
      BY <3>1
  <2>7. CASE ImportRestore \/ ImportDone \/ ImportAbort
    BY <1>2, <2>7 DEF ImportRestore, ImportDone, ImportAbort, NoImp, history
  <2>8. CASE ImportLeave
    BY <1>2, <2>8 DEF ImportLeave, ImpTypeOK, history
  <2>. QED
    BY <1>3, <2>1, <2>2, <2>3, <2>4, <2>5, <2>6, <2>7, <2>8 DEF ImportStep
<1>4. CASE Request \/ RebuildStep \/ (\E f \in Files : SourceChanges(f)) \/ UNCHANGED vars
  BY <1>1, <1>4, RequestFrame, RebuildFrame DEF SourceChanges, vars, history
<1>5. CASE Crash
  BY <1>2, <1>5 DEF Crash, NoImp
<1>. QED
  BY <1>3, <1>4, <1>5 DEF Next

\* What an import has removed at its source is in the vault, or was replaced or
\* deleted there later: for any number of crashes, and whatever a downloader
\* puts under the name meanwhile.
THEOREM NoSourceIsLost == Spec => []SourceBehindCopy
<1>1. Init => CopyFirst
  BY DEF Init, CopyFirst, NoImp
<1>2. CopyFirst => SourceBehindCopy
  BY DEF CopyFirst, Safe, SourceBehindCopy
<1>. QED
  BY <1>1, <1>2, CopyFirstStep, TypeCorrect, PTL DEF Spec

-----------------------------------------------------------------------------
(* What readers see.  A new directory shows nothing because its id is new: *)
(* nothing is stored, and nobody is about to store anything, under an id   *)
(* that has not been given out.                                            *)

FreshIds ==
    /\ \A f \in Files, i \in Slots : i > nextId => disk[f][i] = Nothing
    /\ \A d \in Walks : dirId[d] <= nextId
    /\ req.slot <= nextId

LEMMA FreshIdsStep ==
    ASSUME TypeOK, FreshIds, [Next]_vars
    PROVE  FreshIds'
<1>. TreeOK /\ ReqTypeOK /\ ImpTypeOK
  BY TypeParts
<1>. USE Paths DEF FreshIds
<1>. nextId \in Int /\ nextId >= 0 /\ \A i \in Slots : i \in Int
  BY BoundsAssumption DEF TreeOK, Slots
<1>1. CASE UNCHANGED <<disk, dirId, nextId, req>>
  BY <1>1
<1>2. CASE UNCHANGED <<disk, dirId, nextId>> /\ (req'.slot = req.slot \/ req' = NoReq)
  BY <1>2 DEF NoReq
<1>3. ASSUME NEW f \in Files, NEW i \in Slots, NEW c, Stored(f, i, c), i <= nextId,
             UNCHANGED <<dirId, nextId>>, req'.slot = req.slot \/ req' = NoReq
      PROVE  FreshIds'
  <2>1. \A g \in Files, j \in Slots : disk'[g][j] = disk[g][j] \/ j = i
    BY <1>3 DEF Stored, TreeOK
  <2>. QED
    BY <1>3, <2>1 DEF NoReq
<1>4. ASSUME NEW d \in Dirs, CreateDirectory(d), req'.slot = req.slot \/ req'.slot = 0
      PROVE  FreshIds'
  <2>1. nextId' = nextId + 1 /\ disk' = disk
    BY <1>4 DEF CreateDirectory
  <2>2. \A e \in Walks : dirId'[e] = dirId[e] \/ dirId'[e] = nextId + 1
    BY <1>4 DEF CreateDirectory, TreeOK
  <2>3. \A e \in Walks : dirId[e] \in Int /\ dirId[e] <= nextId
    BY DEF TreeOK
  <2>4. req.slot \in Int
    BY DEF ReqTypeOK
  <2>. QED
    BY <1>4, <2>1, <2>2, <2>3, <2>4
<1>5. \A f \in Files : Slot(f) \in Slots /\ Slot(f) <= nextId
  BY Reads DEF Slot
<1>6. CASE Request
  <2>1. ASSUME NEW f \in Files, UploadOpen(f) PROVE FreshIds'
    <3>1. req'.slot = Slot(f)
      BY <2>1 DEF UploadOpen, NoReq
    <3>. QED
      BY <1>5, <2>1, <3>1 DEF UploadOpen, tree
  <2>2. CASE UploadFails \/ UploadIndex \/ MkdirIndex \/ MkdirIndexFails
    BY <1>2, <2>2 DEF UploadFails, UploadIndex, MkdirIndex, MkdirIndexFails, EndRequest, tree
  <2>3. CASE DeleteRowFails \/ DeleteFails \/ DeleteDirectoryRow
    BY <1>2, <2>3 DEF DeleteRowFails, DeleteFails, DeleteDirectoryRow, EndRequest, tree
  <2>4. CASE DeleteRow
    <3>1. req'.slot = req.slot \/ req' = NoReq
      BY <2>4 DEF DeleteRow, EndRequest, ReqTypeOK
    <3>. QED
      BY <1>2, <2>4, <3>1 DEF DeleteRow, tree
  <2>5. CASE UploadRename
    <3>1. req'.slot = req.slot /\ req.file \in Files /\ req.slot \in Slots
      BY <2>5 DEF UploadRename, ReqTypeOK
    <3>. QED
      BY <1>3, <2>5, <3>1 DEF UploadRename
  <2>6. CASE UploadIndexFails
    <3>1. req.file \in Files /\ req.slot \in Slots
      BY <2>6 DEF UploadIndexFails, ReqTypeOK
    <3>. QED
      BY <1>3, <2>6, <3>1 DEF UploadIndexFails, EndRequest
  <2>7. ASSUME NEW d \in Dirs, Mkdir(d) PROVE FreshIds'
    BY <1>4, <2>7 DEF Mkdir, NoReq
  <2>8. ASSUME NEW p \in Files \cup Dirs, DeleteOpen(p) PROVE FreshIds'
    <3>1. req'.slot = 0 /\ UNCHANGED tree
      BY <2>8 DEF DeleteOpen, NoReq
    <3>. QED
      BY <3>1 DEF tree
  <2>9. ASSUME NEW f \in Files, DeleteFile(f) PROVE FreshIds'
    <3>1. req'.slot = req.slot
      BY <2>9 DEF DeleteFile, ReqTypeOK
    <3>. QED
      BY <1>3, <1>5, <2>9, <3>1 DEF DeleteFile
  <2>10. CASE DeleteDirectory
    <3>1. \A f \in Files, i \in Slots : disk'[f][i] \in {disk[f][i], Nothing}
      BY <2>10 DEF DeleteDirectory
    <3>2. \A e \in Walks : dirId'[e] \in {dirId[e], 0}
      BY <2>10 DEF DeleteDirectory, TreeOK
    <3>3. req'.slot = req.slot /\ nextId' = nextId
      BY <2>10 DEF DeleteDirectory, ReqTypeOK
    <3>. QED
      BY <3>1, <3>2, <3>3
  <2>. QED
    BY <1>6, <2>1, <2>2, <2>3, <2>4, <2>5, <2>6, <2>7, <2>8, <2>9, <2>10 DEF Request
<1>7. CASE ImportStep
  <2>. UNCHANGED req
    BY <1>7, ImportFrame
  <2>1. CASE \/ ImportStart \/ ImportDirectoryRow \/ (\E f \in Files : ImportLease(f))
             \/ ImportProbe \/ ImportStore \/ ImportClaim \/ ImportUnlink
    BY <1>1, <2>1 DEF ImportStart, ImportDirectoryRow, ImportLease, ImportProbe,
       ImportStore, ImportClaim, ImportUnlink, tree
  <2>2. CASE ImportRestore \/ ImportLeave \/ ImportDone
    BY <1>1, <2>2 DEF ImportRestore, ImportLeave, ImportDone, tree
  <2>3. ASSUME NEW d \in Dirs, ImportDirectory(d) PROVE FreshIds'
    BY <1>4, <2>3 DEF ImportDirectory
  <2>4. CASE ImportEncrypt
    BY <1>3, <1>5, <2>4 DEF ImportEncrypt, ImpTypeOK
  <2>5. CASE ImportAbort
    BY <1>1, <2>5, FailureFrame
  <2>. QED
    BY <1>7, <2>1, <2>2, <2>3, <2>4, <2>5 DEF ImportStep
<1>8. CASE RebuildStep \/ (\E f \in Files : SourceChanges(f)) \/ UNCHANGED vars
  BY <1>1, <1>8, RebuildFrame DEF SourceChanges, vars, tree
<1>9. CASE Crash
  BY <1>2, <1>9, FailureFrame DEF Crash
<1>. QED
  BY <1>6, <1>7, <1>8, <1>9 DEF Next

LEMMA InitFresh == Init => FreshIds
BY Values, Paths DEF Init, FreshIds, NoReq, Slots

\* What a reader gets at each path, as VaultContents calls it.
View == [f \in Files |-> Current(f)]

\* A step of VaultContents, or none.
ShownStep == Shown!ContentsNext \/ UNCHANGED <<View, life>>

LEMMA Steps ==
    /\ UNCHANGED <<View, life>> => ShownStep
    /\ UNCHANGED View /\ life = "free" /\ life' \in {"request", "import"} => ShownStep
    /\ UNCHANGED View /\ life' = "free" => ShownStep
    /\ \A f \in Files, c \in Contents :
          /\ View' = [View EXCEPT ![f] = c]
          /\ life \in {"request", "import"} /\ life' \in {life, "free"}
          => ShownStep
BY DEF ShownStep, View, Shown!ContentsNext, Shown!Holders, Shown!Acquire, Shown!Release,
   Shown!Put

\* A file that is stored under the present id is the file that readers get.
LEMMA ViewAfterStored ==
    ASSUME TreeOK, NEW f \in Files, NEW i \in Slots, NEW c \in Contents, Stored(f, i, c),
           UNCHANGED dirId
    PROVE  IF i = Slot(f) THEN View' = [View EXCEPT ![f] = c] ELSE View' = View
<1>1. \A g \in Files : Slot(g) \in Slots /\ Slot(g)' = Slot(g)
  BY Reads DEF Slot
<1>2. \A g \in Files, j \in Slots : disk'[g][j] = IF g = f /\ j = i THEN c ELSE disk[g][j]
  BY DEF Stored, TreeOK
<1>3. \A g \in Files : Current(g)' = disk'[g][Slot(g)]
  BY <1>1 DEF Current
<1>4. \A g \in Files : Current(g)' = IF g = f /\ Slot(g) = i THEN c ELSE Current(g)
  BY <1>1, <1>2, <1>3 DEF Current
<1>. QED
  BY <1>4 DEF View

LEMMA ViewUnchanged == UNCHANGED <<disk, dirId>> => UNCHANGED View
BY DEF View, Current, Slot

\* A directory that is created shows nothing, and no other file changes.
LEMMA ViewAfterCreate ==
    ASSUME TypeOK, FreshIds, NEW d \in Dirs, CreateDirectory(d)
    PROVE  View' = [f \in Files |-> IF ParentOf[f] = d THEN Nothing ELSE View[f]]
<1>. TreeOK
  BY TypeParts
<1>1. nextId + 1 \in Slots /\ nextId + 1 > nextId
  BY Values, BoundsAssumption DEF CreateDirectory, TreeOK, Slots
<1>2. ASSUME NEW f \in Files
      PROVE  Current(f)' = IF ParentOf[f] = d THEN Nothing ELSE Current(f)
  <2>1. ParentOf[f] \in Walks /\ d \in Walks
    BY Paths
  <2>2. CASE ParentOf[f] = d
    <3>1. Slot(f)' = nextId + 1
      BY <2>1, <2>2 DEF Slot, CreateDirectory, TreeOK
    <3>2. Current(f)' = disk[f][nextId + 1]
      BY <3>1 DEF Current, CreateDirectory
    <3>. QED
      BY <1>1, <2>2, <3>2 DEF FreshIds
  <2>3. CASE ParentOf[f] # d
    <3>1. Slot(f)' = Slot(f)
      BY <2>1, <2>3 DEF Slot, CreateDirectory, TreeOK
    <3>. QED
      BY <2>3, <3>1 DEF Current, CreateDirectory
  <2>. QED
    BY <2>2, <2>3
<1>. QED
  BY <1>2 DEF View

LEMMA ShownInit == ASSUME Init PROVE Shown!ContentsInit
<1>1. TreeOK
  BY InitTypes, TypeParts
<1>2. \A f \in Files : Current(f) \in Contents
  BY <1>1, Reads
<1>. QED
  BY <1>2 DEF Init, Shown!ContentsInit

LEMMA ShownNext ==
    ASSUME TypeOK, FreshIds, [Next]_vars
    PROVE  ShownStep
<1>. TreeOK /\ SourceOK /\ ReqTypeOK /\ ImpTypeOK /\ LockOK
  BY TypeParts
<1>. USE Values
<1>0. ASSUME UNCHANGED <<disk, dirId>>, UNCHANGED life \/ life' = "free"
      PROVE  ShownStep
  BY <1>0, ViewUnchanged, Steps
<1>1. ASSUME UNCHANGED tree, \/ UNCHANGED life
                             \/ life' = "free"
                             \/ life = "free" /\ life' \in {"request", "import"}
      PROVE  ShownStep
  BY <1>1, ViewUnchanged, Steps DEF tree
<1>2. ASSUME NEW f \in Files, NEW i \in Slots, NEW c \in Contents, Stored(f, i, c),
             UNCHANGED dirId, life \in {"request", "import"}, life' \in {life, "free"}
      PROVE  ShownStep
  <2>1. CASE i = Slot(f)
    BY <1>2, <2>1, ViewAfterStored, Steps
  <2>2. CASE i # Slot(f)
    BY <1>2, <2>2, ViewAfterStored, Steps
  <2>. QED
    BY <2>1, <2>2
<1>3. CASE Request
  <2>1. CASE \/ \E f \in Files : UploadOpen(f)
             \/ \E p \in Files \cup Dirs : DeleteOpen(p)
    BY <1>1, <2>1 DEF UploadOpen, DeleteOpen
  <2>2. CASE UploadFails \/ UploadIndex \/ MkdirIndex \/ MkdirIndexFails
    BY <1>1, <2>2 DEF UploadFails, UploadIndex, MkdirIndex, MkdirIndexFails, EndRequest
  <2>3. CASE DeleteRow \/ DeleteRowFails \/ DeleteFails \/ DeleteDirectoryRow
    BY <1>1, <2>3 DEF DeleteRow, DeleteRowFails, DeleteFails, DeleteDirectoryRow, EndRequest
  <2>4. CASE UploadRename \/ UploadIndexFails
    <3>1. life = "request" /\ req.file \in Files
      BY <2>4 DEF UploadRename, UploadIndexFails, ReqTypeOK, LockOK
    <3>. QED
      BY <1>2, <2>4, <3>1 DEF UploadRename, UploadIndexFails, ReqTypeOK, EndRequest
  <2>5. ASSUME NEW d \in Dirs, Mkdir(d) PROVE ShownStep
    <3>1. View' = [f \in Files |-> IF ParentOf[f] = d THEN Nothing ELSE View[f]]
      BY <2>5, ViewAfterCreate DEF Mkdir
    <3>2. Shown!EmptyDirectory(d)
      BY <2>5, <3>1 DEF Shown!EmptyDirectory, View, Mkdir
    <3>. QED
      BY <3>2 DEF ShownStep, Shown!ContentsNext
  <2>6. ASSUME NEW f \in Files, DeleteFile(f) PROVE ShownStep
    <3>1. life = "request"
      BY <2>6 DEF DeleteFile, ReqTypeOK, LockOK
    <3>. QED
      BY <1>2, <2>6, <3>1, Reads DEF DeleteFile
  <2>7. CASE DeleteDirectory
    <3>1. req.dir \in Dirs /\ life = "request" /\ life' = life
      BY <2>7 DEF DeleteDirectory, ReqTypeOK, LockOK
    <3>2. ASSUME NEW f \in Files, ParentOf[f] # req.dir PROVE Current(f)' = Current(f)
      <4>1. Slot(f)' = Slot(f) /\ Slot(f) \in Slots
        BY <2>7, <3>1, <3>2, Paths, Reads DEF DeleteDirectory, Slot, TreeOK
      <4>2. disk'[f][Slot(f)] = disk[f][Slot(f)]
        BY <2>7, <3>2, <4>1 DEF DeleteDirectory
      <4>. QED
        BY <4>1, <4>2 DEF Current
    <3>3. \A f \in Files : Current(f)' \in Contents
      <4>1. TreeOK'
        BY TypeStep DEF TypeOK, TreeOK
      <4>2. \A f \in Files : Slot(f)' \in Slots
        BY <4>1, Paths DEF TreeOK, Slot
      <4>. QED
        BY <4>1, <4>2 DEF TreeOK, Current
    <3>4. Shown!RemoveDirectory(req.dir)
      BY <3>1, <3>2, <3>3 DEF Shown!RemoveDirectory
    <3>. QED
      BY <3>1, <3>4 DEF ShownStep, Shown!ContentsNext
  <2>. QED
    BY <1>3, <2>1, <2>2, <2>3, <2>4, <2>5, <2>6, <2>7 DEF Request
<1>4. CASE ImportStep
  <2>1. CASE \/ ImportStart \/ ImportDirectoryRow \/ (\E f \in Files : ImportLease(f))
             \/ ImportProbe \/ ImportStore \/ ImportClaim \/ ImportUnlink
    BY <1>1, <2>1 DEF ImportStart, ImportDirectoryRow, ImportLease, ImportProbe,
       ImportStore, ImportClaim, ImportUnlink
  <2>2. CASE ImportRestore \/ ImportLeave \/ ImportDone
    BY <1>1, <2>2 DEF ImportRestore, ImportLeave, ImportDone
  <2>3. ASSUME NEW d \in Dirs, ImportDirectory(d) PROVE ShownStep
    <3>1. View' = [f \in Files |-> IF ParentOf[f] = d THEN Nothing ELSE View[f]]
      BY <2>3, ViewAfterCreate DEF ImportDirectory
    <3>2. Shown!EmptyDirectory(d)
      BY <2>3, <3>1 DEF Shown!EmptyDirectory, View, ImportDirectory
    <3>. QED
      BY <3>2 DEF ShownStep, Shown!ContentsNext
  <2>4. CASE ImportEncrypt
    <3>1. life = "import" /\ imp.file \in Files
      BY <2>4 DEF ImportEncrypt, ImpTypeOK, LockOK
    <3>. QED
      BY <1>2, <2>4, <3>1, Reads DEF ImportEncrypt, SourceOK
  <2>5. CASE ImportAbort
    BY <1>0, <2>5, FailureFrame DEF ImportAbort
  <2>. QED
    BY <1>4, <2>1, <2>2, <2>3, <2>4, <2>5 DEF ImportStep
<1>5. CASE RebuildStep \/ (\E f \in Files : SourceChanges(f)) \/ UNCHANGED vars
  BY <1>1, <1>5, RebuildFrame DEF SourceChanges, vars
<1>6. CASE Crash
  BY <1>0, <1>6, FailureFrame DEF Crash
<1>. QED
  BY <1>3, <1>4, <1>5, <1>6 DEF Next

\* Uploads, deletions, imports and rebuilds, with every failure and restart,
\* show a reader exactly the changes that VaultContents allows: one file at a
\* time by the holder of hlsLifeMu, or all of a directory.
THEOREM FilesImplementContents == Spec => ImplementsContents
<1>1. Init => TypeOK /\ FreshIds /\ Shown!ContentsInit
  BY InitTypes, InitFresh, ShownInit
<1>2. TypeOK /\ FreshIds /\ [Next]_vars => (TypeOK /\ FreshIds)'
  BY TypeStep, FreshIdsStep
<1>3. TypeOK /\ FreshIds /\ [Next]_vars => [Shown!ContentsNext]_(Shown!contents)
  BY ShownNext DEF ShownStep, View, Shown!contents
<1>. QED
  BY <1>1, <1>2, <1>3, PTL DEF Spec, ImplementsContents, Shown!ContentsSpec

\* Hence nothing but the creation of its directory takes a file from a reader
\* while nobody holds the lock.
THEOREM FilesAreStable == Spec => Shown!UnlockedFilesKeepContent
BY FilesImplementContents, Shown!UnlockedContent DEF ImplementsContents

-----------------------------------------------------------------------------
(* The index.  The invariant says of every file that nothing has left      *)
(* suspect what the rebuild, an import or an upload holds of it, and that  *)
(* its row is right or still to be written.                                *)

\* The rebuild has listed f and has not written its row.
Listing(f) == f \in reb.todo \cup reb.rest \cup {reb.file}

\* The rebuild has still to list the directory of f.
Ahead(f) ==
    \/ reb.pc = "list" /\ reb.dir \in {Root, ParentOf[f]}
    \/ ParentOf[f] \in reb.todo \cup reb.rest

\* Nothing has happened that may have left the row of f wrong.  To a rebuild
\* that runs undisturbed it does not matter what had happened before.
Trusted(f) == f \notin suspect \/ (quiet /\ reb.pc # "idle")

\* The shape of the walk of a rebuild.
WalkOK ==
    /\ reb.pc = "idle" => reb = NoReb
    /\ reb.dir \notin reb.rest
    /\ reb.dir = Root => reb.rest = {}
    /\ reb.dir # Root => reb.todo \subseteq Files
    /\ reb.pc = "list" => reb.todo = {}
    /\ reb.pc \in {"list", "row", "walk"} => reb.file = NoPath

\* A rebuild that runs undisturbed runs alone.
QuietOK == quiet => req.op = "none" /\ imp.pc = "idle"

\* A file under slot 0 lies in a directory d.c9r, which a rebuild meets.
StrayOK ==
    /\ \A f \in Files : disk[f][0] # Nothing => ParentOf[f] \in stray
    /\ req.pc = "copy" /\ req.slot = 0 => ParentOf[req.file] \in stray

\* A file whose row is about to be removed is gone, and stays gone till then;
\* a request for a directory has no file in flight.
GoneOK ==
    /\ req.pc = "row" => Current(req.file) = Nothing
    /\ req.op = "mkdir" => req.file = NoPath

ListedRight(f) ==
    Listing(f) =>
        /\ reb.sizes[f] = Current(f)
        /\ reb.pc \in {"probe", "store"} /\ reb.file = f => reb.hash = Current(f)
        /\ reb.pc = "store" /\ reb.file = f => reb.of \in {Nothing, Current(f)}
ImportedRight(f) ==
    imp.pc \in {"probe", "store"} /\ imp.file = f =>
        /\ imp.content = Current(f)
        /\ imp.pc = "store" => imp.of \in {Nothing, Current(f)}
UploadedRight(f) ==
    req.op = "upload" /\ req.pc = "index" /\ req.file = f => req.content = Current(f)
RowRight(f) ==
    Listing(f) \/ f \in InFlight \/ (Ahead(f) /\ Current(f) # Nothing) \/ Matches(f)
FileRight(f) == ListedRight(f) /\ ImportedRight(f) /\ UploadedRight(f) /\ RowRight(f)

\* A rebuild that has met a stray directory will fail, and shows nothing.
FilesRight == ~reb.doomed => \A f \in Files : Trusted(f) => FileRight(f)

LEMMA WalkStep ==
    ASSUME TypeOK, WalkOK, [Next]_vars
    PROVE  WalkOK'
<1>. RebTypeOK
  BY TypeParts
<1>. USE DEF RebTypeOK
<1>1. CASE UNCHANGED reb
  BY <1>1 DEF WalkOK
<1>2. CASE reb' = NoReb
  BY <1>2 DEF WalkOK, NoReb
<1>3. CASE RebuildStep
  <2>1. CASE RebuildClear
    BY <2>1, Paths DEF RebuildClear, WalkOK, NoReb
  <2>2. CASE RebuildList
    <3>. DEFINE listed == Listed(reb.dir)
                new == listed \cup (IF reb.dir = Root THEN {d \in Dirs : dirId[d] # 0} ELSE {})
    <3>1. /\ reb'.pc = "row" /\ reb'.dir = reb.dir /\ reb'.rest = reb.rest
          /\ reb'.file = reb.file /\ reb'.todo = new /\ reb.pc = "list"
      BY <2>2 DEF RebuildList
    <3>2. listed \subseteq Files
      BY DEF Listed, Children
    <3>. QED
      BY <3>1, <3>2 DEF WalkOK
  <2>3. CASE RebuildDirectoryRow \/ RebuildProbe
    BY <2>3 DEF RebuildDirectoryRow, RebuildProbe, WalkOK
  <2>4. ASSUME NEW f \in Files, RebuildHash(f) PROVE WalkOK'
    BY <2>4 DEF RebuildHash, WalkOK
  <2>5. CASE RebuildStore
    BY <2>5 DEF RebuildStore, WalkOK
  <2>6. ASSUME NEW d \in Dirs, RebuildEnter(d) PROVE WalkOK'
    BY <2>6, Paths DEF RebuildEnter, WalkOK
  <2>7. CASE RebuildLeave
    BY <2>7 DEF RebuildLeave, WalkOK
  <2>8. CASE RebuildDone \/ RebuildAbort
    BY <1>2, <2>8 DEF RebuildDone, RebuildAbort
  <2>. QED
    BY <1>3, <2>1, <2>2, <2>3, <2>4, <2>5, <2>6, <2>7, <2>8 DEF RebuildStep
<1>. QED
  BY <1>1, <1>2, <1>3, RequestFrame, ImportFrame DEF Next, SourceChanges, Crash, vars

\* Whoever starts a request or an import ends the quiet, and nobody else does.
LEMMA NoQuiet ==
    ASSUME TypeOK, QuietOK, Request \/ ImportStep
    PROVE  quiet' = FALSE
<1>. ReqTypeOK /\ ImpTypeOK /\ HistoryOK
  BY TypeParts
<1>1. CASE \/ \E f \in Files : UploadOpen(f)
           \/ \E p \in Files \cup Dirs : DeleteOpen(p)
           \/ \E d \in Dirs : Mkdir(d)
           \/ ImportStart
  BY <1>1 DEF UploadOpen, DeleteOpen, Mkdir, ImportStart
<1>2. CASE UploadFails \/ UploadRename \/ UploadIndex \/ UploadIndexFails
  <2>1. req.op # "none" /\ quiet' = quiet
    BY <1>2 DEF UploadFails, UploadRename, UploadIndex, UploadIndexFails, ReqTypeOK, history
  <2>. QED
    BY <2>1 DEF QuietOK, HistoryOK
<1>3. CASE MkdirIndex \/ MkdirIndexFails \/ DeleteRow \/ DeleteRowFails \/ DeleteFails
  <2>1. req.op # "none" /\ quiet' = quiet
    BY <1>3 DEF MkdirIndex, MkdirIndexFails, DeleteRow, DeleteRowFails, DeleteFails,
       ReqTypeOK, history
  <2>. QED
    BY <2>1 DEF QuietOK, HistoryOK
<1>4. CASE (\E f \in Files : DeleteFile(f)) \/ DeleteDirectory \/ DeleteDirectoryRow
  <2>1. CASE \E f \in Files : DeleteFile(f)
    BY <2>1 DEF DeleteFile, QuietOK, HistoryOK, ReqTypeOK
  <2>2. CASE DeleteDirectory
    BY <2>2 DEF DeleteDirectory, QuietOK, HistoryOK, ReqTypeOK
  <2>3. CASE DeleteDirectoryRow
    BY <2>3 DEF DeleteDirectoryRow, QuietOK, HistoryOK, ReqTypeOK, history
  <2>. QED
    BY <1>4, <2>1, <2>2, <2>3
<1>5. CASE \/ \E d \in Dirs : ImportDirectory(d)
           \/ \E f \in Files : ImportLease(f)
           \/ ImportDirectoryRow \/ ImportEncrypt \/ ImportProbe \/ ImportStore
  <2>1. imp.pc # "idle" /\ quiet' = quiet
    BY <1>5 DEF ImportDirectory, ImportLease, ImportDirectoryRow, ImportEncrypt,
       ImportProbe, ImportStore, history
  <2>. QED
    BY <2>1 DEF QuietOK, HistoryOK
<1>6. CASE ImportClaim \/ ImportUnlink \/ ImportRestore \/ ImportLeave \/ ImportDone \/ ImportAbort
  <2>1. imp.pc # "idle" /\ quiet' = quiet
    BY <1>6 DEF ImportClaim, ImportUnlink, ImportRestore, ImportLeave, ImportDone,
       ImportAbort, history
  <2>. QED
    BY <2>1 DEF QuietOK, HistoryOK
<1>. QED
  BY <1>1, <1>2, <1>3, <1>4, <1>5, <1>6 DEF Request, ImportStep

LEMMA QuietStep ==
    ASSUME TypeOK, QuietOK, [Next]_vars
    PROVE  QuietOK'
<1>. LockOK
  BY TypeParts
<1>1. CASE Request \/ ImportStep
  BY <1>1, NoQuiet DEF QuietOK
<1>2. CASE RebuildStep
  <2>1. UNCHANGED <<req, imp>> /\ (quiet' = quiet \/ quiet' = (life = "free" /\ imp.pc = "idle"))
    BY <1>2 DEF RebuildStep, RebuildClear, RebuildList, RebuildDirectoryRow, RebuildHash,
       RebuildProbe, RebuildStore, RebuildEnter, RebuildLeave, RebuildDone, RebuildAbort, history
  <2>. QED
    BY <2>1 DEF QuietOK, LockOK
<1>3. CASE (\E f \in Files : SourceChanges(f)) \/ UNCHANGED vars
  BY <1>3 DEF SourceChanges, QuietOK, history, vars
<1>4. CASE Crash
  BY <1>4 DEF Crash, QuietOK, NoReq, NoImp
<1>. QED
  BY <1>1, <1>2, <1>3, <1>4 DEF Next

\* What a file that is stored, a new directory and a removed one change of the
\* files that are current.
LEMMA CurrentAfterStored ==
    ASSUME TreeOK, NEW f \in Files, NEW i \in Slots, NEW c \in Contents, Stored(f, i, c),
           UNCHANGED dirId, NEW g \in Files
    PROVE  Current(g)' = IF g = f /\ i = Slot(f) THEN c ELSE Current(g)
<1>1. Slot(g) \in Slots /\ Slot(g)' = Slot(g)
  BY Reads DEF Slot
<1>2. \A j \in Slots : disk'[g][j] = IF g = f /\ j = i THEN c ELSE disk[g][j]
  BY DEF Stored, TreeOK
<1>3. Current(g)' = disk'[g][Slot(g)]
  BY <1>1 DEF Current
<1>. QED
  BY <1>1, <1>2, <1>3 DEF Current

LEMMA CurrentUnchanged == UNCHANGED <<disk, dirId>> => \A g : Current(g)' = Current(g)
BY DEF Current, Slot

LEMMA CurrentAfterCreate ==
    ASSUME TypeOK, FreshIds, NEW d \in Dirs, CreateDirectory(d), NEW g \in Files
    PROVE  /\ Current(g)' = IF ParentOf[g] = d THEN Nothing ELSE Current(g)
           /\ g \notin suspect' => g \notin suspect /\ Current(g)' = Current(g)
<1>1. View'[g] = IF ParentOf[g] = d THEN Nothing ELSE View[g]
  BY ViewAfterCreate
<1>2. Current(g)' = IF ParentOf[g] = d THEN Nothing ELSE Current(g)
  BY <1>1 DEF View
<1>3. g \notin suspect' => g \notin suspect /\ (ParentOf[g] = d => Current(g) = Nothing)
  BY DEF CreateDirectory, Children
<1>. QED
  BY <1>2, <1>3

LEMMA CurrentAfterDelete ==
    ASSUME TypeOK, StrayOK, DeleteDirectory, NEW g \in Files
    PROVE  /\ ParentOf[g] # req.dir => Current(g)' = Current(g)
           /\ g \notin suspect' => g \notin suspect
           /\ ParentOf[g] = req.dir /\ g \notin suspect' =>
                  ~Held(g) /\ entry[g] = NoEntry /\ Current(g)' = Nothing
<1>. TreeOK /\ ReqTypeOK
  BY TypeParts
<1>. DEFINE d == req.dir
            gone == IF dirId[d] # 0 THEN Slots \ {0} ELSE {0}
<1>1. /\ disk' = [f \in Files |-> [i \in Slots |->
                     IF ParentOf[f] = d /\ i \in gone THEN Nothing ELSE disk[f][i]]]
      /\ suspect' = suspect \cup {f \in Children(d) :
                       Held(f) \/ entry[f] # NoEntry \/ disk[f][0] # Nothing}
      /\ dirId' = [dirId EXCEPT ![d] = 0]
  BY DEF DeleteDirectory
<1>2. d \in Walks /\ ParentOf[g] \in Walks /\ 0 \in Slots /\ Slot(g) \in Slots
  <2>1. d # NoPath
    BY DEF DeleteDirectory
  <2>. QED
    BY <2>1, Paths, Values, Reads DEF ReqTypeOK
<1>. HIDE DEF d
<1>3. CASE ParentOf[g] # d
  <2>1. Slot(g)' = Slot(g)
    BY <1>1, <1>2, <1>3 DEF Slot, TreeOK
  <2>2. disk'[g][Slot(g)] = disk[g][Slot(g)]
    BY <1>1, <1>2, <1>3
  <2>. QED
    BY <1>1, <1>3, <2>1, <2>2 DEF Current, d
<1>4. CASE ParentOf[g] = d
  <2>1. Slot(g)' = 0
    BY <1>1, <1>2, <1>4 DEF Slot, TreeOK
  <2>2. g \notin suspect' => g \notin suspect /\ ~Held(g) /\ entry[g] = NoEntry
                             /\ disk[g][0] = Nothing
    BY <1>1, <1>4 DEF Children
  <2>3. disk'[g][0] = Nothing \/ disk'[g][0] = disk[g][0]
    BY <1>1, <1>2
  <2>4. Current(g)' = disk'[g][0]
    BY <2>1 DEF Current
  <2>. QED
    BY <1>4, <2>2, <2>3, <2>4 DEF d
<1>. QED
  BY <1>3, <1>4

LEMMA StrayStep ==
    ASSUME TypeOK, StrayOK, [Next]_vars
    PROVE  StrayOK'
<1>. TreeOK /\ ReqTypeOK /\ ImpTypeOK /\ SourceOK
  BY TypeParts
<1>. USE Paths, Values
<1>0. \A f \in Files : Slot(f) \in Slots
  BY Reads
<1>1. ASSUME UNCHANGED disk, stray \subseteq stray', req'.pc # "copy" \/ UNCHANGED req
      PROVE  StrayOK'
  BY <1>1 DEF StrayOK
<1>2. ASSUME NEW f \in Files, NEW i \in Slots, NEW c, Stored(f, i, c),
             stray \subseteq stray', i = 0 => ParentOf[f] \in stray' \/ c = Nothing,
             req'.pc # "copy" \/ UNCHANGED req
      PROVE  StrayOK'
  <2>1. \A g \in Files : disk'[g][0] = disk[g][0] \/ (i = 0 /\ g = f /\ disk'[g][0] = c)
    BY <1>2 DEF Stored, TreeOK
  <2>2. \A g \in Files : disk'[g][0] # Nothing => ParentOf[g] \in stray'
    BY <1>2, <2>1 DEF StrayOK
  <2>. QED
    BY <1>2, <2>2 DEF StrayOK
<1>3. CASE Request
  <2>1. ASSUME NEW f \in Files, UploadOpen(f) PROVE StrayOK'
    <3>1. /\ req'.file = f /\ req'.slot = Slot(f) /\ Exists(ParentOf[f])
          /\ UNCHANGED <<disk, stray>>
      BY <2>1 DEF UploadOpen, NoReq, tree
    <3>2. req'.slot = 0 => ParentOf[f] \in stray
      BY <3>1 DEF Slot, Exists
    <3>. QED
      BY <3>1, <3>2 DEF StrayOK
  <2>2. CASE UploadFails \/ UploadIndex \/ MkdirIndex \/ MkdirIndexFails
    BY <1>1, <2>2 DEF UploadFails, UploadIndex, MkdirIndex, MkdirIndexFails, EndRequest, NoReq, tree
  <2>3. CASE DeleteRowFails \/ DeleteFails \/ DeleteDirectoryRow
    BY <1>1, <2>3 DEF DeleteRowFails, DeleteFails, DeleteDirectoryRow, EndRequest, NoReq, tree
  <2>4. CASE DeleteRow
    <3>1. (req' = NoReq \/ req'.pc = "children") /\ UNCHANGED tree
      BY <2>4 DEF DeleteRow, EndRequest, ReqTypeOK
    <3>. QED
      BY <1>1, <3>1 DEF tree, NoReq
  <2>5. CASE UploadRename
    <3>1. /\ req.pc = "copy" /\ req'.pc = "index" /\ req.file \in Files /\ req.slot \in Slots
          /\ Stored(req.file, req.slot, req.content) /\ stray' = stray
      BY <2>5 DEF UploadRename, ReqTypeOK
    <3>2. req.slot = 0 => ParentOf[req.file] \in stray
      BY <3>1 DEF StrayOK
    <3>. QED
      BY <1>2, <3>1, <3>2
  <2>6. CASE UploadIndexFails
    <3>1. req.file \in Files /\ req.slot \in Slots /\ req'.pc # "copy" /\ stray' = stray
          /\ Stored(req.file, req.slot, Nothing)
      BY <2>6 DEF UploadIndexFails, ReqTypeOK, EndRequest, NoReq
    <3>. QED
      BY <1>2, <3>1
  <2>7. ASSUME NEW d \in Dirs, Mkdir(d) PROVE StrayOK'
    BY <1>1, <2>7 DEF Mkdir, NoReq, CreateDirectory
  <2>8. ASSUME NEW p \in Files \cup Dirs, DeleteOpen(p) PROVE StrayOK'
    <3>1. req'.pc # "copy" /\ UNCHANGED tree
      BY <2>8 DEF DeleteOpen, NoReq
    <3>. QED
      BY <1>1, <3>1 DEF tree
  <2>9. ASSUME NEW f \in Files, DeleteFile(f) PROVE StrayOK'
    <3>1. req'.pc # "copy" /\ stray' = stray /\ Stored(f, Slot(f), Nothing)
      BY <2>9 DEF DeleteFile, ReqTypeOK
    <3>. QED
      BY <1>0, <1>2, <3>1
  <2>10. CASE DeleteDirectory
    <3>1. req'.pc # "copy"
      BY <2>10 DEF DeleteDirectory, ReqTypeOK
    <3>2. \A f \in Files : disk'[f][0] # Nothing =>
              disk[f][0] # Nothing /\ (ParentOf[f] = req.dir => dirId[req.dir] # 0)
      BY <2>10 DEF DeleteDirectory
    <3>3. stray' = IF dirId[req.dir] # 0 THEN stray ELSE stray \ {req.dir}
      BY <2>10 DEF DeleteDirectory
    <3>. QED
      BY <3>1, <3>2, <3>3 DEF StrayOK
  <2>. QED
    BY <1>3, <2>1, <2>2, <2>3, <2>4, <2>5, <2>6, <2>7, <2>8, <2>9, <2>10 DEF Request
<1>4. CASE ImportStep
  <2>. UNCHANGED req
    BY <1>4, ImportFrame
  <2>1. CASE \/ ImportStart \/ ImportDirectoryRow \/ (\E f \in Files : ImportLease(f))
             \/ ImportProbe \/ ImportStore \/ ImportClaim \/ ImportUnlink
    BY <1>1, <2>1 DEF ImportStart, ImportDirectoryRow, ImportLease, ImportProbe,
       ImportStore, ImportClaim, ImportUnlink, tree
  <2>2. CASE ImportRestore \/ ImportLeave \/ ImportDone
    BY <1>1, <2>2 DEF ImportRestore, ImportLeave, ImportDone, tree
  <2>3. ASSUME NEW d \in Dirs, ImportDirectory(d) PROVE StrayOK'
    BY <1>1, <2>3 DEF ImportDirectory, CreateDirectory
  <2>4. CASE ImportEncrypt
    <3>. DEFINE f == imp.file
    <3>1. /\ f \in Files /\ Stored(f, Slot(f), src[f])
          /\ stray' = IF Exists(ParentOf[f]) THEN stray ELSE stray \cup {ParentOf[f]}
      BY <2>4 DEF ImportEncrypt, ImpTypeOK, MakeMissingDirectory
    <3>. HIDE DEF f
    <3>2. Slot(f) = 0 => ParentOf[f] \in stray'
      BY <3>1 DEF Slot, Exists
    <3>3. stray \subseteq stray'
      BY <3>1
    <3>. QED
      BY <1>0, <1>2, <3>1, <3>2, <3>3
  <2>5. CASE ImportAbort
    BY <1>1, <2>5, FailureFrame
  <2>. QED
    BY <1>4, <2>1, <2>2, <2>3, <2>4, <2>5 DEF ImportStep
<1>5. CASE RebuildStep \/ (\E f \in Files : SourceChanges(f)) \/ UNCHANGED vars
  BY <1>1, <1>5, RebuildFrame DEF SourceChanges, vars, tree
<1>6. CASE Crash
  BY <1>1, <1>6, FailureFrame DEF Crash, NoReq
<1>. QED
  BY <1>3, <1>4, <1>5, <1>6 DEF Next

LEMMA GoneStep ==
    ASSUME TypeOK, FreshIds, GoneOK, [Next]_vars
    PROVE  GoneOK'
<1>. TreeOK /\ ReqTypeOK /\ ImpTypeOK /\ LockOK /\ SourceOK
  BY TypeParts
<1>. USE Values
<1>1. ASSUME req'.pc # "row", req'.op = "mkdir" => req'.file = NoPath
      PROVE  GoneOK'
  BY <1>1 DEF GoneOK
<1>2. ASSUME UNCHANGED req, req.pc = "row" => Current(req.file)' \in {Current(req.file), Nothing}
      PROVE  GoneOK'
  BY <1>2 DEF GoneOK
<1>3. CASE Request
  <2>1. CASE \/ (\E f \in Files : UploadOpen(f)) \/ (\E d \in Dirs : Mkdir(d))
             \/ (\E p \in Files \cup Dirs : DeleteOpen(p))
    <3>1. req'.pc # "row" /\ (req'.op = "mkdir" => req'.file = NoPath)
      BY <2>1 DEF UploadOpen, Mkdir, DeleteOpen, NoReq
    <3>. QED
      BY <1>1, <3>1
  <2>2. CASE \/ UploadFails \/ UploadIndex \/ UploadIndexFails \/ MkdirIndex
             \/ MkdirIndexFails \/ DeleteRowFails \/ DeleteFails \/ DeleteDirectoryRow
    <3>1. req' = NoReq
      BY <2>2 DEF UploadFails, UploadIndex, UploadIndexFails, MkdirIndex, MkdirIndexFails,
         DeleteRowFails, DeleteFails, DeleteDirectoryRow, EndRequest
    <3>. QED
      BY <1>1, <3>1 DEF NoReq
  <2>3. CASE UploadRename \/ DeleteRow \/ DeleteDirectory
    <3>1. CASE UploadRename \/ DeleteDirectory
      BY <1>1, <3>1 DEF UploadRename, DeleteDirectory, ReqTypeOK
    <3>2. CASE DeleteRow
      <4>1. req' = NoReq \/ (req'.pc = "children" /\ req'.op = req.op /\ req.op # "mkdir")
        BY <3>2 DEF DeleteRow, EndRequest, ReqTypeOK
      <4>. QED
        BY <1>1, <4>1 DEF NoReq
    <3>. QED
      BY <2>3, <3>1, <3>2
  <2>4. ASSUME NEW f \in Files, DeleteFile(f) PROVE GoneOK'
    <3>1. /\ req'.file = f /\ UNCHANGED dirId /\ Stored(f, Slot(f), Nothing)
          /\ req'.op # "mkdir"
      BY <2>4 DEF DeleteFile, ReqTypeOK
    <3>2. Current(f)' = Nothing
      BY <3>1, Reads, CurrentAfterStored
    <3>. QED
      BY <3>1, <3>2 DEF GoneOK, Current, Slot
  <2>. QED
    BY <1>3, <2>1, <2>2, <2>3, <2>4 DEF Request
<1>4. CASE ImportStep
  <2>. UNCHANGED req /\ (req.pc = "row" => req.file \in Files)
    BY <1>4, ImportFrame DEF ReqTypeOK
  <2>1. CASE \/ ImportStart \/ ImportDirectoryRow \/ (\E f \in Files : ImportLease(f))
             \/ ImportProbe \/ ImportStore \/ ImportClaim \/ ImportUnlink
    <3>1. UNCHANGED tree
      BY <2>1 DEF ImportStart, ImportDirectoryRow, ImportLease, ImportProbe,
       ImportStore, ImportClaim, ImportUnlink
    <3>. QED
      BY <1>2, <3>1, CurrentUnchanged DEF tree
  <2>2. CASE ImportRestore \/ ImportLeave \/ ImportDone \/ ImportAbort
    <3>1. UNCHANGED <<disk, dirId>>
      BY <2>2, FailureFrame DEF ImportRestore, ImportLeave, ImportDone, tree
    <3>. QED
      BY <1>2, <3>1, CurrentUnchanged
  <2>3. ASSUME NEW d \in Dirs, ImportDirectory(d) PROVE GoneOK'
    <3>1. \A g \in Files : Current(g)' \in {Current(g), Nothing}
      BY <2>3, CurrentAfterCreate DEF ImportDirectory
    <3>. QED
      BY <1>2, <3>1
  <2>4. CASE ImportEncrypt
    <3>1. req.pc = "idle" /\ req.op = "none"
      BY <2>4 DEF ImportEncrypt, LockOK, ReqTypeOK
    <3>. QED
      BY <1>1, <3>1
  <2>. QED
    BY <1>4, <2>1, <2>2, <2>3, <2>4 DEF ImportStep
<1>5. CASE RebuildStep \/ (\E f \in Files : SourceChanges(f)) \/ UNCHANGED vars
  <2>1. UNCHANGED <<tree, req>>
    BY <1>5, RebuildFrame DEF SourceChanges, vars
  <2>. QED
    BY <1>2, <2>1, CurrentUnchanged DEF tree
<1>6. CASE Crash
  BY <1>1, <1>6 DEF Crash, NoReq
<1>. QED
  BY <1>3, <1>4, <1>5, <1>6 DEF Next

\* A file that nobody touches.
LEMMA FileUntouched ==
    ASSUME NEW g, FileRight(g), reb' = reb, Current(g)' = Current(g), entry'[g] = entry[g],
           imp'.pc \in {"probe", "store"} /\ imp'.file = g => imp' = imp,
           req'.op = "upload" /\ req'.pc = "index" /\ req'.file = g => req' = req,
           g \in InFlight => g \in InFlight'
    PROVE  FileRight(g)'
<1>1. ListedRight(g)'
  BY DEF FileRight, ListedRight, Listing
<1>2. ImportedRight(g)'
  BY DEF FileRight, ImportedRight
<1>3. UploadedRight(g)'
  BY DEF FileRight, UploadedRight
<1>4. RowRight(g)'
  BY DEF FileRight, RowRight, Listing, Ahead, Matches
<1>. QED
  BY <1>1, <1>2, <1>3, <1>4 DEF FileRight

\* A file whose row is right and of which nobody holds anything.
LEMMA FileSettled ==
    ASSUME NEW g, Matches(g)', Listing(g)' => ListedRight(g)',
           ~(imp'.pc \in {"probe", "store"} /\ imp'.file = g),
           ~(req'.op = "upload" /\ req'.pc = "index" /\ req'.file = g)
    PROVE  FileRight(g)'
BY DEF FileRight, ListedRight, ImportedRight, UploadedRight, RowRight

LEMMA NotHeld ==
    ASSUME WalkOK, NEW f \in Files, ~Held(f)
    PROVE  ~Listing(f) /\ ~(imp.pc \in {"probe", "store"} /\ imp.file = f)
<1>1. f # NoPath
  BY Paths
<1>. QED
  BY <1>1 DEF WalkOK, Held, Listing, NoReb

LEMMA FlightOf ==
    \A f \in Files : f \in InFlight <=> \/ req.pc \in {"index", "row"} /\ req.file = f
                                        \/ imp.pc \in {"probe", "store"} /\ imp.file = f
BY DEF InFlight

LEMMA FilesUpload ==
    ASSUME TypeOK, WalkOK, NEW g \in Files, g \notin suspect', UNCHANGED <<imp, reb>>,
           g \notin suspect => FileRight(g),
           UploadFails \/ UploadRename \/ UploadIndex \/ UploadIndexFails
    PROVE  FileRight(g)'
<1>. TreeOK /\ ReqTypeOK /\ HistoryOK /\ IndexOK
  BY TypeParts
<1>. USE Values
<1>1. CASE UploadFails
  <2>1. /\ UNCHANGED <<tree, entry, suspect>> /\ req' = NoReq /\ req.pc = "copy"
    BY <1>1 DEF UploadFails, EndRequest, index, history
  <2>2. g \in InFlight => g \in InFlight'
    BY <2>1, FlightOf DEF InFlight
  <2>. QED
    BY <2>1, <2>2, FileUntouched, CurrentUnchanged DEF tree, NoReq
<1>2. CASE UploadRename
  <2>. DEFINE f == req.file
  <2>1. /\ f \in Files /\ req.slot \in Slots /\ req.content \in Contents
        /\ Stored(f, req.slot, req.content) /\ UNCHANGED <<dirId, entry>>
        /\ suspect' = IF Held(f) \/ req.slot # Slot(f) THEN suspect \cup {f} ELSE suspect
        /\ req' = [req EXCEPT !.pc = "index"] /\ req.pc = "copy"
    BY <1>2 DEF UploadRename, ReqTypeOK, index
  <2>2. req'.pc = "index" /\ req'.file = f /\ req'.content = req.content
    BY <2>1 DEF ReqTypeOK
  <2>. HIDE DEF f
  <2>3. \A h \in Files : Current(h)' = IF h = f /\ req.slot = Slot(f) THEN req.content ELSE Current(h)
    BY <2>1, CurrentAfterStored
  <2>4. CASE g = f
    <3>1. ~Held(g) /\ Current(g)' = req.content
      BY <2>1, <2>3, <2>4
    <3>2. ~Listing(g) /\ ~(imp.pc \in {"probe", "store"} /\ imp.file = g)
      BY <3>1, NotHeld
    <3>3. g \in InFlight'
      BY <2>2, <2>4 DEF InFlight
    <3>. QED
      BY <2>2, <3>1, <3>2, <3>3 DEF FileRight, ListedRight, Listing, ImportedRight,
         UploadedRight, RowRight
  <2>5. CASE g # f
    <3>1. g \in InFlight => g \in InFlight'
      BY <2>1, <2>2, <2>5, FlightOf DEF InFlight
    <3>2. Current(g)' = Current(g) /\ g \notin suspect
      BY <2>1, <2>3, <2>5
    <3>. QED
      BY <2>1, <2>2, <2>5, <3>1, <3>2, FileUntouched
  <2>. QED
    BY <2>4, <2>5
<1>3. CASE UploadIndex
  <2>. DEFINE f == req.file
  <2>1. /\ f \in Files /\ UNCHANGED tree /\ req' = NoReq
        /\ Settle(f, Current(f) = req.content) /\ req.op = "upload" /\ req.pc = "index"
    BY <1>3 DEF UploadIndex, ReqTypeOK, EndRequest
  <2>2. PICK o \in {Nothing, Current(f)} :
            entry' = [entry EXCEPT ![f] = Row(req.content, req.content, o)]
    BY <1>3 DEF UploadIndex
  <2>. HIDE DEF f
  <2>3. \A h : Current(h)' = Current(h)
    BY <2>1, CurrentUnchanged DEF tree
  <2>4. CASE g = f
    <3>1. Current(g) = req.content
      BY <2>1, <2>4 DEF Settle, FileRight, UploadedRight, f
    <3>2. entry'[g] = Row(req.content, req.content, o)
      BY <2>2, <2>4 DEF IndexOK
    <3>3. Matches(g)'
      BY <2>2, <2>3, <2>4, <3>1, <3>2 DEF Matches, Row
    <3>4. CASE g \notin suspect
      BY <2>1, <2>3, <3>3, <3>4 DEF FileRight, ListedRight, Listing, ImportedRight,
         UploadedRight, RowRight, NoReq
    <3>5. CASE g \in suspect
      <4>1. ~Held(g)
        BY <2>1, <2>4, <3>5 DEF Settle
      <4>2. ~Listing(g) /\ ~(imp.pc \in {"probe", "store"} /\ imp.file = g)
        BY <4>1, NotHeld
      <4>3. ~Listing(g)' /\ ~(imp'.pc \in {"probe", "store"} /\ imp'.file = g)
        BY <4>2 DEF Listing
      <4>. QED
        BY <2>1, <3>3, <4>3, FileSettled DEF NoReq
    <3>. QED
      BY <3>4, <3>5
  <2>5. CASE g # f
    <3>1. g \in InFlight => g \in InFlight'
      BY <2>1, <2>5, FlightOf DEF InFlight, f
    <3>2. entry'[g] = entry[g] /\ g \notin suspect
      BY <2>1, <2>2, <2>5 DEF Settle, IndexOK
    <3>. QED
      BY <2>1, <2>3, <3>1, <3>2, FileUntouched DEF NoReq
  <2>. QED
    BY <2>4, <2>5
<1>4. CASE UploadIndexFails
  <2>. DEFINE f == req.file
  <2>1. /\ f \in Files /\ req.slot \in Slots /\ Stored(f, req.slot, Nothing)
        /\ UNCHANGED <<dirId, entry>> /\ suspect' = suspect \cup {f} /\ req' = NoReq
    BY <1>4 DEF UploadIndexFails, ReqTypeOK, EndRequest, index
  <2>. HIDE DEF f
  <2>2. g # f /\ g \notin suspect
    BY <2>1
  <2>3. Current(g)' = Current(g)
    BY <2>1, <2>2, CurrentAfterStored
  <2>4. g \in InFlight => g \in InFlight'
    BY <2>1, <2>2, FlightOf DEF InFlight, f
  <2>. QED
    BY <2>1, <2>2, <2>3, <2>4, FileUntouched DEF NoReq
<1>. QED
  BY <1>1, <1>2, <1>3, <1>4

LEMMA FilesDelete ==
    ASSUME TypeOK, WalkOK, StrayOK, GoneOK, NEW g \in Files, g \notin suspect',
           UNCHANGED <<imp, reb>>, g \notin suspect => FileRight(g),
           \/ \E f \in Files : DeleteFile(f)
           \/ DeleteRow \/ DeleteRowFails \/ DeleteDirectory
    PROVE  FileRight(g)'
<1>. TreeOK /\ ReqTypeOK /\ HistoryOK /\ IndexOK
  BY TypeParts
<1>. USE Values
<1>1. ASSUME NEW f \in Files, DeleteFile(f) PROVE FileRight(g)'
  <2>1. /\ Stored(f, Slot(f), Nothing) /\ UNCHANGED <<dirId, entry>>
        /\ suspect' = IF Held(f) THEN suspect \cup {f} ELSE suspect
        /\ req' = [req EXCEPT !.pc = "row", !.file = f] /\ req.pc = "children"
    BY <1>1 DEF DeleteFile, index
  <2>2. req'.pc = "row" /\ req'.file = f
    BY <2>1 DEF ReqTypeOK
  <2>3. \A h \in Files : Current(h)' = IF h = f THEN Nothing ELSE Current(h)
    BY <2>1, Reads, CurrentAfterStored
  <2>4. CASE g = f
    <3>1. ~Held(g) /\ Current(g)' = Nothing
      BY <2>1, <2>3, <2>4
    <3>2. ~Listing(g) /\ ~(imp.pc \in {"probe", "store"} /\ imp.file = g)
      BY <3>1, NotHeld
    <3>3. g \in InFlight'
      BY <2>2, <2>4 DEF InFlight
    <3>. QED
      BY <2>2, <3>2, <3>3 DEF FileRight, ListedRight, Listing, ImportedRight,
         UploadedRight, RowRight
  <2>5. CASE g # f
    <3>1. g \in InFlight => g \in InFlight'
      BY <2>1, <2>2, <2>5, FlightOf DEF InFlight
    <3>2. Current(g)' = Current(g) /\ g \notin suspect
      BY <2>1, <2>3, <2>5
    <3>. QED
      BY <2>1, <2>2, <2>5, <3>1, <3>2, FileUntouched
  <2>. QED
    BY <2>4, <2>5
<1>2. CASE DeleteRow
  <2>. DEFINE f == req.file
  <2>1. /\ f \in Files /\ UNCHANGED tree /\ Current(f) = Nothing /\ req.pc = "row"
        /\ entry' = [entry EXCEPT ![f] = NoEntry] /\ Settle(f, TRUE)
    BY <1>2 DEF DeleteRow, ReqTypeOK, GoneOK
  <2>2. req'.pc \notin {"index", "row"}
    <3>1. req' = NoReq \/ req'.pc = "children"
      BY <1>2 DEF DeleteRow, EndRequest, ReqTypeOK
    <3>. QED
      BY <3>1 DEF NoReq
  <2>. HIDE DEF f
  <2>3. \A h : Current(h)' = Current(h)
    BY <2>1, CurrentUnchanged DEF tree
  <2>4. CASE g = f
    <3>1. Matches(g)'
      BY <2>1, <2>3, <2>4 DEF Matches, NoEntry, IndexOK
    <3>2. CASE g \notin suspect
      BY <2>2, <2>3, <3>1, <3>2 DEF FileRight, ListedRight, Listing, ImportedRight,
         UploadedRight, RowRight
    <3>3. CASE g \in suspect
      <4>1. ~Held(g)
        BY <2>1, <2>4, <3>3 DEF Settle
      <4>2. ~Listing(g) /\ ~(imp.pc \in {"probe", "store"} /\ imp.file = g)
        BY <4>1, NotHeld
      <4>3. ~Listing(g)' /\ ~(imp'.pc \in {"probe", "store"} /\ imp'.file = g)
        BY <4>2 DEF Listing
      <4>. QED
        BY <2>2, <3>1, <4>3, FileSettled
    <3>. QED
      BY <3>2, <3>3
  <2>5. CASE g # f
    <3>1. g \in InFlight => g \in InFlight'
      BY <2>1, <2>5, FlightOf DEF InFlight, f
    <3>2. entry'[g] = entry[g] /\ g \notin suspect
      BY <2>1, <2>5 DEF Settle, IndexOK
    <3>. QED
      BY <2>2, <2>3, <3>1, <3>2, FileUntouched
  <2>. QED
    BY <2>4, <2>5
<1>3. CASE DeleteRowFails
  <2>1. /\ UNCHANGED <<tree, entry>> /\ suspect' = suspect \cup {req.file} /\ req' = NoReq
    BY <1>3 DEF DeleteRowFails, EndRequest, index
  <2>2. g # req.file /\ g \notin suspect
    BY <2>1
  <2>3. g \in InFlight => g \in InFlight'
    BY <2>1, <2>2, FlightOf DEF InFlight
  <2>. QED
    BY <2>1, <2>2, <2>3, FileUntouched, CurrentUnchanged DEF tree, NoReq
<1>4. CASE DeleteDirectory
  <2>1. req'.pc = "dirrow" /\ req.pc = "children" /\ entry' = entry
    BY <1>4 DEF DeleteDirectory, ReqTypeOK, index
  <2>2. g \notin suspect
    BY <1>4, CurrentAfterDelete
  <2>3. CASE ParentOf[g] # req.dir
    <3>1. Current(g)' = Current(g)
      BY <1>4, <2>3, CurrentAfterDelete
    <3>2. g \in InFlight => g \in InFlight'
      BY <2>1, FlightOf DEF InFlight
    <3>. QED
      BY <2>1, <2>2, <3>1, <3>2, FileUntouched
  <2>4. CASE ParentOf[g] = req.dir
    <3>1. ~Held(g) /\ entry[g] = NoEntry /\ Current(g)' = Nothing
      BY <1>4, <2>4, CurrentAfterDelete
    <3>2. ~Listing(g) /\ ~(imp.pc \in {"probe", "store"} /\ imp.file = g)
      BY <3>1, NotHeld
    <3>3. ~Listing(g)' /\ ~(imp'.pc \in {"probe", "store"} /\ imp'.file = g)
      BY <3>2 DEF Listing
    <3>4. Matches(g)'
      BY <2>1, <3>1 DEF Matches, NoEntry
    <3>. QED
      BY <2>1, <3>3, <3>4, FileSettled
  <2>. QED
    BY <2>3, <2>4
<1>. QED
  BY <1>1, <1>2, <1>3, <1>4

LEMMA FilesOpen ==
    ASSUME TypeOK, FreshIds, GoneOK, NEW g \in Files, g \notin suspect', UNCHANGED <<imp, reb>>,
           g \notin suspect => FileRight(g),
           \/ \E f \in Files : UploadOpen(f)
           \/ \E d \in Dirs : Mkdir(d)
           \/ \E p \in Files \cup Dirs : DeleteOpen(p)
           \/ MkdirIndex \/ MkdirIndexFails \/ DeleteFails \/ DeleteDirectoryRow
    PROVE  FileRight(g)'
<1>. ReqTypeOK /\ LockOK
  BY TypeParts
<1>1. CASE \/ \E f \in Files : UploadOpen(f)
           \/ \E p \in Files \cup Dirs : DeleteOpen(p)
  <2>1. /\ life = "free" /\ UNCHANGED <<tree, entry, suspect>>
        /\ req'.pc \in {"copy", "children"}
    BY <1>1 DEF UploadOpen, DeleteOpen, NoReq, index, history
  <2>2. g \in InFlight => g \in InFlight'
    BY <2>1, FlightOf DEF InFlight, LockOK, ReqTypeOK
  <2>. QED
    BY <2>1, <2>2, FileUntouched, CurrentUnchanged DEF tree
<1>2. ASSUME NEW d \in Dirs, Mkdir(d) PROVE FileRight(g)'
  <2>1. /\ life = "free" /\ entry' = entry /\ req'.op = "mkdir" /\ CreateDirectory(d)
    BY <1>2 DEF Mkdir, NoReq, index
  <2>2. g \notin suspect /\ Current(g)' = Current(g)
    BY <2>1, CurrentAfterCreate
  <2>3. g \in InFlight => g \in InFlight'
    BY <2>1, FlightOf DEF InFlight, LockOK, ReqTypeOK
  <2>. QED
    BY <2>1, <2>2, <2>3, FileUntouched
<1>3. CASE MkdirIndex \/ MkdirIndexFails \/ DeleteFails \/ DeleteDirectoryRow
  <2>1. /\ UNCHANGED <<tree, entry, suspect>> /\ req' = NoReq
        /\ req.op = "mkdir" \/ req.pc \in {"children", "dirrow"}
    BY <1>3 DEF MkdirIndex, MkdirIndexFails, DeleteFails, DeleteDirectoryRow, EndRequest,
       index, history
  <2>2. req.op = "mkdir" => req.file # g
    BY Paths DEF GoneOK
  <2>3. g \in InFlight => g \in InFlight'
    BY <2>1, <2>2, FlightOf DEF InFlight
  <2>. QED
    BY <2>1, <2>3, FileUntouched, CurrentUnchanged DEF tree, NoReq
<1>. QED
  BY <1>1, <1>2, <1>3

LEMMA FilesImport ==
    ASSUME TypeOK, FreshIds, WalkOK, NEW g \in Files, g \notin suspect', ImportStep,
           g \notin suspect => FileRight(g)
    PROVE  FileRight(g)'
<1>. TreeOK /\ ReqTypeOK /\ ImpTypeOK /\ LockOK /\ IndexOK /\ SourceOK
  BY TypeParts
<1>. UNCHANGED <<req, reb>>
  BY ImportFrame
<1>. USE Values
<1>k. ASSUME UNCHANGED <<tree, entry, suspect>>, imp.pc \notin {"probe", "store"},
             imp'.pc \notin {"probe", "store"}
      PROVE  FileRight(g)'
  <2>1. g \in InFlight => g \in InFlight'
    BY <1>k, FlightOf DEF InFlight
  <2>. QED
    BY <1>k, <2>1, FileUntouched, CurrentUnchanged DEF tree
<1>1. CASE ImportStart \/ ImportDirectoryRow \/ (\E f \in Files : ImportLease(f)) \/ ImportClaim
  BY <1>1, <1>k DEF ImportStart, ImportDirectoryRow, ImportLease, ImportClaim, NoImp,
     ImpTypeOK, history, index
<1>2. CASE ImportUnlink \/ ImportRestore \/ ImportLeave \/ ImportDone
  <2>1. CASE ImportUnlink
    BY <2>1, <1>k DEF ImportUnlink, Walked, ImpTypeOK, index
  <2>2. CASE ImportRestore \/ ImportDone
    <3>1. imp.pc \in {"unlink", "walk"} /\ imp' = NoImp /\ UNCHANGED <<tree, entry, suspect>>
      BY <2>2 DEF ImportRestore, ImportDone, history, index
    <3>. QED
      BY <1>k, <3>1 DEF NoImp
  <2>3. CASE ImportLeave
    BY <2>3, <1>k DEF ImportLeave, ImpTypeOK, history
  <2>. QED
    BY <1>2, <2>1, <2>2, <2>3
<1>3. ASSUME NEW d \in Dirs, ImportDirectory(d) PROVE FileRight(g)'
  <2>1. /\ CreateDirectory(d) /\ entry' = entry /\ imp.pc = "walk" /\ imp'.pc = "opening"
    BY <1>3 DEF ImportDirectory, ImpTypeOK, index
  <2>2. g \notin suspect /\ Current(g)' = Current(g)
    BY <2>1, CurrentAfterCreate
  <2>3. g \in InFlight => g \in InFlight'
    BY <2>1, FlightOf DEF InFlight
  <2>. QED
    BY <2>1, <2>2, <2>3, FileUntouched
<1>4. CASE ImportEncrypt
  <2>. DEFINE f == imp.file
  <2>1. /\ f \in Files /\ Stored(f, Slot(f), src[f]) /\ UNCHANGED <<dirId, entry>>
        /\ suspect' = IF reb.pc # "idle" /\ Held(f) THEN suspect \cup {f} ELSE suspect
        /\ imp' = [imp EXCEPT !.pc = "probe", !.content = src[f]] /\ src[f] \in Contents
        /\ imp.pc = "encrypt" /\ req.op = "none"
    BY <1>4 DEF ImportEncrypt, ImpTypeOK, LockOK, SourceOK, index
  <2>2. imp'.pc = "probe" /\ imp'.file = f /\ imp'.content = src[f]
    BY <2>1 DEF ImpTypeOK
  <2>. HIDE DEF f
  <2>3. Current(g)' = IF g = f THEN src[f] ELSE Current(g)
    BY <2>1, Reads, CurrentAfterStored
  <2>4. CASE g = f
    <3>1. ~Listing(g)
      <4>1. reb.pc = "idle" \/ ~Held(g)
        BY <2>1, <2>4
      <4>2. CASE ~Held(g)
        BY <4>2, NotHeld
      <4>3. CASE reb.pc = "idle"
        BY <4>3, Paths DEF WalkOK, Listing, NoReb
      <4>. QED
        BY <4>1, <4>2, <4>3
    <3>2. g \in InFlight'
      BY <2>2, <2>4 DEF InFlight
    <3>. QED
      BY <2>1, <2>2, <2>3, <2>4, <3>1, <3>2 DEF FileRight, ListedRight, Listing, ImportedRight,
         UploadedRight, RowRight
  <2>5. CASE g # f
    <3>1. g \in InFlight => g \in InFlight'
      BY <2>1, <2>2, <2>5, FlightOf DEF InFlight
    <3>2. Current(g)' = Current(g) /\ g \notin suspect
      BY <2>1, <2>3, <2>5
    <3>. QED
      BY <2>1, <2>2, <2>5, <3>1, <3>2, FileUntouched
  <2>. QED
    BY <2>4, <2>5
<1>5. CASE ImportProbe
  <2>1. /\ UNCHANGED <<tree, entry, suspect>> /\ imp.pc = "probe"
        /\ \E o \in {Nothing, Current(imp.file)} : imp' = [imp EXCEPT !.pc = "store", !.of = o]
    BY <1>5 DEF ImportProbe, index, history
  <2>2. /\ imp'.pc = "store" /\ imp'.file = imp.file /\ imp'.content = imp.content
        /\ imp'.of \in {Nothing, Current(imp.file)}
    BY <2>1 DEF ImpTypeOK
  <2>3. \A h : Current(h)' = Current(h)
    BY <2>1, CurrentUnchanged DEF tree
  <2>4. g \in InFlight => g \in InFlight'
    BY <2>1, <2>2, FlightOf DEF InFlight
  <2>. QED
    BY <2>1, <2>2, <2>3, <2>4 DEF FileRight, ListedRight, Listing, ImportedRight, UploadedRight,
       RowRight, Ahead, Matches
<1>6. CASE ImportStore
  <2>. DEFINE f == imp.file
  <2>1. /\ UNCHANGED <<tree, suspect>> /\ imp.pc = "store" /\ f \in Files
        /\ entry' = [entry EXCEPT ![f] = Row(imp.content, imp.content, imp.of)]
    BY <1>6 DEF ImportStore, ImpTypeOK, history
  <2>2. imp'.pc \in {"walk", "claim"}
    BY <1>6 DEF ImportStore, ImpTypeOK, Walked
  <2>. HIDE DEF f
  <2>3. \A h : Current(h)' = Current(h)
    BY <2>1, CurrentUnchanged DEF tree
  <2>4. CASE g = f
    <3>1. imp.content = Current(g) /\ imp.of \in {Nothing, Current(g)}
      BY <2>1, <2>4 DEF FileRight, ImportedRight, f
    <3>2. entry'[g] = Row(imp.content, imp.content, imp.of)
      BY <2>1, <2>4 DEF IndexOK
    <3>3. Matches(g)'
      BY <2>3, <3>1, <3>2 DEF Matches, Row
    <3>. QED
      BY <2>1, <2>2, <2>3, <3>3 DEF FileRight, ListedRight, Listing, ImportedRight,
         UploadedRight, RowRight
  <2>5. CASE g # f
    <3>1. g \in InFlight => g \in InFlight'
      BY <2>1, <2>5, FlightOf DEF InFlight, f
    <3>2. entry'[g] = entry[g]
      BY <2>1, <2>5 DEF IndexOK
    <3>. QED
      BY <2>1, <2>2, <2>3, <3>1, <3>2, FileUntouched
  <2>. QED
    BY <2>4, <2>5
<1>7. CASE ImportAbort
  <2>1. /\ UNCHANGED <<disk, dirId, entry>> /\ imp' = NoImp
        /\ suspect' = IF imp.pc \in {"probe", "store"} THEN suspect \cup {imp.file} ELSE suspect
    BY <1>7 DEF ImportAbort, index
  <2>2. g \notin suspect /\ ~(imp.pc \in {"probe", "store"} /\ imp.file = g)
    BY <2>1
  <2>3. g \in InFlight => g \in InFlight'
    BY <2>1, <2>2, FlightOf DEF InFlight
  <2>. QED
    BY <2>1, <2>2, <2>3, FileUntouched, CurrentUnchanged DEF NoImp
<1>. QED
  BY <1>1, <1>2, <1>3, <1>4, <1>5, <1>6, <1>7 DEF ImportStep

\* A step of the rebuild: what it reads is the tree, and what it has read of a
\* trusted file is still so when it writes the row.
LEMMA FilesRebuild ==
    ASSUME TypeOK, WalkOK, StrayOK, QuietOK, FilesRight, RebuildStep, ~reb'.doomed,
           NEW g \in Files, Trusted(g)'
    PROVE  FileRight(g)'
<1>. TreeOK /\ RebTypeOK /\ IndexOK /\ HistoryOK /\ LockOK
  BY TypeParts
<1>. UNCHANGED <<tree, req, imp>>
  BY RebuildFrame
<1>. USE Paths
<1>c. \A h : Current(h)' = Current(h)
  BY CurrentUnchanged DEF tree
<1>f. InFlight' = InFlight
  BY DEF InFlight
<1>i. (ImportedRight(g) => ImportedRight(g)') /\ (UploadedRight(g) => UploadedRight(g)')
  BY <1>c DEF ImportedRight, UploadedRight
<1>1. CASE RebuildClear
  <2>1. /\ reb.pc = "idle" /\ entry' = [f \in Files |-> NoEntry] /\ suspect' = suspect
        /\ reb' = [NoReb EXCEPT !.pc = "list"] /\ quiet' = (life = "free" /\ imp.pc = "idle")
    BY <1>1 DEF RebuildClear
  <2>2. /\ reb'.pc = "list" /\ reb'.dir = Root /\ reb'.todo = {} /\ reb'.rest = {}
        /\ reb'.file = NoPath
    BY <2>1 DEF NoReb
  <2>3. ~Listing(g)'
    BY <2>2 DEF Listing
  <2>4. RowRight(g)'
    <3>1. Ahead(g)'
      BY <2>2 DEF Ahead
    <3>2. entry'[g] = NoEntry
      BY <2>1
    <3>. QED
      BY <3>1, <3>2 DEF RowRight, Matches, NoEntry
  <2>5. ImportedRight(g) /\ UploadedRight(g)
    <3>1. CASE quiet'
      BY <2>1, <3>1 DEF LockOK, ImportedRight, UploadedRight
    <3>2. CASE ~quiet'
      BY <2>1, <3>2 DEF Trusted, FilesRight, FileRight, WalkOK, NoReb
    <3>. QED
      BY <3>1, <3>2
  <2>. QED
    BY <1>i, <2>3, <2>4, <2>5 DEF FileRight, ListedRight
<1>2. CASE RebuildList
  <2>. DEFINE new == Listed(reb.dir) \cup
                     (IF reb.dir = Root THEN {d \in Dirs : dirId[d] # 0} ELSE {})
              sized == [f \in Files |-> IF f \in Children(reb.dir) THEN Current(f)
                                        ELSE reb.sizes[f]]
  <2>1. /\ reb.pc = "list" /\ UNCHANGED <<entry, suspect, quiet>>
        /\ reb' = [reb EXCEPT !.pc = "row", !.todo = new, !.sizes = sized,
                              !.doomed = @ \/ (reb.dir = Root /\ stray # {})]
    BY <1>2 DEF RebuildList, index, history
  <2>2. /\ reb'.pc = "row" /\ reb'.todo = new /\ reb'.sizes = sized
        /\ reb'.dir = reb.dir /\ reb'.rest = reb.rest /\ reb'.file = reb.file
        /\ reb'.doomed = (reb.doomed \/ (reb.dir = Root /\ stray # {}))
    BY <2>1 DEF RebTypeOK
  <2>3. FileRight(g)
    BY <2>1, <2>2 DEF Trusted, FilesRight
  <2>4. reb.todo = {} /\ reb.file = NoPath /\ (reb.dir = Root => reb.rest = {})
    BY <2>1 DEF WalkOK
  <2>5. sized[g] = IF g \in Children(reb.dir) THEN Current(g) ELSE reb.sizes[g]
    OBVIOUS
  <2>6. g \in new <=> g \in Children(reb.dir) /\ Current(g) # Nothing
    BY DEF Listed
  <2>. HIDE DEF sized
  <2>7. \A d \in Dirs : d \in new <=> reb.dir = Root /\ dirId[d] # 0
    BY DEF Listed, Children
  <2>. HIDE DEF new
  <2>8. Listing(g)' <=> g \in new \/ g \in reb.rest
    BY <2>2, <2>4 DEF Listing
  <2>9. ListedRight(g)'
    <3>1. CASE g \in Children(reb.dir)
      BY <1>c, <2>2, <2>5, <3>1 DEF ListedRight
    <3>2. CASE g \notin Children(reb.dir)
      <4>1. Listing(g)' => Listing(g)
        BY <2>6, <2>8, <3>2 DEF Listing
      <4>. QED
        BY <1>c, <2>2, <2>3, <2>5, <3>2, <4>1 DEF FileRight, ListedRight
    <3>. QED
      BY <3>1, <3>2
  <2>10. RowRight(g)'
    <3>1. CASE g \in InFlight \/ Listing(g) \/ Matches(g)
      BY <1>c, <1>f, <2>1, <2>4, <2>8, <3>1 DEF RowRight, Matches, Listing
    <3>2. CASE Ahead(g) /\ Current(g) # Nothing
      <4>1. CASE ParentOf[g] = reb.dir
        BY <2>6, <2>8, <3>2, <4>1 DEF RowRight, Children
      <4>2. CASE ParentOf[g] \in reb.rest
        BY <1>c, <2>2, <3>2, <4>2 DEF RowRight, Ahead
      <4>3. CASE reb.dir = Root /\ ParentOf[g] # Root
        <5>1. ParentOf[g] \in Dirs /\ stray = {}
          BY <2>2, <4>3 DEF Walks
        <5>2. CASE dirId[ParentOf[g]] # 0
          BY <1>c, <2>2, <2>7, <3>2, <4>3, <5>1, <5>2 DEF RowRight, Ahead
        <5>3. CASE dirId[ParentOf[g]] = 0
          BY <3>2, <5>1, <5>3 DEF StrayOK, Current, Slot
        <5>. QED
          BY <5>2, <5>3
      <4>. QED
        BY <2>4, <3>2, <4>1, <4>2, <4>3 DEF Ahead
    <3>. QED
      BY <2>3, <3>1, <3>2 DEF FileRight, RowRight
  <2>. QED
    BY <1>i, <2>3, <2>9, <2>10 DEF FileRight
<1>3. CASE RebuildDirectoryRow
  <2>1. /\ reb.pc = "row" /\ UNCHANGED <<entry, suspect, quiet>>
        /\ reb' = [reb EXCEPT !.pc = "walk"]
    BY <1>3 DEF RebuildDirectoryRow, history
  <2>2. /\ reb'.pc = "walk" /\ reb'.todo = reb.todo /\ reb'.sizes = reb.sizes
        /\ reb'.rest = reb.rest /\ reb'.file = reb.file /\ reb'.doomed = reb.doomed
    BY <2>1 DEF RebTypeOK
  <2>3. FileRight(g)
    BY <2>1, <2>2 DEF Trusted, FilesRight
  <2>. QED
    BY <1>c, <1>f, <1>i, <2>1, <2>2, <2>3 DEF FileRight, ListedRight, RowRight, Listing, Ahead,
       Matches
<1>4. ASSUME NEW f \in Files, RebuildHash(f) PROVE FileRight(g)'
  <2>1. /\ reb.pc = "walk" /\ f \in reb.todo /\ UNCHANGED <<entry, suspect, quiet>>
        /\ reb' = [reb EXCEPT !.pc = "probe", !.file = f, !.hash = Current(f)]
    BY <1>4 DEF RebuildHash, index, history
  <2>2. /\ reb'.pc = "probe" /\ reb'.todo = reb.todo /\ reb'.sizes = reb.sizes
        /\ reb'.rest = reb.rest /\ reb'.file = f /\ reb'.doomed = reb.doomed
        /\ reb'.hash = Current(f)
    BY <2>1 DEF RebTypeOK
  <2>3. FileRight(g)
    BY <2>1, <2>2 DEF Trusted, FilesRight
  <2>4. Listing(g)' <=> Listing(g)
    BY <2>1, <2>2 DEF Listing, WalkOK
  <2>. QED
    BY <1>c, <1>f, <1>i, <2>1, <2>2, <2>3, <2>4 DEF FileRight, ListedRight, RowRight, Ahead,
       Matches
<1>5. CASE RebuildProbe
  <2>1. /\ reb.pc = "probe" /\ UNCHANGED <<entry, suspect, quiet>>
        /\ \E o \in {Nothing, Current(reb.file)} : reb' = [reb EXCEPT !.pc = "store", !.of = o]
    BY <1>5 DEF RebuildProbe, index, history
  <2>2. /\ reb'.pc = "store" /\ reb'.todo = reb.todo /\ reb'.sizes = reb.sizes
        /\ reb'.rest = reb.rest /\ reb'.file = reb.file /\ reb'.doomed = reb.doomed
        /\ reb'.hash = reb.hash /\ reb'.of \in {Nothing, Current(reb.file)}
    BY <2>1 DEF RebTypeOK
  <2>3. FileRight(g)
    BY <2>1, <2>2 DEF Trusted, FilesRight
  <2>. QED
    BY <1>c, <1>f, <1>i, <2>1, <2>2, <2>3 DEF FileRight, ListedRight, RowRight, Listing, Ahead,
       Matches
<1>6. CASE RebuildStore
  <2>. DEFINE f == reb.file
  <2>1. /\ reb.pc = "store" /\ UNCHANGED <<suspect, quiet>> /\ f \in Files
        /\ entry' = [entry EXCEPT ![f] = Row(reb.hash, reb.sizes[f], reb.of)]
        /\ reb' = [reb EXCEPT !.pc = "walk", !.todo = @ \ {f}, !.file = NoPath,
                              !.hash = Nothing, !.of = Nothing]
    BY <1>6 DEF RebuildStore, RebTypeOK, history
  <2>. HIDE DEF f
  <2>2. /\ reb'.pc = "walk" /\ reb'.todo = reb.todo \ {f} /\ reb'.sizes = reb.sizes
        /\ reb'.rest = reb.rest /\ reb'.file = NoPath /\ reb'.doomed = reb.doomed
    BY <2>1 DEF RebTypeOK
  <2>3. FileRight(g)
    BY <2>1, <2>2 DEF Trusted, FilesRight
  <2>4. Listing(g)' => Listing(g)
    BY <2>2 DEF Listing
  <2>5. ListedRight(g)'
    BY <1>c, <2>2, <2>3, <2>4 DEF FileRight, ListedRight
  <2>6. CASE g = f
    <3>1. reb.sizes[g] = Current(g) /\ reb.hash = Current(g) /\ reb.of \in {Nothing, Current(g)}
      BY <2>1, <2>3, <2>6 DEF FileRight, ListedRight, Listing, f
    <3>2. entry'[g] = Row(reb.hash, reb.sizes[g], reb.of)
      BY <2>1, <2>6 DEF IndexOK
    <3>3. Matches(g)'
      BY <1>c, <3>1, <3>2 DEF Matches, Row
    <3>. QED
      BY <1>i, <2>3, <2>5, <3>3 DEF FileRight, RowRight
  <2>7. CASE g # f
    <3>1. Listing(g) => Listing(g)'
      BY <2>2, <2>7 DEF Listing, f
    <3>2. entry'[g] = entry[g]
      BY <2>1, <2>7 DEF IndexOK
    <3>3. ParentOf[g] # f
      BY <2>1, PathsAssumption
    <3>4. Ahead(g) => Ahead(g)'
      BY <2>1, <2>2, <3>3 DEF Ahead
    <3>. QED
      BY <1>c, <1>f, <1>i, <2>3, <2>5, <3>1, <3>2, <3>4 DEF FileRight, RowRight, Matches
  <2>. QED
    BY <2>6, <2>7
<1>7. ASSUME NEW d \in Dirs, RebuildEnter(d) PROVE FileRight(g)'
  <2>1. /\ reb.pc = "walk" /\ d \in reb.todo /\ UNCHANGED <<entry, suspect, quiet>>
        /\ reb' = [reb EXCEPT !.pc = "list", !.dir = d, !.rest = reb.todo \ {d}, !.todo = {}]
    BY <1>7 DEF RebuildEnter, index, history
  <2>2. /\ reb'.pc = "list" /\ reb'.dir = d /\ reb'.todo = {} /\ reb'.sizes = reb.sizes
        /\ reb'.rest = reb.todo \ {d} /\ reb'.file = reb.file /\ reb'.doomed = reb.doomed
    BY <2>1 DEF RebTypeOK
  <2>3. FileRight(g)
    BY <2>1, <2>2 DEF Trusted, FilesRight
  <2>4. reb.rest = {}
    BY <2>1 DEF WalkOK
  <2>5. Listing(g)' <=> Listing(g)
    BY <2>2, <2>4 DEF Listing
  <2>6. Ahead(g) => Ahead(g)'
    BY <2>1, <2>2, <2>4 DEF Ahead
  <2>. QED
    BY <1>c, <1>f, <1>i, <2>1, <2>2, <2>3, <2>5, <2>6 DEF FileRight, ListedRight, RowRight, Matches
<1>8. CASE RebuildLeave
  <2>1. /\ reb.pc = "walk" /\ reb.todo = {} /\ UNCHANGED <<entry, suspect, quiet>>
        /\ reb' = [reb EXCEPT !.dir = Root, !.todo = reb.rest, !.rest = {}]
    BY <1>8 DEF RebuildLeave, index, history
  <2>2. /\ reb'.pc = "walk" /\ reb'.todo = reb.rest /\ reb'.sizes = reb.sizes
        /\ reb'.rest = {} /\ reb'.file = reb.file /\ reb'.doomed = reb.doomed
    BY <2>1 DEF RebTypeOK
  <2>3. FileRight(g)
    BY <2>1, <2>2 DEF Trusted, FilesRight
  <2>. QED
    BY <1>c, <1>f, <1>i, <2>1, <2>2, <2>3 DEF FileRight, ListedRight, RowRight, Listing, Ahead,
       Matches
<1>9. CASE RebuildDone
  <2>1. /\ reb.pc = "walk" /\ reb.todo = {} /\ reb.dir = Root /\ ~reb.doomed /\ reb' = NoReb
        /\ suspect' = (IF quiet THEN {} ELSE suspect) /\ UNCHANGED <<entry, quiet>>
    BY <1>9 DEF RebuildDone, index
  <2>2. FileRight(g)
    BY <2>1 DEF Trusted, FilesRight, NoReb
  <2>3. ~Listing(g) /\ ~Ahead(g)
    BY <2>1 DEF WalkOK, Listing, Ahead
  <2>4. ~Listing(g)'
    BY <2>1 DEF Listing, NoReb
  <2>. QED
    BY <1>c, <1>f, <1>i, <2>1, <2>2, <2>3, <2>4 DEF FileRight, ListedRight, RowRight, Matches
<1>10. CASE RebuildAbort
  BY <1>10 DEF RebuildAbort, Trusted, NoReb
<1>. QED
  BY <1>1, <1>2, <1>3, <1>4, <1>5, <1>6, <1>7, <1>8, <1>9, <1>10 DEF RebuildStep

LEMMA FilesStep ==
    ASSUME TypeOK, FreshIds, WalkOK, QuietOK, StrayOK, GoneOK, FilesRight, [Next]_vars
    PROVE  FilesRight'
<1>. SUFFICES ASSUME ~reb'.doomed, NEW g \in Files, Trusted(g)'
              PROVE  FileRight(g)'
  BY DEF FilesRight
<1>1. CASE Request
  <2>1. UNCHANGED <<imp, reb>> /\ g \notin suspect' /\ (g \notin suspect => FileRight(g))
    BY <1>1, RequestFrame, NoQuiet DEF Trusted, FilesRight
  <2>. QED
    BY <1>1, <2>1, FilesUpload, FilesDelete, FilesOpen DEF Request
<1>2. CASE ImportStep
  <2>1. g \notin suspect' /\ (g \notin suspect => FileRight(g))
    BY <1>2, ImportFrame, NoQuiet DEF Trusted, FilesRight
  <2>. QED
    BY <1>2, <2>1, FilesImport
<1>3. CASE RebuildStep
  BY <1>3, FilesRebuild
<1>4. CASE (\E f \in Files : SourceChanges(f)) \/ UNCHANGED vars
  <2>1. UNCHANGED <<tree, entry, req, imp, reb, suspect, quiet>>
    BY <1>4 DEF SourceChanges, vars, index, history
  <2>2. FileRight(g)
    BY <2>1 DEF Trusted, FilesRight
  <2>. QED
    BY <2>1, <2>2, FileUntouched, CurrentUnchanged DEF tree, InFlight
<1>5. CASE Crash
  <2>1. /\ UNCHANGED <<disk, dirId, entry>> /\ req' = NoReq /\ imp' = NoImp /\ reb' = NoReb
        /\ suspect' = (IF reb.pc # "idle" THEN Files ELSE suspect \cup InFlight)
    BY <1>5 DEF Crash, index
  <2>2. reb.pc = "idle" /\ g \notin suspect /\ g \notin InFlight
    BY <2>1 DEF Trusted, NoReb
  <2>3. reb = NoReb /\ ~Listing(g) /\ ~Ahead(g)
    BY <2>2, Paths DEF WalkOK, Listing, Ahead, NoReb
  <2>4. Matches(g)
    BY <2>2, <2>3 DEF Trusted, FilesRight, FileRight, RowRight, NoReb
  <2>5. Matches(g)' /\ ~Listing(g)'
    BY <2>1, <2>3, <2>4, CurrentUnchanged DEF Matches, Listing
  <2>. QED
    BY <2>1, <2>5, FileSettled DEF NoReq, NoImp
<1>. QED
  BY <1>1, <1>2, <1>3, <1>4, <1>5 DEF Next

\* The directories whose row a rebuild has still to write.
RowAhead(d) ==
    \/ reb.pc = "list" /\ reb.dir = Root
    \/ reb.pc \in {"list", "row"} /\ reb.dir = d
    \/ d \in reb.todo \cup reb.rest

\* While a rebuild runs undisturbed, the rows of directories are those it has
\* written, and the directories it has met still exist.
RowsRight ==
    quiet /\ reb.pc # "idle" =>
        /\ \A d \in Walks :
              dirRow[d] = IF dirId[d] # 0 /\ ~RowAhead(d) THEN "complete" ELSE "none"
        /\ \A d \in Walks \cap (reb.todo \cup reb.rest \cup {reb.dir}) : dirId[d] # 0

LEMMA RowsRebuild ==
    ASSUME TypeOK, WalkOK, RowsRight, RebuildStep, quiet', reb'.pc # "idle"
    PROVE  RowsRight'
<1>. TreeOK /\ RebTypeOK /\ IndexOK
  BY TypeParts
<1>. UNCHANGED <<disk, dirId, nextId, stray>>
  BY RebuildFrame DEF tree
<1>d. Walks \cap Files = {} /\ Root \in Walks /\ Root \notin Dirs /\ Root \notin Files
      /\ dirId[Root] # 0
  BY PathsAssumption, Paths DEF TreeOK
<1>1. CASE RebuildClear
  <2>1. /\ dirRow' = [d \in Walks |-> "none"] /\ reb'.pc = "list" /\ reb'.dir = Root
        /\ reb'.todo = {} /\ reb'.rest = {}
    BY <1>1 DEF RebuildClear, NoReb
  <2>. QED
    BY <1>d, <2>1 DEF RowsRight, RowAhead
<1>2. CASE RebuildList
  <2>. DEFINE new == Listed(reb.dir) \cup
                     (IF reb.dir = Root THEN {d \in Dirs : dirId[d] # 0} ELSE {})
  <2>1. /\ reb.pc = "list" /\ UNCHANGED <<dirRow, quiet>>
        /\ reb'.pc = "row" /\ reb'.todo = new /\ reb'.dir = reb.dir /\ reb'.rest = reb.rest
    BY <1>2 DEF RebuildList, index, history, RebTypeOK
  <2>2. \A d \in Walks : d \in new <=> reb.dir = Root /\ d \in Dirs /\ dirId[d] # 0
    BY <1>d DEF Listed, Children
  <2>. HIDE DEF new
  <2>3. reb.todo = {} /\ (reb.dir = Root => reb.rest = {})
    BY <2>1 DEF WalkOK
  <2>4. /\ \A d \in Walks : dirRow[d] = IF dirId[d] # 0 /\ ~RowAhead(d) THEN "complete" ELSE "none"
        /\ \A d \in Walks \cap (reb.todo \cup reb.rest \cup {reb.dir}) : dirId[d] # 0
    BY <2>1 DEF RowsRight
  <2>5. \A d \in Walks \cap (reb'.todo \cup reb'.rest \cup {reb'.dir}) : dirId'[d] # 0
    BY <2>1, <2>2, <2>4
  <2>6. \A d \in Walks : dirId[d] # 0 => (RowAhead(d)' <=> RowAhead(d))
    <3>1. CASE reb.dir = Root
      BY <2>1, <2>2, <2>3, <3>1 DEF RowAhead, Walks
    <3>2. CASE reb.dir # Root
      BY <2>1, <2>2, <2>3, <3>2 DEF RowAhead
    <3>. QED
      BY <3>1, <3>2
  <2>. QED
    BY <2>1, <2>4, <2>5, <2>6 DEF RowsRight
<1>3. CASE RebuildDirectoryRow
  <2>1. /\ reb.pc = "row" /\ dirRow' = [dirRow EXCEPT ![reb.dir] = "complete"] /\ quiet' = quiet
        /\ reb'.pc = "walk" /\ reb'.todo = reb.todo /\ reb'.dir = reb.dir /\ reb'.rest = reb.rest
    BY <1>3 DEF RebuildDirectoryRow, history, RebTypeOK
  <2>2. /\ \A d \in Walks : dirRow[d] = IF dirId[d] # 0 /\ ~RowAhead(d) THEN "complete" ELSE "none"
        /\ \A d \in Walks \cap (reb.todo \cup reb.rest \cup {reb.dir}) : dirId[d] # 0
    BY <2>1 DEF RowsRight
  <2>3. reb.dir \in Walks /\ reb.dir \notin reb.todo \cup reb.rest
    BY <1>d DEF WalkOK, RebTypeOK
  <2>4. dirRow'[reb.dir] = "complete" /\ ~RowAhead(reb.dir)'
    BY <2>1, <2>3 DEF IndexOK, RowAhead
  <2>5. \A d \in Walks \ {reb.dir} : dirRow'[d] = dirRow[d] /\ (RowAhead(d)' <=> RowAhead(d))
    BY <2>1, <2>3 DEF IndexOK, RowAhead
  <2>. QED
    BY <2>1, <2>2, <2>3, <2>4, <2>5 DEF RowsRight
<1>4. ASSUME NEW f \in Files, RebuildHash(f) PROVE RowsRight'
  <2>1. /\ UNCHANGED <<dirRow, quiet>> /\ reb.pc = "walk" /\ reb'.pc = "probe"
        /\ reb'.todo = reb.todo /\ reb'.rest = reb.rest /\ reb'.dir = reb.dir
    BY <1>4 DEF RebuildHash, index, history, RebTypeOK
  <2>. QED
    BY <2>1 DEF RowsRight, RowAhead
<1>5. CASE RebuildProbe
  <2>1. /\ UNCHANGED <<dirRow, quiet>> /\ reb.pc = "probe" /\ reb'.pc = "store"
        /\ reb'.todo = reb.todo /\ reb'.rest = reb.rest /\ reb'.dir = reb.dir
    BY <1>5 DEF RebuildProbe, index, history, RebTypeOK
  <2>. QED
    BY <2>1 DEF RowsRight, RowAhead
<1>6. CASE RebuildStore
  <2>1. /\ UNCHANGED <<dirRow, quiet>> /\ reb.pc = "store" /\ reb'.pc = "walk"
        /\ reb'.todo = reb.todo \ {reb.file} /\ reb'.rest = reb.rest /\ reb'.dir = reb.dir
    BY <1>6 DEF RebuildStore, history, RebTypeOK
  <2>2. reb.file \notin Walks
    BY <1>d, <2>1 DEF RebTypeOK
  <2>. QED
    BY <2>1, <2>2 DEF RowsRight, RowAhead
<1>7. ASSUME NEW e \in Dirs, RebuildEnter(e) PROVE RowsRight'
  <2>1. /\ UNCHANGED <<dirRow, quiet>> /\ reb.pc = "walk" /\ e \in reb.todo /\ reb'.pc = "list"
        /\ reb'.todo = {} /\ reb'.rest = reb.todo \ {e} /\ reb'.dir = e
    BY <1>7 DEF RebuildEnter, index, history, RebTypeOK
  <2>2. reb.rest = {} /\ e # Root /\ e \in Walks
    BY <1>d, <2>1, Paths DEF WalkOK
  <2>3. \A d \in Walks : RowAhead(d)' <=> RowAhead(d)
    BY <2>1, <2>2 DEF RowAhead
  <2>. QED
    BY <2>1, <2>2, <2>3 DEF RowsRight
<1>8. CASE RebuildLeave
  <2>1. /\ UNCHANGED <<dirRow, quiet>> /\ reb.pc = "walk" /\ reb'.pc = "walk" /\ reb.todo = {}
        /\ reb'.todo = reb.rest /\ reb'.rest = {} /\ reb'.dir = Root
    BY <1>8 DEF RebuildLeave, index, history, RebTypeOK
  <2>. QED
    BY <1>d, <2>1 DEF RowsRight, RowAhead
<1>9. CASE RebuildDone \/ RebuildAbort
  <2>1. reb' = NoReb
    BY <1>9 DEF RebuildDone, RebuildAbort
  <2>2. NoReb.pc = "idle"
    BY DEF NoReb
  <2>. QED
    BY <2>1, <2>2
<1>. QED
  BY <1>1, <1>2, <1>3, <1>4, <1>5, <1>6, <1>7, <1>8, <1>9 DEF RebuildStep

LEMMA RowsStep ==
    ASSUME TypeOK, WalkOK, QuietOK, RowsRight, [Next]_vars
    PROVE  RowsRight'
<1>1. CASE Request \/ ImportStep
  BY <1>1, NoQuiet DEF RowsRight
<1>2. CASE RebuildStep
  BY <1>2, RowsRebuild DEF RowsRight
<1>3. CASE (\E f \in Files : SourceChanges(f)) \/ UNCHANGED vars
  <2>1. UNCHANGED <<dirRow, dirId, reb, quiet>>
    BY <1>3 DEF SourceChanges, vars, tree, index, history
  <2>. QED
    BY <2>1 DEF RowsRight, RowAhead
<1>4. CASE Crash
  BY <1>4 DEF Crash, RowsRight, NoReb
<1>. QED
  BY <1>1, <1>2, <1>3, <1>4 DEF Next

IndexInv ==
    /\ TypeOK /\ FreshIds /\ WalkOK /\ QuietOK /\ StrayOK /\ GoneOK
    /\ FilesRight /\ RowsRight

LEMMA IndexInvInit == Init => IndexInv
<1>. SUFFICES ASSUME Init PROVE IndexInv
  OBVIOUS
<1>1. TypeOK /\ FreshIds
  BY InitTypes, InitFresh
<1>2. WalkOK /\ QuietOK /\ GoneOK /\ RowsRight
  BY DEF Init, WalkOK, QuietOK, GoneOK, RowsRight, NoReb, NoReq
<1>3. StrayOK
  BY Values DEF Init, StrayOK, NoReq
<1>4. ASSUME NEW f \in Files PROVE FileRight(f)
  <2>1. Current(f) = Nothing
    BY <1>1, TypeParts, Reads DEF Init, Current
  <2>2. Matches(f)
    BY <2>1 DEF Init, Matches, NoEntry
  <2>. QED
    BY <2>2, Paths DEF Init, FileRight, ListedRight, Listing, ImportedRight, UploadedRight,
       RowRight, NoReb, NoImp, NoReq
<1>. QED
  BY <1>1, <1>2, <1>3, <1>4 DEF IndexInv, FilesRight

LEMMA IndexInvStep == IndexInv /\ [Next]_vars => IndexInv'
BY TypeStep, FreshIdsStep, WalkStep, QuietStep, StrayStep, GoneStep, FilesStep, RowsStep
   DEF IndexInv

LEMMA IndexInvariance == Spec => []IndexInv
BY IndexInvInit, IndexInvStep, PTL DEF Spec

\* A file and its index row agree whenever no operation on the file is at work,
\* over every interleaving of requests, an import and a rebuild, unless the
\* file is suspect: an index write failed, the process ended between the two
\* stores, a directory was created twice, or a change met an older reading.
THEOREM IndexFollowsDisk == Spec => []IndexMatchesDisk
<1>1. ASSUME IndexInv, reb.pc = "idle", NEW f \in Files \ (suspect \cup InFlight)
      PROVE  Matches(f)
  <2>1. reb = NoReb
    BY <1>1 DEF IndexInv, WalkOK
  <2>2. RowRight(f)
    BY <1>1, <2>1 DEF IndexInv, FilesRight, Trusted, FileRight, NoReb
  <2>3. ~Listing(f) /\ ~Ahead(f)
    BY <2>1, Paths DEF Listing, Ahead, NoReb
  <2>. QED
    BY <1>1, <2>2, <2>3 DEF RowRight
<1>2. IndexInv => IndexMatchesDisk
  BY <1>1 DEF IndexMatchesDisk
<1>. QED
  BY <1>2, IndexInvariance, PTL

\* A rebuild that nothing overlapped ends with an index that is exactly the
\* tree, whatever the index was before and however the rebuild walked.
THEOREM RebuildIsExact == Spec => RebuildRepairs
<1>1. ASSUME IndexInv, RebuildDone, quiet
      PROVE  /\ \A f \in Files : Matches(f)
             /\ \A d \in Walks : dirRow[d] = IF dirId[d] # 0 THEN "complete" ELSE "none"
  <2>1. /\ reb.pc = "walk" /\ reb.todo = {} /\ reb.rest = {} /\ reb.file = NoPath
        /\ ~reb.doomed
    BY <1>1 DEF RebuildDone, IndexInv, WalkOK
  <2>2. InFlight = {}
    <3>1. req.pc = "idle" /\ imp.pc = "idle"
      BY <1>1, TypeParts DEF IndexInv, QuietOK, ReqTypeOK
    <3>. QED
      BY <3>1 DEF InFlight
  <2>3. ASSUME NEW f \in Files PROVE Matches(f)
    <3>1. RowRight(f)
      BY <1>1, <2>1 DEF IndexInv, FilesRight, Trusted, FileRight
    <3>. QED
      BY <2>1, <2>2, <3>1, Paths DEF RowRight, Listing, Ahead
  <2>4. \A d \in Walks : dirRow[d] = IF dirId[d] # 0 THEN "complete" ELSE "none"
    BY <1>1, <2>1 DEF IndexInv, RowsRight, RowAhead
  <2>. QED
    BY <2>3, <2>4
<1>2. IndexInv /\ [Next]_vars =>
          [RebuildDone /\ quiet =>
              /\ \A f \in Files : Matches(f)
              /\ \A d \in Walks : dirRow[d] = IF dirId[d] # 0 THEN "complete" ELSE "none"]_vars
  BY <1>1
<1>. QED
  BY <1>2, IndexInvariance, PTL DEF Spec, RebuildRepairs

=============================================================================
